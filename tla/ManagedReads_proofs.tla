------------------------ MODULE ManagedReads_proofs ------------------------
(***************************************************************************)
(* Proofs about the cache of ManagedResolver: what a call may return       *)
(* (ManagedReads) and that the cache implements LastKnownGood, for any     *)
(* number of names, callers, resolver objects and services. The invariant  *)
(* of ManagedResolver_proofs holds throughout.                             *)
(***************************************************************************)
EXTENDS ManagedReads, ManagedResolver_proofs

-----------------------------------------------------------------------------
(* What a step does to one caller, and to the objects.                     *)

\* The moves of a caller: into a call, through the two lookups, through once and
\* the seed, and through service or emptyErr out of it.
CallerMove(c) ==
    \/ call'[c] = call[c]
    \/ call[c].pc = "idle" /\ call'[c].pc = "fast"
    \/ call[c].pc = "fast" /\ call'[c].pc = "slow"
    \/ call[c].pc = "fast" /\ call'[c].pc = "once" /\ resolvers[call[c].name] # None
    \/ call[c].pc = "slow" /\ call'[c].pc = "load" /\ call'[c].obj = Ephemeral
    \/ call[c].pc = "slow" /\ call'[c].pc = "once" /\ ~closed
    \/ /\ call[c].pc \in SeedPc \cup {"once"}
       /\ call'[c].pc \in SeedPc \cup {"load"}
    \/ /\ call[c].pc = "load" /\ call'[c].obj = call[c].obj
       /\ call'[c].pc = IF mr[call[c].obj].seeded THEN "current" ELSE "empty"
    \/ /\ call[c].pc = "current" /\ call'[c].pc = "idle"
       /\ call'[c].ret = mr[call[c].obj].current
    \/ /\ call[c].pc = "empty" /\ call'[c].pc = "idle"
       /\ call'[c].ret \in {Fallback, EmptyErr(call[c].obj)}

\* A step of a caller moves that caller only.
LEMMA MoveOfStep ==
  ASSUME Typed, NEW c \in Callers, CallerStep(c)
  PROVE  /\ CallerMove(c)
         /\ \A d \in Callers \ {c} : call'[d] = call[d]
<1> USE DEF Typed, TypeOK, CallState, CallerMove, Goto
<1>1. CASE FastLookup(c)
  <2>1. CASE resolvers[call[c].name] # None
    BY <1>1, <2>1 DEF FastLookup, Found
  <2>2. CASE resolvers[call[c].name] = None
    BY <1>1, <2>2 DEF FastLookup
  <2> QED
    BY <2>1, <2>2
<1>2. CASE SlowLookup(c)
  <2>1. /\ call[c].pc = "slow"
        /\ \/ call' = [call EXCEPT ![c].obj = Ephemeral, ![c].pc = "load"]
           \/ /\ ~closed
              /\ \E r : call' = [call EXCEPT ![c].obj = r, ![c].pc = "once"]
    BY <1>2 DEF SlowLookup, MustCreate
  <2> QED
    BY <2>1
<1>3. CASE OnceEnter(c) \/ OnceDone(c)
  BY <1>3 DEF OnceEnter, OnceDone, SeedPc
<1>4. ASSUME NEW a \in Answers, SeedResolve(c, a)
      PROVE  /\ CallerMove(c)
             /\ \A d \in Callers \ {c} : call'[d] = call[d]
  BY <1>4 DEF SeedResolve, SeedPc
<1>5. CASE SeedStoreCurrent(c) \/ SeedStoreAuth(c) \/ SeedPublish(c)
  BY <1>5 DEF SeedStoreCurrent, SeedStoreAuth, SeedPublish, SeedPc
<1>6. CASE StartWatch(c) \/ WatchOpened(c) \/ WatchFailed(c)
  BY <1>6 DEF StartWatch, WatchOpened, WatchFailed, SeedPc
<1>7. CASE LoadSeeded(c)
  BY <1>7 DEF LoadSeeded, Hit
<1>8. CASE LoadCurrent(c)
  BY <1>8 DEF LoadCurrent
<1>9. CASE ReturnEmpty(c)
  BY <1>9 DEF ReturnEmpty
<1> QED
  BY <1>1, <1>2, <1>3, <1>4, <1>5, <1>6, <1>7, <1>8, <1>9 DEF CallerStep

\* Every step moves a caller so, or not at all.
LEMMA EveryoneMoves ==
  ASSUME Typed, [Next]_vars
  PROVE  \A c \in Callers : CallerMove(c)
<1>1. ASSUME NEW c \in Callers, NEW n \in Names, Call(c, n)
      PROVE  \A d \in Callers : CallerMove(d)
  BY <1>1 DEF Call, CallerMove, Typed, TypeOK, CallState
<1>2. ASSUME NEW c \in Callers, CallerStep(c)
      PROVE  \A d \in Callers : CallerMove(d)
  <2>1. CallerMove(c)
    BY <1>2, MoveOfStep
  <2>2. ASSUME NEW d \in Callers, d # c PROVE CallerMove(d)
    <3>1. call'[d] = call[d]
      BY <1>2, <2>2, MoveOfStep
    <3> QED
      BY <3>1 DEF CallerMove
  <2> QED
    BY <2>1, <2>2
<1>3. ASSUME NEW r \in Resolvers, WatchStep(r) \/ Emit(r) \/ CloseChan(r)
      PROVE  UNCHANGED call
  BY <1>3
  DEF WatchStep, Wake, Exit, WatchResolve, WatchStoreCurrent, WatchStoreAuth,
      WatchPublish, WatchClearAuth, WatchClearSeeded, Emit, CloseChan
<1>4. ASSUME CloseBegin \/ CloseStep PROVE UNCHANGED call
  BY <1>4 DEF CloseBegin, CloseStep, CloseDrain, CloseUnlock, CloseRegistry
<1>5. CASE UNCHANGED vars
  BY <1>5 DEF vars, CallerMove
<1>6. ASSUME UNCHANGED call PROVE \A c \in Callers : CallerMove(c)
  BY <1>6 DEF CallerMove
<1> QED
  BY <1>1, <1>2, <1>3, <1>4, <1>5, <1>6 DEF Next

\* The value of a resolver changes when the resolver is made, which nobody holds
\* then, and by the first write of a store, which is then under way. Nobody
\* writes what a caller gets after Close.
CurrentKept ==
    /\ mr'[Ephemeral] = mr[Ephemeral]
    /\ \A r \in Resolvers : \/ mr'[r].current = mr[r].current
                            \/ mr[r].owner = None
                            \/ Installing(r)'

\* A resolver that somebody reads has current overwritten by a store only.
LEMMA WritesOfStep ==
  ASSUME Typed, [Next]_vars
  PROVE  CurrentKept
<1> USE ConstantsAssumption
    DEF Typed, TypeOK, CallTyped, Objects, ResolverState, WatchState, CallState,
        SeedPc, CurrentKept
<1>1. ASSUME NEW c \in Callers,
             \/ FastLookup(c) \/ OnceDone(c) \/ LoadSeeded(c) \/ LoadCurrent(c)
             \/ ReturnEmpty(c) \/ (\E n \in Names : Call(c, n))
      PROVE  UNCHANGED mr
  BY <1>1 DEF FastLookup, OnceDone, LoadSeeded, LoadCurrent, ReturnEmpty, Call
<1>2. ASSUME NEW c \in Callers, SlowLookup(c) PROVE CurrentKept
  <2>1. CASE UNCHANGED mr
    BY <2>1
  <2>2. ASSUME NEW n, NEW r \in Resolvers, mr[r].owner = None,
               mr' = [mr EXCEPT ![r] = NewResolver(n)]
        PROVE  CurrentKept
    BY <2>2
  <2> QED
    BY <1>2, <2>1, <2>2 DEF SlowLookup
<1>3. ASSUME NEW c \in Callers, OnceEnter(c) \/ StartWatch(c)
      PROVE  CurrentKept
  <2>1. CASE OnceEnter(c)
    BY <2>1 DEF OnceEnter
  <2>2. CASE StartWatch(c)
    BY <2>2 DEF StartWatch
  <2> QED
    BY <1>3, <2>1, <2>2
<1>4. ASSUME NEW c \in Callers, WatchOpened(c) \/ WatchFailed(c)
      PROVE  CurrentKept
  <2>1. EndsOnce(c, call[c].obj)
    BY <1>4, OnceOver DEF WatchOpened, WatchFailed
  <2> QED
    BY <2>1 DEF EndsOnce
<1>5. ASSUME NEW c \in Callers, NEW a \in Answers, SeedResolve(c, a)
      PROVE  CurrentKept
  BY <1>5 DEF SeedResolve
<1>6. ASSUME NEW c \in Callers, SeedStoreCurrent(c)
      PROVE  CurrentKept
  <2>1. PICK o \in Resolvers : o = call[c].obj
    BY <1>6 DEF SeedStoreCurrent
  <2>2. Installing(o)'
    BY <1>6, <2>1 DEF SeedStoreCurrent, Goto, Installing
  <2>3. \A r \in Objects \ {o} : mr'[r] = mr[r]
    BY <1>6, <2>1 DEF SeedStoreCurrent, StoreCurrent
  <2>4. o # Ephemeral
    BY <2>1
  <2> QED
    BY <2>1, <2>2, <2>3, <2>4
<1>7. ASSUME NEW c \in Callers, SeedStoreAuth(c) \/ SeedPublish(c)
      PROVE  CurrentKept
  BY <1>7 DEF SeedStoreAuth, StoreAuth, SeedPublish, StorePublish
<1>8. ASSUME NEW r \in Resolvers,
             \/ Wake(r) \/ Exit(r) \/ (\E a \in Answers : WatchResolve(r, a))
             \/ Emit(r) \/ CloseChan(r)
      PROVE  UNCHANGED mr
  BY <1>8 DEF Wake, Exit, WatchResolve, Emit, CloseChan
<1>9. ASSUME NEW r \in Resolvers, WatchStoreCurrent(r)
      PROVE  CurrentKept
  <2>1. Installing(r)'
    BY <1>9 DEF WatchStoreCurrent, Installing
  <2> QED
    BY <1>9, <2>1 DEF WatchStoreCurrent, StoreCurrent
<1>10. ASSUME NEW r \in Resolvers,
              WatchStoreAuth(r) \/ WatchPublish(r) \/ WatchClearAuth(r)
              \/ WatchClearSeeded(r)
       PROVE  CurrentKept
  <2>1. \/ mr' = [mr EXCEPT ![r].authEmpty = FALSE]
        \/ mr' = [mr EXCEPT ![r].seeded = TRUE]
        \/ mr' = [mr EXCEPT ![r].authEmpty = TRUE]
        \/ mr' = [mr EXCEPT ![r].seeded = FALSE]
    BY <1>10 DEF WatchStoreAuth, StoreAuth, WatchPublish, StorePublish,
       WatchClearAuth, ClearAuth, WatchClearSeeded, ClearSeeded
  <2> QED
    BY <2>1
<1>11. ASSUME NEW n \in Names, CloseDrain(n) PROVE CurrentKept
  BY <1>11 DEF CloseDrain
<1>12. ASSUME CloseBegin \/ CloseUnlock \/ CloseRegistry PROVE UNCHANGED mr
  BY <1>12 DEF CloseBegin, CloseUnlock, CloseRegistry
<1>13. CASE UNCHANGED vars
  BY <1>13 DEF vars
<1>14. UNCHANGED mr => CurrentKept
  OBVIOUS
<1> QED
  BY <1>1, <1>2, <1>3, <1>4, <1>5, <1>6, <1>7, <1>8, <1>9, <1>10, <1>11, <1>12,
     <1>13, <1>14
  DEF Next, CallerStep, WatchStep, CloseStep

-----------------------------------------------------------------------------
(* The invariant of the history variables.                                 *)

\* The object of calls after Close is not seeded and has no seed error.
EphemeralIsEmpty == mr[Ephemeral].seeded = FALSE /\ mr[Ephemeral].seedErr = None

\* Once Close has released the lock the map is empty, and stays empty.
MapStaysEmpty ==
    closer \in {"registry", "done"} => closed /\ \A n \in Names : resolvers[n] = None

\* A call has seen what its cache holds, or is being given, since it has it.
SeenIsVisible == \A c \in Callers : InCall(c) => Visible(call[c].obj) \subseteq seen[c]

\* What managedResolver.service decided is backed by what the call has seen: a
\* content, or emptiness.
DecidedOnSeen ==
    \A c \in Callers :
        /\ call[c].pc = "empty" => Empty \in seen[c]
        /\ call[c].pc = "current" => mr[call[c].obj].current \in seen[c]

\* A call that began after Close never gets near a resolver.
LateIsEphemeral ==
    \A c \in Callers : late[c] =>
        /\ closer \in {"registry", "done"}
        /\ call[c].pc \in {"fast", "slow", "load", "empty"}
        /\ call[c].pc \in {"load", "empty"} => call[c].obj = Ephemeral

HInv ==
    /\ IInv
    /\ EphemeralIsEmpty /\ MapStaysEmpty
    /\ SeenIsVisible /\ DecidedOnSeen
    /\ LateIsEphemeral

\* The invariant holds in every initial state.
LEMMA HInvInit == HInit => HInv
<1> SUFFICES ASSUME HInit PROVE HInv
  OBVIOUS
<1>1. IInv
  BY IInvInit DEF HInit
<1>2. EphemeralIsEmpty
  BY DEF HInit, Init, EphemeralIsEmpty, NewResolver, Objects
<1>3. \A c \in Callers : call[c].pc = "idle" /\ late[c] = FALSE
  BY DEF HInit, Init
<1> QED
  BY <1>1, <1>2, <1>3
  DEF HInit, Init, HInv, MapStaysEmpty, SeenIsVisible, DecidedOnSeen, InCall,
      LateIsEphemeral

\* Once drained, the map stays empty.
LEMMA MapStaysEmptyNext ==
  ASSUME IInv, MapStaysEmpty, [Next]_vars
  PROVE  MapStaysEmpty' /\ (closer \in {"registry", "done"}
                                => closer' \in {"registry", "done"})
<1> USE DEF MapStaysEmpty, IInv, CloseOrder
<1>1. ASSUME NEW c \in Callers, NEW n \in Names, Call(c, n)
      PROVE  UNCHANGED <<closed, closer, resolvers>>
  BY <1>1 DEF Call
<1>2. ASSUME NEW c \in Callers, CallerStep(c), ~SlowLookup(c)
      PROVE  UNCHANGED <<closed, closer, resolvers>>
  BY <1>2
  DEF CallerStep, FastLookup, OnceEnter, OnceDone, SeedResolve, SeedStoreCurrent,
      SeedStoreAuth, SeedPublish, StartWatch, WatchOpened, WatchFailed,
      LoadSeeded, LoadCurrent, ReturnEmpty
<1>3. ASSUME NEW c \in Callers, SlowLookup(c)
      PROVE  UNCHANGED <<closed, closer>> /\ (closed => UNCHANGED resolvers)
  BY <1>3 DEF SlowLookup, MustCreate
<1>4. ASSUME NEW r \in Resolvers, WatchStep(r) \/ Emit(r) \/ CloseChan(r)
      PROVE  UNCHANGED <<closed, closer, resolvers>>
  BY <1>4
  DEF WatchStep, Wake, Exit, WatchResolve, WatchStoreCurrent, WatchStoreAuth,
      WatchPublish, WatchClearAuth, WatchClearSeeded, Emit, CloseChan
<1>5. CASE CloseBegin
  BY <1>5 DEF CloseBegin
<1>6. ASSUME NEW n \in Names, CloseDrain(n)
      PROVE  closer = "drain" /\ closer' = "drain"
  BY <1>6 DEF CloseDrain
<1>7. CASE CloseUnlock
  BY <1>7 DEF CloseUnlock, Drained
<1>8. CASE CloseRegistry
  BY <1>8 DEF CloseRegistry
<1>9. CASE UNCHANGED vars
  BY <1>9 DEF vars
<1> QED
  BY <1>1, <1>2, <1>3, <1>4, <1>5, <1>6, <1>7, <1>8, <1>9 DEF Next, CloseStep

\* A call that reads has an object to read.
LEMMA ReadersObject ==
  ASSUME Typed, NEW c \in Callers, call[c].pc \in ReadPc
  PROVE  call[c].obj \in Objects /\ InCall(c)
BY ConstantsAssumption DEF Typed, CallTyped, InCall, Objects, ReadPc, None, Ephemeral

\* The same of the next state.
LEMMA ReadersObjectNext ==
  ASSUME Typed', NEW c \in Callers, call'[c].pc \in ReadPc
  PROVE  call'[c].obj \in Objects /\ InCall(c)'
BY ConstantsAssumption DEF Typed, CallTyped, InCall, Objects, ReadPc, None, Ephemeral

\* What a caller has decided on is among what it has seen.
LEMMA DecidedOnSeenNext ==
  ASSUME HInv, Next, Record, IInv', NEW c \in Callers
  PROVE  /\ call'[c].pc = "empty" => Empty \in seen'[c]
         /\ call'[c].pc = "current" => mr'[call'[c].obj].current \in seen'[c]
<1> USE DEF HInv
<1>1. CallerMove(c) /\ CurrentKept /\ Typed /\ Typed'
  BY EveryoneMoves, WritesOfStep DEF IInv
<1>2. InCall(c)' => seen'[c] = seen[c] \cup Visible(call[c].obj)'
  BY DEF Record
<1>3. call'[c].pc \in {"empty", "current"} =>
         /\ call[c].pc \in {"load", call'[c].pc} /\ call'[c].obj = call[c].obj
         /\ call[c].pc = "load" => call'[c].pc = IF mr[call[c].obj].seeded
                                                 THEN "current" ELSE "empty"
  BY <1>1 DEF CallerMove, SeedPc
<1>4. CASE call'[c].pc = "empty"
  <2>1. InCall(c)' /\ InCall(c) /\ call[c].obj \in Objects
    BY <1>1, <1>3, <1>4, ReadersObject, ReadersObjectNext DEF ReadPc
  <2>2. CASE call[c].pc = "empty"
    BY <1>2, <1>4, <2>1, <2>2 DEF DecidedOnSeen
  <2>3. CASE call[c].pc = "load"
    <3>1. ~mr[call[c].obj].seeded
      BY <1>3, <1>4, <2>3
    <3>2. Empty \in Visible(call[c].obj)
      BY <3>1 DEF Visible, Content
    <3> QED
      BY <1>2, <1>4, <2>1, <3>2 DEF SeenIsVisible
  <2> QED
    BY <1>3, <1>4, <2>2, <2>3
<1>5. CASE call'[c].pc = "current"
  <2>1. InCall(c)' /\ InCall(c) /\ call[c].obj \in Objects
    BY <1>1, <1>3, <1>5, ReadersObject, ReadersObjectNext DEF ReadPc
  <2>2. mr[call[c].obj].current \in seen[c]
    <3>1. CASE call[c].pc = "current"
      BY <3>1 DEF DecidedOnSeen
    <3>2. CASE call[c].pc = "load"
      <4>1. mr[call[c].obj].seeded
        BY <1>3, <1>5, <3>2
      <4>2. call[c].obj # Ephemeral
        BY <4>1 DEF EphemeralIsEmpty
      <4>3. mr[call[c].obj].current \in Visible(call[c].obj)
        BY <4>1, <4>2 DEF Visible, Content
      <4> QED
        BY <2>1, <4>3 DEF SeenIsVisible
    <3> QED
      BY <1>3, <1>5, <3>1, <3>2
  <2>3. PICK o \in Objects : o = call[c].obj
    BY <2>1
  <2>4. CASE mr'[o].current = mr[o].current
    BY <1>2, <1>3, <1>5, <2>1, <2>2, <2>3, <2>4
  <2>5. CASE o \in Resolvers /\ Installing(o)'
    <3>1. o # Ephemeral
      BY <2>5, ConstantsAssumption
    <3>2. Visible(o)' = {Content(o)'} \cup {mr'[o].current}
      BY <2>5, <3>1 DEF Visible
    <3>3. Visible(call[c].obj)' = Visible(o)'
      BY <1>3, <1>5, <2>3 DEF Visible, Content, Installing
    <3> QED
      BY <1>2, <1>3, <1>5, <2>1, <2>3, <3>2, <3>3
  <2>6. ~(o \in Resolvers /\ mr[o].owner = None)
    BY <2>3 DEF IInv, Fresh
  <2> QED
    BY <1>1, <2>4, <2>5, <2>6 DEF CurrentKept, Objects
<1> QED
  BY <1>4, <1>5

\* A call that began after Close holds the ephemeral resolver.
LEMMA LateIsEphemeralNext ==
  ASSUME HInv, Next, Record, NEW c \in Callers, late'[c]
  PROVE  /\ closer' \in {"registry", "done"}
         /\ call'[c].pc \in {"fast", "slow", "load", "empty"}
         /\ call'[c].pc \in {"load", "empty"} => call'[c].obj = Ephemeral
<1> USE DEF HInv
<1>1. CallerMove(c) /\ Typed
  BY EveryoneMoves DEF IInv
<1>2. closer \in {"registry", "done"} => closer' \in {"registry", "done"}
  BY MapStaysEmptyNext
<1>3. late'[c] = IF Starts(c) THEN closer \in {"registry", "done"}
                 ELSE late[c] /\ call'[c].pc # "idle"
  BY DEF Record
<1>4. CASE Starts(c)
  BY <1>1, <1>2, <1>3, <1>4 DEF Starts, CallerMove, SeedPc
<1>5. CASE ~Starts(c)
  <2>1. /\ late[c] /\ call'[c].pc # "idle"
        /\ closer \in {"registry", "done"}
        /\ call[c].pc \in {"fast", "slow", "load", "empty"}
        /\ call[c].pc \in {"load", "empty"} => call[c].obj = Ephemeral
    BY <1>3, <1>5 DEF LateIsEphemeral
  <2>2. call[c].pc = "fast" => call[c].name \in Names
    BY <1>1 DEF Typed, CallTyped
  <2>3. closed /\ \A n \in Names : resolvers[n] = None
    BY <2>1 DEF MapStaysEmpty
  <2> QED
    BY <1>1, <1>2, <2>1, <2>2, <2>3 DEF CallerMove, SeedPc, EphemeralIsEmpty
<1> QED
  BY <1>4, <1>5

\* The invariant is inductive.
LEMMA HInvNext == HInv /\ [HNext]_hvars => HInv'
<1> SUFFICES ASSUME HInv, [HNext]_hvars PROVE HInv'
  OBVIOUS
<1>1. [Next]_vars
  BY DEF HNext, hvars
<1>2. IInv' /\ MapStaysEmpty'
  BY <1>1, IInvNext, MapStaysEmptyNext DEF HInv
<1>3. EphemeralIsEmpty'
  BY <1>1, WritesOfStep DEF HInv, IInv, CurrentKept, EphemeralIsEmpty
<1>4. CASE HNext
  <2>1. SeenIsVisible'
    BY <1>4 DEF HNext, Record, SeenIsVisible
  <2>2. DecidedOnSeen'
    BY <1>2, <1>4, DecidedOnSeenNext DEF HNext, DecidedOnSeen
  <2>3. LateIsEphemeral'
    BY <1>4, LateIsEphemeralNext DEF HNext, LateIsEphemeral
  <2> QED
    BY <1>2, <1>3, <2>1, <2>2, <2>3 DEF HInv
<1>5. CASE UNCHANGED hvars
  <2>1. UNCHANGED <<closed, baseDone, closer, resolvers, mr, watch, call, seen, late>>
    BY <1>5 DEF hvars, vars
  <2>2. SeenIsVisible' /\ DecidedOnSeen' /\ LateIsEphemeral'
    BY <2>1
    DEF HInv, SeenIsVisible, DecidedOnSeen, LateIsEphemeral, InCall, Visible,
        Content, Installing
  <2> QED
    BY <1>2, <1>3, <2>2 DEF HInv
<1> QED
  BY <1>4, <1>5

\* The invariant of the reads.
LEMMA HInvAlways == HSpec => []HInv
BY HInvInit, HInvNext, PTL DEF HSpec

-----------------------------------------------------------------------------
(* What calls return.                                                      *)

\* A call ends in two ways: with the value it loads, or with what it makes of an
\* empty cache.
LEMMA ReturnsOf ==
  ASSUME Typed, [Next]_vars, NEW c \in Callers, Returns(c)
  PROVE  \/ /\ call[c].pc = "current"
            /\ call'[c].ret = mr[call[c].obj].current
         \/ /\ call[c].pc = "empty"
            /\ call'[c].ret \in {Fallback, EmptyErr(call[c].obj)}
BY EveryoneMoves DEF CallerMove, Returns, SeedPc

\* A call is never answered with a Service its cache did not hold, nor was being
\* given, during the call, and it gives up only on a cache that was empty during
\* it: managedResolver.service takes its two loads in the order that makes them
\* as good as one.
THEOREM CallsReadWhatWas == HSpec => ReadsAreRegular
<1>1. ASSUME HInv, [HNext]_hvars, NEW c \in Callers, Returns(c)
      PROVE  IF call'[c].ret \in Services THEN call'[c].ret \in seen[c]
                                          ELSE Empty \in seen[c]
  <2>1. Typed /\ [Next]_vars
    BY <1>1 DEF HInv, IInv, HNext, hvars
  <2>2. CASE call[c].pc = "current" /\ call'[c].ret = mr[call[c].obj].current
    <3>1. call[c].obj \in Objects /\ mr[call[c].obj].current # None
      BY <1>1, <2>1, <2>2, ReadersObject DEF HInv, IInv, Stored, ReadPc
    <3>2. call'[c].ret \in Services
      BY <2>1, <2>2, <3>1 DEF Typed, TypeOK, ResolverState
    <3> QED
      BY <1>1, <2>2, <3>2 DEF HInv, DecidedOnSeen
  <2>3. CASE call[c].pc = "empty" /\ call'[c].ret \in {Fallback, EmptyErr(call[c].obj)}
    <3>1. Empty \in seen[c]
      BY <1>1, <2>3 DEF HInv, DecidedOnSeen
    <3>2. mr[call[c].obj].seedErr \in Errors \cup {None}
      BY <2>1, <2>3, ReadersObject DEF ReadPc, Typed, TypeOK, ResolverState
    <3>3. call'[c].ret \notin Services
      BY <2>3, <3>2, ConstantsAssumption DEF EmptyErr, Errors
    <3> QED
      BY <3>1, <3>3
  <2> QED
    BY <1>1, <2>1, <2>2, <2>3, ReturnsOf
<1>2. HInv /\ [HNext]_hvars =>
        [\A c \in Callers : Returns(c) =>
            IF call'[c].ret \in Services THEN call'[c].ret \in seen[c]
                                         ELSE Empty \in seen[c]]_hvars
  BY <1>1
<1> QED
  BY <1>2, HInvAlways, PTL DEF HSpec, ReadsAreRegular

\* After Close a call degrades to the fallback or to ErrNoHealthyInstances: it
\* starts no seed and no watch that nobody would stop.
THEOREM CallsAfterCloseDegrade == HSpec => LateCallsDegrade
<1>1. ASSUME HInv, [HNext]_hvars, NEW c \in Callers, late[c]
      PROVE  /\ call'[c].pc \notin {"once", "seed", "startWatch", "openWatch"}
             /\ Returns(c) => call'[c].ret \in {Fallback, NoHealthy}
  <2>1. Typed /\ [Next]_vars
    BY <1>1 DEF HInv, IInv, HNext, hvars
  <2>2. /\ closed /\ \A n \in Names : resolvers[n] = None
        /\ call[c].pc \in {"fast", "slow", "load", "empty"}
        /\ call[c].pc = "empty" => call[c].obj = Ephemeral
    BY <1>1 DEF HInv, LateIsEphemeral, MapStaysEmpty
  <2>3. call[c].pc = "fast" => call[c].name \in Names
    BY <2>1 DEF Typed, CallTyped
  <2>4. call'[c].pc \notin {"once", "seed", "startWatch", "openWatch"}
    BY <2>1, <2>2, <2>3, EveryoneMoves DEF CallerMove, SeedPc
  <2>5. EmptyErr(Ephemeral) = NoHealthy
    BY <1>1 DEF HInv, EphemeralIsEmpty, EmptyErr
  <2>6. Returns(c) => call'[c].ret \in {Fallback, NoHealthy}
    BY <2>1, <2>2, <2>5, ReturnsOf
  <2> QED
    BY <2>4, <2>6
<1>2. HInv /\ [HNext]_hvars =>
        [\A c \in Callers : late[c] =>
            /\ call'[c].pc \notin {"once", "seed", "startWatch", "openWatch"}
            /\ Returns(c) => call'[c].ret \in {Fallback, NoHealthy}]_hvars
  BY <1>1
<1> QED
  BY <1>2, HInvAlways, PTL DEF HSpec, LateCallsDegrade

-----------------------------------------------------------------------------
(* The cache implements LastKnownGood.                                     *)

Learned(r) == SeedLearned(r) \cup WatchLearned(r)

Untouched(r) == Content(r)' = Content(r) /\ Learned(r)' = Learned(r)

\* A step that touches one cache at most is a step of LastKnownGood if it leaves
\* what is learned alone, learns what the registry answers, or installs it.
CacheStep(r) ==
    \/ Untouched(r)
    \/ /\ Content(r)' = Content(r)
       /\ Learned(r) = {}
       /\ \E v \in Services \cup {Empty} : Learned(r)' = {v} /\ Answered(r, v)
    \/ /\ Content(r)' \in Learned(r)
       /\ Learned(r)' = {}

\* One cache that moves so, the others untouched, is a step of the abstract cache.
LEMMA CacheStepIsLKG ==
  ASSUME NEW r \in Resolvers, CacheStep(r),
         \A q \in Resolvers \ {r} : Untouched(q)
  PROVE  [LKG!Next]_(LKG!vars)
<1> DEFINE C == [q \in Resolvers |-> Content(q)]
           L == [q \in Resolvers |-> SeedLearned(q) \cup WatchLearned(q)]
<1>1. CASE Untouched(r)
  <2>1. \A q \in Resolvers : Untouched(q)
    BY <1>1
  <2>2. C' = C /\ L' = L
    BY <2>1 DEF Untouched, Learned
  <2> QED
    BY <2>2 DEF LKG!vars
<1>2. ASSUME Content(r)' = Content(r), Learned(r) = {},
             NEW v \in Services \cup {Empty}, Learned(r)' = {v}
      PROVE  LKG!Next
  <2>1. C' = C
    BY <1>2 DEF Untouched
  <2>2. L[r] = {} /\ L' = [L EXCEPT ![r] = {v}]
    BY <1>2 DEF Untouched, Learned
  <2>3. LKG!Learn(r, v)
    BY <2>1, <2>2 DEF LKG!Learn
  <2> QED
    BY <2>3 DEF LKG!Next, LKG!Contents
<1>3. CASE Content(r)' \in Learned(r) /\ Learned(r)' = {}
  <2>1. PICK v \in L[r] : Content(r)' = v
    BY <1>3 DEF Learned
  <2>2. C' = [C EXCEPT ![r] = v] /\ L' = [L EXCEPT ![r] = {}]
    BY <1>3, <2>1 DEF Untouched, Learned
  <2>3. LKG!Install(r)
    BY <2>1, <2>2 DEF LKG!Install
  <2> QED
    BY <2>3 DEF LKG!Next
<1> QED
  BY <1>1, <1>2, <1>3 DEF CacheStep

StorePc == {"seedCurrent", "seedAuth", "seedPublish"}
BusyPc  == {"storeCurrent", "storeAuth", "storePublish", "clearAuth", "clearSeeded"}

\* A goroutine that stores or clears does so with what the registry answered,
\* and nobody overwrites its value on the way.
AnswerHeld ==
    /\ \A c \in Callers :
          /\ call[c].pc \in StorePc => call[c].answer \in Services
          /\ call[c].pc \in {"seedAuth", "seedPublish"}
                => mr[call[c].obj].current = call[c].answer
    /\ \A r \in Resolvers :
          /\ watch[r].pc \in {"storeCurrent", "storeAuth", "storePublish"}
                => watch[r].answer \in Services
          /\ watch[r].pc \in {"storeAuth", "storePublish"}
                => mr[r].current = watch[r].answer
          /\ watch[r].pc \in {"clearAuth", "clearSeeded"}
                => watch[r].answer = NoHealthy

\* An object that is not made into a resolver yet holds nothing.
UnmadeIsEmpty == \A r \in Resolvers : mr[r].owner = None => ~mr[r].seeded

CInv == IInv /\ AnswerHeld /\ UnmadeIsEmpty

\* What a watch has learned is decided by its answer.
LEMMA WatchLearnedIs ==
  ASSUME AnswerHeld, NEW r \in Resolvers
  PROVE  WatchLearned(r) =
            IF Storing(r, watch[r].pc, "storeCurrent", {"storeAuth", "storePublish"})
            THEN {watch[r].answer}
            ELSE IF watch[r].pc \in {"clearAuth", "clearSeeded"} THEN {Empty} ELSE {}
BY ConstantsAssumption DEF WatchLearned, AnswerHeld, Storing

\* The same of the next state.
LEMMA WatchLearnedNext ==
  ASSUME AnswerHeld', NEW r \in Resolvers
  PROVE  WatchLearned(r)' =
            IF Storing(r, watch[r].pc, "storeCurrent", {"storeAuth", "storePublish"})'
            THEN {watch'[r].answer}
            ELSE IF watch'[r].pc \in {"clearAuth", "clearSeeded"} THEN {Empty} ELSE {}
BY ConstantsAssumption DEF WatchLearned, AnswerHeld, Storing

\* While a caller seeds a resolver, what is learned is what it has, and the watch
\* has learned nothing.
LEMMA SeederLearned ==
  ASSUME CInv, NEW r \in Resolvers, NEW c \in Callers, Seeding(c, r)
  PROVE  Learned(r) =
            IF Storing(r, call[c].pc, "seedCurrent", {"seedAuth", "seedPublish"})
            THEN {call[c].answer} ELSE {}
<1>1. watch[r].pc = "none"
  BY DEF CInv, IInv, OnceOrder
<1>2. WatchLearned(r) = {}
  BY <1>1, WatchLearnedIs DEF CInv, Storing
<1>3. \A d \in Callers : call[d].obj = r /\ call[d].pc \in StorePc => d = c
  BY DEF CInv, IInv, OnceOrder, Seeding, StorePc
<1>4. SeedLearned(r) =
         IF Storing(r, call[c].pc, "seedCurrent", {"seedAuth", "seedPublish"})
         THEN {call[c].answer} ELSE {}
  BY <1>3 DEF SeedLearned, Storing, Seeding, StorePc
<1> QED
  BY <1>2, <1>4 DEF Learned

\* While a caller seeds, what is learned is its own answer.
LEMMA SeederLearnedNext ==
  ASSUME CInv', NEW r \in Resolvers, NEW c \in Callers, Seeding(c, r)'
  PROVE  Learned(r)' =
            IF Storing(r, call[c].pc, "seedCurrent", {"seedAuth", "seedPublish"})'
            THEN {call'[c].answer} ELSE {}
<1>1. watch'[r].pc = "none"
  BY DEF CInv, IInv, OnceOrder
<1>2. WatchLearned(r)' = {}
  BY <1>1, WatchLearnedNext DEF CInv, Storing
<1>3. \A d \in Callers : call'[d].obj = r /\ call'[d].pc \in StorePc => d = c
  BY DEF CInv, IInv, OnceOrder, Seeding, StorePc
<1>4. SeedLearned(r)' =
         IF Storing(r, call[c].pc, "seedCurrent", {"seedAuth", "seedPublish"})'
         THEN {call'[c].answer} ELSE {}
  BY <1>3 DEF SeedLearned, Storing, Seeding, StorePc
<1> QED
  BY <1>2, <1>4 DEF Learned

\* Once the watch runs, what is learned is what the watch has.
LEMMA WatcherLearned ==
  ASSUME CInv, NEW r \in Resolvers, watch[r].pc # "none"
  PROVE  SeedLearned(r) = {} /\ Learned(r) = WatchLearned(r)
<1>1. \A c \in Callers : ~Seeding(c, r)
  BY DEF CInv, IInv, OnceOrder
<1>2. SeedLearned(r) = {}
  BY <1>1 DEF SeedLearned, Storing, Seeding
<1> QED
  BY <1>2 DEF Learned

\* Once there is a watch, what is learned is what the watch has.
LEMMA WatcherLearnedNext ==
  ASSUME CInv', NEW r \in Resolvers, watch'[r].pc # "none"
  PROVE  SeedLearned(r)' = {} /\ Learned(r)' = WatchLearned(r)'
<1>1. \A c \in Callers : ~Seeding(c, r)'
  BY DEF CInv, IInv, OnceOrder
<1>2. SeedLearned(r)' = {}
  BY <1>1 DEF SeedLearned, Storing, Seeding
<1> QED
  BY <1>2 DEF Learned

-----------------------------------------------------------------------------
(* Caches that a step leaves alone.                                        *)

\* A step of caller c leaves alone every resolver that it does not write and that
\* c is not storing to, before or after.
LEMMA CallerLeaves ==
  ASSUME NEW c \in Callers, NEW r \in Resolvers,
         \A d \in Callers \ {c} : call'[d] = call[d],
         call[c].obj = r => call[c].pc \notin StorePc,
         call'[c].obj = r => call'[c].pc \notin StorePc,
         watch'[r].pc = watch[r].pc \/ {watch[r].pc, watch'[r].pc} \cap BusyPc = {},
         watch'[r].answer = watch[r].answer,
         mr'[r].seeded = mr[r].seeded,
         mr[r].seeded => mr'[r].current = mr[r].current
  PROVE  Untouched(r)
<1>1. Content(r)' = Content(r)
  BY DEF Content
<1>2. WatchLearned(r)' = WatchLearned(r)
  BY DEF WatchLearned, Storing, BusyPc
<1>3. {d \in Callers : /\ call[d].obj = r
                       /\ Storing(r, call[d].pc, "seedCurrent", {"seedAuth", "seedPublish"})}'
      = {d \in Callers \ {c} : /\ call[d].obj = r
                       /\ Storing(r, call[d].pc, "seedCurrent", {"seedAuth", "seedPublish"})}
  BY DEF Storing, StorePc
<1>4. {d \in Callers : /\ call[d].obj = r
                       /\ Storing(r, call[d].pc, "seedCurrent", {"seedAuth", "seedPublish"})}
      = {d \in Callers \ {c} : /\ call[d].obj = r
                       /\ Storing(r, call[d].pc, "seedCurrent", {"seedAuth", "seedPublish"})}
  BY DEF Storing, StorePc
<1>5. SeedLearned(r)' = SeedLearned(r)
  BY <1>3, <1>4 DEF SeedLearned
<1> QED
  BY <1>1, <1>2, <1>5 DEF Untouched, Learned

\* A step that is none of a caller leaves alone every resolver whose watch and
\* content it does not touch.
LEMMA OthersLeave ==
  ASSUME NEW r \in Resolvers, UNCHANGED call,
         \/ watch'[r].pc = watch[r].pc /\ watch'[r].answer = watch[r].answer
         \/ {watch[r].pc, watch'[r].pc} \cap BusyPc = {},
         mr'[r].seeded = mr[r].seeded, mr'[r].current = mr[r].current
  PROVE  Untouched(r)
<1>1. Content(r)' = Content(r)
  BY DEF Content
<1>2. WatchLearned(r)' = WatchLearned(r)
  BY DEF WatchLearned, Storing, BusyPc
<1>3. SeedLearned(r)' = SeedLearned(r)
  BY DEF SeedLearned, Storing
<1> QED
  BY <1>1, <1>2, <1>3 DEF Untouched, Learned

-----------------------------------------------------------------------------
(* The invariant of the refinement.                                        *)

\* The invariant holds in every initial state.
LEMMA CInvInit == Init => CInv
<1> SUFFICES ASSUME Init PROVE CInv
  OBVIOUS
<1>1. AnswerHeld
  BY DEF Init, AnswerHeld, StorePc
<1>2. UnmadeIsEmpty
  BY DEF Init, UnmadeIsEmpty, NewResolver, Objects
<1> QED
  BY <1>1, <1>2, IInvInit DEF CInv

\* What the invariant says of the answers a step does not touch.
LEMMA AnswersKept ==
  ASSUME AnswerHeld,
         \A c \in Callers : call'[c].pc \in StorePc =>
            /\ call[c].pc \in StorePc
            /\ call'[c].answer = call[c].answer
            /\ call'[c].pc \in {"seedAuth", "seedPublish"} =>
                  /\ call'[c].obj = call[c].obj
                  /\ call[c].pc \in {"seedAuth", "seedPublish"}
                  /\ mr'[call[c].obj].current = mr[call[c].obj].current,
         \A r \in Resolvers : watch'[r].pc \in BusyPc =>
            /\ watch'[r].pc = watch[r].pc
            /\ watch'[r].answer = watch[r].answer
            /\ watch'[r].pc \in {"storeAuth", "storePublish"} =>
                  mr'[r].current = mr[r].current
  PROVE  AnswerHeld'
BY DEF AnswerHeld, StorePc, BusyPc

\* A write of mr that keeps every value and raises no flag of an object that is
\* not a resolver yet.
ValuesKept ==
    \A o \in Objects : /\ mr'[o].current = mr[o].current
                       /\ mr'[o].owner = mr[o].owner
                       /\ mr'[o].owner = None => mr'[o].seeded = mr[o].seeded

\* A step of a caller keeps the answers held,
LEMMA CallerKeepsAnswers ==
  ASSUME CInv, NEW c \in Callers, CallerStep(c)
  PROVE  AnswerHeld' /\ UnmadeIsEmpty'
<1> USE ConstantsAssumption DEF CInv, IInv
<1>0. Typed
  OBVIOUS
<1>1. \A d \in Callers \ {c} : call'[d] = call[d]
  BY <1>0, MoveOfStep
<1>2. ASSUME call'[c].pc \notin StorePc, ValuesKept,
             \A r \in Resolvers : watch'[r].pc \in BusyPc => watch'[r] = watch[r]
      PROVE  AnswerHeld' /\ UnmadeIsEmpty'
  <2>1. \A d \in Callers : call[d].pc \in StorePc => call[d].obj \in Objects
    BY <1>0 DEF StorePc, Typed, CallTyped, SeedPc, Objects
  <2>2. AnswerHeld'
    BY <1>1, <1>2, <2>1, AnswersKept DEF ValuesKept, Objects, BusyPc, StorePc
  <2>3. UnmadeIsEmpty'
    BY <1>2 DEF UnmadeIsEmpty, ValuesKept, Objects
  <2> QED
    BY <2>2, <2>3
<1> USE DEF Typed, TypeOK, CallTyped, CallState, ResolverState, WatchState, SeedPc,
            Objects, Goto
<1>3. CASE FastLookup(c) \/ OnceDone(c) \/ LoadSeeded(c) \/ LoadCurrent(c)
           \/ ReturnEmpty(c)
  <2>1. UNCHANGED <<mr, watch>>
    BY <1>3 DEF FastLookup, OnceDone, LoadSeeded, LoadCurrent, ReturnEmpty
  <2>2. call'[c].pc \notin StorePc
    BY <1>3
    DEF FastLookup, OnceDone, LoadSeeded, LoadCurrent, ReturnEmpty, Found, StorePc
  <2> QED
    BY <1>2, <2>1, <2>2 DEF ValuesKept
<1>4. CASE SlowLookup(c)
  <2>1. call'[c].pc \notin StorePc /\ watch' = watch
    <3>1. /\ watch' = watch
          /\ \E pc \in {"load", "once"}, o \in Objects :
                call' = [call EXCEPT ![c].obj = o, ![c].pc = pc]
      BY <1>4 DEF SlowLookup
    <3> QED
      BY <3>1 DEF StorePc
  <2>2. CASE UNCHANGED mr
    BY <1>2, <2>1, <2>2 DEF ValuesKept
  <2>3. ASSUME NEW n \in Names, NEW r \in Resolvers, mr[r].owner = None,
               mr' = [mr EXCEPT ![r] = NewResolver(n)]
        PROVE  AnswerHeld' /\ UnmadeIsEmpty'
    <3>1. /\ mr[r].once = "new" /\ watch[r].pc = "none"
          /\ \A d \in Callers : call[d].obj # r
      BY <2>3 DEF Fresh, OnceOrder
    <3>2. AnswerHeld'
      BY <1>1, <2>1, <2>3, <3>1, AnswersKept DEF StorePc, BusyPc
    <3>3. UnmadeIsEmpty'
      BY <2>3 DEF UnmadeIsEmpty, NewResolver
    <3> QED
      BY <3>2, <3>3
  <2>4. call[c].name \in Names
    BY <1>4 DEF SlowLookup
  <2> QED
    BY <1>4, <2>2, <2>3, <2>4 DEF SlowLookup
<1>5. CASE OnceEnter(c)
  BY <1>2, <1>5 DEF OnceEnter, ValuesKept, StorePc
<1>6. CASE StartWatch(c)
  BY <1>2, <1>6 DEF StartWatch, ValuesKept, StorePc
<1>7. CASE WatchOpened(c)
  <2>1. EndsOnce(c, call[c].obj)
    BY <1>7, OnceOver DEF WatchOpened
  <2>2. \A r \in Resolvers : watch'[r].pc \in BusyPc => watch'[r] = watch[r]
    BY <2>1 DEF EndsOnce, BusyPc
  <2>3. ValuesKept
    BY <2>1 DEF EndsOnce, ValuesKept
  <2>4. call'[c].pc = "load"
    BY <2>1 DEF EndsOnce, Moves
  <2>5. call'[c].pc \notin StorePc
    BY <2>4 DEF StorePc
  <2> HIDE DEF Typed, TypeOK, CallTyped, CallState, ResolverState, WatchState
  <2> QED
    BY <1>2, <2>2, <2>3, <2>5
<1>8. CASE WatchFailed(c)
  BY <1>2, <1>8 DEF WatchFailed, ValuesKept, StorePc
<1>9. ASSUME NEW a \in Answers, SeedResolve(c, a)
      PROVE  AnswerHeld' /\ UnmadeIsEmpty'
  <2>1. CASE a \in Errors
    <3>1. call'[c].pc = "startWatch"
      BY <1>9, <2>1 DEF SeedResolve, Errors
    <3>2. UNCHANGED mr \/ mr' = [mr EXCEPT ![call[c].obj].seedErr = a]
      BY <1>9, Zenon DEF SeedResolve
    <3>3. ValuesKept
      BY <3>2 DEF ValuesKept
    <3>4. watch' = watch
      BY <1>9 DEF SeedResolve
    <3> QED
      BY <1>2, <3>1, <3>3, <3>4 DEF StorePc
  <2>2. CASE a \in Services
    <3>1. /\ call'[c].pc = "seedCurrent" /\ call'[c].answer = a
          /\ UNCHANGED <<mr, watch>>
      BY <1>9, <2>2 DEF SeedResolve, Errors
    <3> QED
      BY <1>1, <2>2, <3>1 DEF AnswerHeld, UnmadeIsEmpty, StorePc
  <2> QED
    BY <1>9, <2>1, <2>2 DEF SeedResolve
<1>10. CASE SeedStoreCurrent(c)
  <2>1. PICK r \in Resolvers : r = call[c].obj
    BY <1>10 DEF SeedStoreCurrent
  <2>2. Seeding(c, r)
    BY <1>10, <2>1 DEF SeedStoreCurrent, Seeding
  <2>3. /\ watch[r].pc = "none" /\ mr[r].owner # None
        /\ \A d \in Callers \ {c} : call[d].pc \in StorePc => call[d].obj # r
    BY <2>1, <2>2 DEF OnceOrder, Fresh, Seeding, StorePc
  <2>4. /\ call'[c].pc = "seedAuth" /\ call'[c].obj = r
        /\ call'[c].answer = call[c].answer /\ call[c].answer \in Services
        /\ mr'[r].current = call[c].answer /\ watch' = watch
        /\ mr'[r].owner = mr[r].owner
        /\ \A o \in Objects \ {r} : mr'[o] = mr[o]
    BY <1>10, <2>1 DEF SeedStoreCurrent, StoreCurrent
  <2>5. AnswerHeld'
    <3>1. \A d \in Callers \ {c} : call'[d].pc \in StorePc =>
             /\ call'[d].answer \in Services
             /\ call'[d].pc \in {"seedAuth", "seedPublish"}
                   => mr'[call'[d].obj].current = call'[d].answer
      BY <1>1, <2>3, <2>4 DEF AnswerHeld, StorePc
    <3>2. \A q \in Resolvers \ {r} : mr'[q] = mr[q] /\ watch'[q] = watch[q]
      BY <2>4
    <3>3. watch'[r].pc = "none"
      BY <2>3, <2>4
    <3> QED
      BY <2>4, <3>1, <3>2, <3>3 DEF AnswerHeld, StorePc
  <2>6. UnmadeIsEmpty'
    BY <2>3, <2>4 DEF UnmadeIsEmpty
  <2> QED
    BY <2>5, <2>6
<1>11. CASE SeedStoreAuth(c)
  <2>1. /\ call[c].pc = "seedAuth" /\ call'[c].pc = "seedPublish"
        /\ call'[c].obj = call[c].obj
        /\ call'[c].answer = call[c].answer /\ watch' = watch
    BY <1>11 DEF SeedStoreAuth
  <2>2. \A o \in Objects : /\ mr'[o].current = mr[o].current
                           /\ mr'[o].owner = mr[o].owner
                           /\ mr'[o].seeded = mr[o].seeded
    BY <1>11 DEF SeedStoreAuth, StoreAuth
  <2>3. AnswerHeld'
    <3>1. \A d \in Callers : call[d].pc \in StorePc => call[d].obj \in Objects
      BY DEF StorePc
    <3>2. /\ call'[c].answer \in Services
          /\ mr'[call'[c].obj].current = call'[c].answer
      BY <2>1, <2>2, <3>1 DEF AnswerHeld, StorePc
    <3> HIDE DEF Typed, CallState, ResolverState, WatchState
    <3>3. \A d \in Callers \ {c} :
             /\ call'[d].pc \in StorePc => call'[d].answer \in Services
             /\ call'[d].pc \in {"seedAuth", "seedPublish"}
                   => mr'[call'[d].obj].current = call'[d].answer
      BY <1>1, <2>2, <3>1 DEF AnswerHeld, StorePc
    <3> QED
      BY <2>1, <2>2, <3>2, <3>3 DEF AnswerHeld, StorePc
  <2> QED
    BY <2>2, <2>3 DEF UnmadeIsEmpty
<1>12. CASE SeedPublish(c)
  <2>1. call'[c].pc = "startWatch" /\ watch' = watch
    BY <1>12 DEF SeedPublish
  <2>2. mr[call[c].obj].owner # None
    BY <1>12 DEF SeedPublish, Fresh
  <2>3. ValuesKept
    <3>1. PICK r \in Resolvers : r = call[c].obj
      BY <1>12 DEF SeedPublish
    <3>2. mr' = [mr EXCEPT ![r].seeded = TRUE]
      BY <1>12, <3>1 DEF SeedPublish, StorePublish
    <3>3. \A o \in Objects \ {r} : mr'[o] = mr[o]
      BY <3>2
    <3>4. mr'[r].current = mr[r].current /\ mr'[r].owner = mr[r].owner
      BY <3>1, <3>2
    <3> QED
      BY <2>2, <3>1, <3>3, <3>4 DEF ValuesKept
  <2> QED
    BY <1>2, <2>1, <2>3 DEF StorePc
<1> QED
  BY <1>3, <1>4, <1>5, <1>6, <1>7, <1>8, <1>9, <1>10, <1>11, <1>12 DEF CallerStep

\* and so does one of a watch or of its channel.
LEMMA WatchKeepsAnswers ==
  ASSUME CInv, NEW r \in Resolvers, WatchStep(r) \/ Emit(r) \/ CloseChan(r)
  PROVE  AnswerHeld' /\ UnmadeIsEmpty'
<1> USE ConstantsAssumption DEF CInv, IInv
<1> USE DEF Typed, TypeOK, WatchTyped, ResolverState, WatchState, Objects
<1>0. UNCHANGED call
  BY DEF WatchStep, Wake, Exit, WatchResolve, WatchStoreCurrent, WatchStoreAuth,
     WatchPublish, WatchClearAuth, WatchClearSeeded, Emit, CloseChan
<1>1. watch[r].pc # "none" =>
         mr[r].owner # None /\ \A c \in Callers : call[c].pc \in StorePc => call[c].obj # r
  BY DEF Fresh, OnceOrder, Seeding, StorePc
<1>2. CASE Wake(r) \/ Exit(r) \/ Emit(r) \/ CloseChan(r)
  <2>1. UNCHANGED mr
    BY <1>2 DEF Wake, Exit, Emit, CloseChan
  <2>2. \A q \in Resolvers : watch'[q].pc \in BusyPc =>
           watch'[q].pc = watch[q].pc /\ watch'[q].answer = watch[q].answer
    BY <1>2 DEF Wake, Exit, Emit, CloseChan, BusyPc
  <2> QED
    BY <1>0, <2>1, <2>2, AnswersKept DEF UnmadeIsEmpty, StorePc
<1>3. ASSUME NEW a \in Answers, WatchResolve(r, a)
      PROVE  AnswerHeld' /\ UnmadeIsEmpty'
  <2>1. /\ UNCHANGED mr
        /\ watch'[r].answer = a /\ watch'[r].pc = AfterAnswer(a)
        /\ \A q \in Resolvers \ {r} : watch'[q] = watch[q]
    BY <1>3 DEF WatchResolve
  <2>2. \/ a = NoHealthy /\ AfterAnswer(a) = "clearAuth"
        \/ a = Transient /\ AfterAnswer(a) = "select"
        \/ a \in Services /\ AfterAnswer(a) = "storeCurrent"
    BY DEF AfterAnswer, Answers, Errors, NoHealthy, Transient
  <2> QED
    BY <1>0, <2>1, <2>2 DEF AnswerHeld, UnmadeIsEmpty, StorePc
<1>4. CASE WatchStoreCurrent(r)
  <2>1. /\ watch[r].pc = "storeCurrent" /\ watch'[r].pc = "storeAuth"
        /\ watch'[r].answer = watch[r].answer
        /\ mr'[r].current = watch[r].answer /\ mr'[r].owner = mr[r].owner
        /\ \A q \in Resolvers \ {r} : watch'[q] = watch[q]
        /\ \A o \in Objects \ {r} : mr'[o] = mr[o]
    BY <1>4 DEF WatchStoreCurrent, StoreCurrent
  <2>2. \A c \in Callers : call[c].pc \in StorePc => call[c].obj \in Objects \ {r}
    BY <1>1, <2>1 DEF StorePc, CallTyped, SeedPc
  <2>3. AnswerHeld'
    BY <1>0, <2>1, <2>2 DEF AnswerHeld, StorePc
  <2>4. UnmadeIsEmpty'
    BY <1>1, <2>1 DEF UnmadeIsEmpty
  <2> QED
    BY <2>3, <2>4
<1>5. CASE \/ WatchStoreAuth(r) \/ WatchPublish(r)
           \/ WatchClearAuth(r) \/ WatchClearSeeded(r)
  <2>1. \/ mr' = [mr EXCEPT ![r].authEmpty = FALSE]
        \/ mr' = [mr EXCEPT ![r].seeded = TRUE]
        \/ mr' = [mr EXCEPT ![r].authEmpty = TRUE]
        \/ mr' = [mr EXCEPT ![r].seeded = FALSE]
    BY <1>5 DEF WatchStoreAuth, StoreAuth, WatchPublish, StorePublish,
       WatchClearAuth, ClearAuth, WatchClearSeeded, ClearSeeded
  <2>2. \A o \in Objects : mr'[o].current = mr[o].current /\ mr'[o].owner = mr[o].owner
    BY <2>1
  <2>3. \A o \in Objects \ {r} : mr'[o] = mr[o]
    BY <2>1
  <2>4. /\ watch[r].pc # "none"
        /\ \/ watch[r].pc = "storeAuth" /\ watch'[r].pc = "storePublish"
              /\ watch'[r].answer = watch[r].answer
           \/ watch[r].pc = "clearAuth" /\ watch'[r].pc = "clearSeeded"
              /\ watch'[r].answer = watch[r].answer
           \/ watch'[r].pc = "select"
        /\ \A q \in Resolvers \ {r} : watch'[q] = watch[q]
    BY <1>5 DEF WatchStoreAuth, WatchPublish, WatchClearAuth, WatchClearSeeded
  <2>5. \A c \in Callers : call[c].pc \in StorePc => call[c].obj \in Objects
    BY DEF StorePc, CallTyped, SeedPc
  <2>6. AnswerHeld'
    <3>1. \A c \in Callers :
             /\ call'[c].pc \in StorePc => call'[c].answer \in Services
             /\ call'[c].pc \in {"seedAuth", "seedPublish"}
                   => mr'[call'[c].obj].current = call'[c].answer
      <4> HIDE DEF Typed, ResolverState, WatchState
      <4> QED
        BY <1>0, <2>2, <2>5 DEF AnswerHeld, StorePc
    <3>2. \A q \in Resolvers \ {r} : watch'[q] = watch[q] /\ mr'[q] = mr[q]
      BY <2>3, <2>4
    <3>3. mr'[r].current = mr[r].current
      BY <2>2
    <3>4. /\ watch'[r].pc \in {"storeCurrent", "storeAuth", "storePublish"}
                => watch'[r].answer \in Services
          /\ watch'[r].pc \in {"storeAuth", "storePublish"}
                => mr'[r].current = watch'[r].answer
          /\ watch'[r].pc \in {"clearAuth", "clearSeeded"}
                => watch'[r].answer = NoHealthy
      <4> HIDE DEF Typed, ResolverState, WatchState
      <4> QED
        BY <2>4, <3>3, Zenon DEF AnswerHeld
    <3> QED
      BY <3>1, <3>2, <3>4 DEF AnswerHeld
  <2>7. UnmadeIsEmpty'
    BY <1>1, <2>2, <2>3, <2>4 DEF UnmadeIsEmpty
  <2> QED
    BY <2>6, <2>7
<1> QED
  BY <1>2, <1>3, <1>4, <1>5 DEF WatchStep

\* Call and Close write no value.
LEMMA RestKeepsAnswers ==
  ASSUME CInv,
         \/ \E c \in Callers, n \in Names : Call(c, n)
         \/ CloseBegin \/ CloseStep \/ UNCHANGED vars
  PROVE  AnswerHeld' /\ UnmadeIsEmpty'
<1> USE DEF CInv, IInv
<1> USE DEF Typed, TypeOK, ResolverState, Objects
<1>1. ASSUME NEW c \in Callers, NEW n \in Names, Call(c, n)
      PROVE  AnswerHeld' /\ UnmadeIsEmpty'
  <2>1. /\ UNCHANGED <<mr, watch>> /\ call'[c].pc = "fast"
        /\ \A d \in Callers \ {c} : call'[d] = call[d]
    BY <1>1 DEF Call
  <2> QED
    BY <2>1 DEF AnswerHeld, UnmadeIsEmpty, StorePc
<1>2. ASSUME NEW n \in Names, CloseDrain(n)
      PROVE  AnswerHeld' /\ UnmadeIsEmpty'
  <2>1. UNCHANGED <<watch, call>>
    BY <1>2 DEF CloseDrain
  <2>2. \A o \in Objects : /\ mr'[o].current = mr[o].current
                           /\ mr'[o].owner = mr[o].owner
                           /\ mr'[o].seeded = mr[o].seeded
    BY <1>2 DEF CloseDrain
  <2>3. \A c \in Callers : call[c].pc \in StorePc => call[c].obj \in Objects
    BY DEF StorePc, CallTyped, SeedPc
  <2> QED
    BY <2>1, <2>2, <2>3 DEF AnswerHeld, UnmadeIsEmpty, StorePc
<1>3. CASE CloseBegin \/ CloseUnlock \/ CloseRegistry \/ UNCHANGED vars
  <2>1. UNCHANGED <<mr, watch, call>>
    BY <1>3 DEF CloseBegin, CloseUnlock, CloseRegistry, vars
  <2> QED
    BY <2>1 DEF AnswerHeld, UnmadeIsEmpty
<1> QED
  BY <1>1, <1>2, <1>3 DEF CloseStep

\* The invariant is inductive.
LEMMA CInvNext == CInv /\ [Next]_vars => CInv'
<1> SUFFICES ASSUME CInv, [Next]_vars PROVE CInv'
  OBVIOUS
<1>1. IInv'
  BY IInvNext DEF CInv
<1>2. AnswerHeld' /\ UnmadeIsEmpty'
  BY CallerKeepsAnswers, WatchKeepsAnswers, RestKeepsAnswers DEF Next
<1> QED
  BY <1>1, <1>2 DEF CInv

-----------------------------------------------------------------------------
(* Every step moves one cache at most, as LastKnownGood allows.            *)

OneCacheMoves ==
    \/ \A q \in Resolvers : Untouched(q)
    \/ \E r \in Resolvers : CacheStep(r) /\ \A q \in Resolvers \ {r} : Untouched(q)

\* A step that moves one cache at most is a step of the abstract specification.
LEMMA OneCacheMovesIsLKG == OneCacheMoves => [LKG!Next]_(LKG!vars)
<1>1. ASSUME \A q \in Resolvers : Untouched(q) PROVE UNCHANGED LKG!vars
  <2>1. [q \in Resolvers |-> Content(q)]' = [q \in Resolvers |-> Content(q)]
    BY <1>1 DEF Untouched
  <2>2. [q \in Resolvers |-> SeedLearned(q) \cup WatchLearned(q)]'
           = [q \in Resolvers |-> SeedLearned(q) \cup WatchLearned(q)]
    BY <1>1 DEF Untouched, Learned
  <2> QED
    BY <2>1, <2>2 DEF LKG!vars
<1> QED
  BY <1>1, CacheStepIsLKG DEF OneCacheMoves

\* A caller that looks a resolver up, waits for it, starts its watch or reads it.
LEMMA QuietCaller ==
  ASSUME CInv, NEW c \in Callers,
         \/ \E n \in Names : Call(c, n)
         \/ FastLookup(c) \/ SlowLookup(c) \/ OnceEnter(c) \/ OnceDone(c)
         \/ \E a \in Errors : SeedResolve(c, a)
         \/ StartWatch(c) \/ WatchOpened(c) \/ WatchFailed(c)
         \/ LoadSeeded(c) \/ LoadCurrent(c) \/ ReturnEmpty(c)
  PROVE  \A r \in Resolvers : Untouched(r)
<1> USE ConstantsAssumption
    DEF CInv, IInv, Typed, TypeOK, CallTyped, Objects, ResolverState, WatchState,
        CallState, SeedPc, Goto
<1>1. /\ call[c].pc \notin StorePc /\ call'[c].pc \notin StorePc
      /\ \A d \in Callers \ {c} : call'[d] = call[d]
  <2>1. CASE \E n \in Names : Call(c, n)
    BY <2>1 DEF Call, StorePc
  <2>2. CASE FastLookup(c)
    BY <2>2 DEF FastLookup, Found, StorePc
  <2>3. CASE SlowLookup(c)
    <3>1. /\ call[c].pc = "slow"
          /\ \E pc \in {"load", "once"}, o \in Objects :
                call' = [call EXCEPT ![c].obj = o, ![c].pc = pc]
      BY <2>3 DEF SlowLookup
    <3> QED
      BY <3>1 DEF StorePc
  <2>4. CASE OnceEnter(c) \/ OnceDone(c)
    BY <2>4 DEF OnceEnter, OnceDone, StorePc
  <2>5. CASE \E a \in Errors : SeedResolve(c, a)
    BY <2>5 DEF SeedResolve, StorePc, Errors
  <2>6. CASE StartWatch(c) \/ WatchOpened(c) \/ WatchFailed(c)
    <3>1. /\ call[c].pc \in {"startWatch", "openWatch"}
          /\ \E pc \in {"openWatch", "load"} : Goto(c, pc)
      BY <2>6, Zenon DEF StartWatch, WatchOpened, WatchFailed
    <3> QED
      BY <3>1 DEF StorePc
  <2>7. CASE LoadSeeded(c) \/ LoadCurrent(c) \/ ReturnEmpty(c)
    BY <2>7 DEF LoadSeeded, LoadCurrent, ReturnEmpty, StorePc
  <2> QED
    BY <2>1, <2>2, <2>3, <2>4, <2>5, <2>6, <2>7
<1>2. \A r \in Resolvers :
         /\ watch'[r].pc = watch[r].pc \/ {watch[r].pc, watch'[r].pc} \cap BusyPc = {}
         /\ watch'[r].answer = watch[r].answer
  <2>1. CASE WatchOpened(c)
    <3>1. PICK o \in Resolvers : o = call[c].obj
      BY <2>1 DEF WatchOpened
    <3>2. watch[o].pc = "none"
      BY <2>1, <3>1 DEF WatchOpened, OnceOrder, Seeding
    <3>3. /\ watch'[o].pc = "select" /\ watch'[o].answer = watch[o].answer
          /\ \A r \in Resolvers \ {o} : watch'[r] = watch[r]
      BY <2>1, <3>1 DEF WatchOpened
    <3> QED
      BY <3>2, <3>3 DEF BusyPc
  <2>2. CASE ~WatchOpened(c)
    <3>1. UNCHANGED watch
      BY <2>2 DEF Call, FastLookup, SlowLookup, OnceEnter, OnceDone, SeedResolve,
         StartWatch, WatchFailed, LoadSeeded, LoadCurrent, ReturnEmpty
    <3> QED
      BY <3>1
  <2> QED
    BY <2>1, <2>2
<1>3. \A r \in Resolvers : /\ mr'[r].seeded = mr[r].seeded
                           /\ mr[r].seeded => mr'[r].current = mr[r].current
  <2>1. CASE UNCHANGED mr
    BY <2>1
  <2>2. CASE SlowLookup(c)
    <3>1. ASSUME NEW n \in Names, NEW r \in Resolvers, mr[r].owner = None,
                 mr' = [mr EXCEPT ![r] = NewResolver(n)]
          PROVE  \A q \in Resolvers : /\ mr'[q].seeded = mr[q].seeded
                                      /\ mr[q].seeded => mr'[q].current = mr[q].current
      BY <3>1 DEF UnmadeIsEmpty, NewResolver
    <3>2. call[c].name \in Names
      BY <2>2 DEF SlowLookup
    <3> QED
      BY <2>1, <2>2, <3>1, <3>2 DEF SlowLookup
  <2>3. CASE OnceEnter(c)
    BY <2>3 DEF OnceEnter
  <2>4. CASE \E a \in Errors : SeedResolve(c, a)
    <3>1. UNCHANGED mr \/ \E a \in Errors : mr' = [mr EXCEPT ![call[c].obj].seedErr = a]
      BY <2>4 DEF SeedResolve
    <3>2. ASSUME NEW a \in Errors, mr' = [mr EXCEPT ![call[c].obj].seedErr = a]
          PROVE  \A r \in Resolvers : mr'[r].seeded = mr[r].seeded
                                    /\ mr'[r].current = mr[r].current
      BY <3>2
    <3> QED
      BY <3>1, <3>2
  <2>5. CASE StartWatch(c)
    BY <2>5 DEF StartWatch
  <2>6. CASE WatchOpened(c) \/ WatchFailed(c)
    BY <2>6 DEF WatchOpened, WatchFailed
  <2>7. CASE (\E n \in Names : Call(c, n)) \/ FastLookup(c) \/ OnceDone(c)
             \/ LoadSeeded(c) \/ LoadCurrent(c) \/ ReturnEmpty(c)
    BY <2>1, <2>7 DEF Call, FastLookup, OnceDone, LoadSeeded, LoadCurrent, ReturnEmpty
  <2> QED
    BY <2>2, <2>3, <2>4, <2>5, <2>6, <2>7
<1> QED
  BY <1>1, <1>2, <1>3, CallerLeaves

\* The seed learns what the registry answered, and store installs it: with its
\* first write in a cache that has a content, with its last in one that is empty.
LEMMA SeedMovesOne ==
  ASSUME CInv, CInv', NEW c \in Callers,
         \/ \E a \in Services : SeedResolve(c, a)
         \/ SeedStoreCurrent(c) \/ SeedStoreAuth(c) \/ SeedPublish(c)
  PROVE  OneCacheMoves
<1> USE ConstantsAssumption
    DEF CInv, IInv, Typed, TypeOK, CallTyped, Objects, ResolverState, CallState,
        SeedPc, Goto
<1>1. PICK r \in Resolvers : r = call[c].obj
  BY DEF SeedResolve, SeedStoreCurrent, SeedStoreAuth, SeedPublish
<1>2. /\ call'[c].obj = r /\ watch' = watch
      /\ \A d \in Callers \ {c} : call'[d] = call[d]
      /\ \A o \in Objects \ {r} : mr'[o] = mr[o]
  <2>1. CASE \E a \in Services : SeedResolve(c, a)
    <3>1. PICK a \in Services : SeedResolve(c, a) /\ a \notin Errors
      BY <2>1 DEF Errors
    <3>2. /\ UNCHANGED <<mr, watch>>
          /\ call' = [call EXCEPT ![c].answer = a, ![c].pc = "seedCurrent"]
      BY <3>1, Zenon DEF SeedResolve
    <3> QED
      BY <1>1, <3>2
  <2>2. CASE SeedStoreCurrent(c)
    BY <1>1, <2>2 DEF SeedStoreCurrent, StoreCurrent
  <2>3. CASE SeedStoreAuth(c)
    BY <1>1, <2>3 DEF SeedStoreAuth, StoreAuth
  <2>4. CASE SeedPublish(c)
    BY <1>1, <2>4, SeedPublished DEF SeedPublish, StorePublish
  <2> QED
    BY <2>1, <2>2, <2>3, <2>4
<1>3. \A q \in Resolvers \ {r} : Untouched(q)
  <2> SUFFICES ASSUME NEW q \in Resolvers \ {r} PROVE Untouched(q)
    OBVIOUS
  <2>1. call[c].obj # q /\ call'[c].obj # q /\ mr'[q] = mr[q]
    BY <1>1, <1>2
  <2> QED
    BY <1>2, <2>1, CallerLeaves
<1>4. CacheStep(r)
  <2>1. CASE \E a \in Services : SeedResolve(c, a)
    <3>1. PICK a \in Services : /\ call[c].pc = "seed" /\ call'[c].pc = "seedCurrent"
                                /\ call'[c].answer = a /\ mr' = mr
      BY <2>1 DEF SeedResolve, Errors
    <3>2. Learned(r) = {}
      BY <1>1, <3>1, SeederLearned DEF Seeding, Storing
    <3>3. Learned(r)' = {a}
      BY <1>2, <3>1, SeederLearnedNext DEF Seeding, Storing
    <3>4. Content(r)' = Content(r)
      BY <3>1 DEF Content
    <3>5. Answered(r, a)
      <4>1. SeedResolve(c, a)
        BY <2>1, <3>1 DEF SeedResolve, Errors
      <4> QED
        BY <1>1, <4>1, Zenon DEF Answered
    <3> QED
      BY <3>2, <3>3, <3>4, <3>5 DEF CacheStep
  <2>2. CASE SeedStoreCurrent(c)
    <3>1. /\ call[c].pc = "seedCurrent" /\ call'[c].pc = "seedAuth"
          /\ call'[c].answer = call[c].answer
          /\ mr'[r].seeded = mr[r].seeded /\ mr'[r].current = call[c].answer
      <4>1. Moves(c, r, "seedAuth")
        BY <1>1, <2>2, GoneTo DEF SeedStoreCurrent
      <4>2. mr'[r].seeded = mr[r].seeded /\ mr'[r].current = call[c].answer
        <5>1. mr' = [mr EXCEPT ![r].current = call[c].answer]
          BY <1>1, <2>2, Zenon DEF SeedStoreCurrent, StoreCurrent
        <5> QED
          BY <5>1
      <4> QED
        BY <2>2, <4>1, <4>2 DEF SeedStoreCurrent, Moves
    <3>2. Learned(r) = {call[c].answer}
      BY <1>1, <3>1, SeederLearned DEF Seeding, Storing
    <3>3. Learned(r)' = IF mr[r].seeded THEN {} ELSE {call[c].answer}
      BY <1>2, <3>1, SeederLearnedNext DEF Seeding, Storing
    <3> QED
      BY <3>1, <3>2, <3>3 DEF CacheStep, Untouched, Content
  <2>3. CASE SeedStoreAuth(c)
    <3>1. /\ call[c].pc = "seedAuth" /\ call'[c].pc = "seedPublish"
          /\ call'[c].answer = call[c].answer
          /\ mr'[r].seeded = mr[r].seeded /\ mr'[r].current = mr[r].current
      BY <1>1, <2>3 DEF SeedStoreAuth, StoreAuth
    <3>2. Learned(r) = IF mr[r].seeded THEN {} ELSE {call[c].answer}
      BY <1>1, <3>1, SeederLearned DEF Seeding, Storing
    <3>3. Learned(r)' = IF mr[r].seeded THEN {} ELSE {call[c].answer}
      BY <1>2, <3>1, SeederLearnedNext DEF Seeding, Storing
    <3> QED
      BY <3>1, <3>2, <3>3 DEF CacheStep, Untouched, Content
  <2>4. CASE SeedPublish(c)
    <3>1. /\ call[c].pc = "seedPublish" /\ call'[c].pc = "startWatch"
          /\ mr'[r].seeded = TRUE /\ mr'[r].current = mr[r].current
      <4>1. call[c].pc = "seedPublish" /\ call'[c].pc = "startWatch"
        BY <2>4, SeedPublished
      <4>2. mr' = [mr EXCEPT ![r].seeded = TRUE]
        BY <1>1, <2>4, Zenon DEF SeedPublish, StorePublish
      <4> QED
        BY <4>1, <4>2
    <3>2. Learned(r) = IF mr[r].seeded THEN {} ELSE {call[c].answer}
      BY <1>1, <3>1, SeederLearned DEF Seeding, Storing
    <3>3. Learned(r)' = {}
      BY <1>2, <3>1, SeederLearnedNext DEF Seeding, Storing
    <3>4. mr[r].current = call[c].answer
      BY <1>1, <3>1 DEF AnswerHeld
    <3> QED
      BY <3>1, <3>2, <3>3, <3>4 DEF CacheStep, Untouched, Content
  <2> QED
    BY <2>1, <2>2, <2>3, <2>4
<1> QED
  BY <1>3, <1>4 DEF OneCacheMoves

\* The watch learns what a refresh was answered, unless that is an error that
\* says nothing; store installs a service as the seed does, and clear installs
\* emptiness with its last write.
LEMMA RefreshMovesOne ==
  ASSUME CInv, CInv', NEW r \in Resolvers,
         \/ \E a \in Answers : WatchResolve(r, a)
         \/ WatchStoreCurrent(r) \/ WatchStoreAuth(r) \/ WatchPublish(r)
         \/ WatchClearAuth(r) \/ WatchClearSeeded(r)
  PROVE  OneCacheMoves
<1>0. /\ watch \in [Resolvers -> WatchState] /\ mr \in [Objects -> ResolverState]
      /\ AnswerHeld /\ AnswerHeld'
  BY DEF CInv, IInv, Typed, TypeOK
<1> USE <1>0 DEF Objects, ResolverState, WatchState
<1>1. /\ UNCHANGED call
      /\ \A q \in Resolvers \ {r} : watch'[q] = watch[q] /\ mr'[q] = mr[q]
  <2>1. CASE \E a \in Answers : WatchResolve(r, a)
    BY <1>0, <2>1, Refreshed DEF WatchResolve
  <2>2. CASE WatchStoreCurrent(r)
    BY <2>2 DEF WatchStoreCurrent, StoreCurrent
  <2>3. CASE WatchStoreAuth(r) \/ WatchPublish(r)
    BY <2>3 DEF WatchStoreAuth, StoreAuth, WatchPublish, StorePublish
  <2>4. CASE WatchClearAuth(r) \/ WatchClearSeeded(r)
    BY <2>4 DEF WatchClearAuth, ClearAuth, WatchClearSeeded, ClearSeeded
  <2> QED
    BY <2>1, <2>2, <2>3, <2>4
<1>2. \A q \in Resolvers \ {r} : Untouched(q)
  BY <1>1, OthersLeave
<1>3. CacheStep(r)
  <2>1. ASSUME NEW a \in Answers, WatchResolve(r, a) PROVE CacheStep(r)
    <3>1. /\ watch[r].pc = "resolve" /\ watch'[r].pc = AfterAnswer(a)
          /\ watch'[r].answer = a /\ mr' = mr
      BY <1>0, <2>1, Refreshed
    <3>2. \/ a = NoHealthy /\ AfterAnswer(a) = "clearAuth"
          \/ a = Transient /\ AfterAnswer(a) = "select"
          \/ a \in Services /\ AfterAnswer(a) = "storeCurrent"
      <4>1. /\ NoHealthy # Transient
            /\ NoHealthy \notin Services /\ Transient \notin Services
            /\ a \in Services \cup {NoHealthy, Transient}
        BY ConstantsAssumption DEF Answers, Errors, NoHealthy, Transient
      <4>2. CASE a = NoHealthy
        BY <4>1, <4>2 DEF AfterAnswer
      <4>3. CASE a = Transient
        BY <4>1, <4>3 DEF AfterAnswer
      <4>4. CASE a \in Services
        <5>1. a # NoHealthy /\ a # Transient
          BY <4>1, <4>4
        <5> QED
          BY <4>4, <5>1 DEF AfterAnswer
      <4> QED
        BY <4>1, <4>2, <4>3, <4>4
    <3>3. Learned(r) = {}
      BY <3>1, WatcherLearned, WatchLearnedIs DEF Storing
    <3>4. Learned(r)' = WatchLearned(r)'
      BY <3>1, <3>2, WatcherLearnedNext
    <3>6. \/ \E v \in Services \cup {Empty} : Learned(r)' = {v} /\ Answered(r, v)
          \/ Learned(r)' = {}
      <4>1. CASE watch'[r].pc = "clearAuth"
        <5>1. WatchLearned(r)' = {Empty}
          BY <1>0, <4>1, WatchLearnedNext DEF Storing
        <5>2. a = NoHealthy
          BY <3>1, <3>2, <4>1, ConstantsAssumption
        <5>3. Answered(r, Empty)
          BY <2>1, <5>2, Zenon DEF Answered
        <5> QED
          BY <3>4, <5>1, <5>3
      <4>2. CASE watch'[r].pc = "select"
        <5>1. WatchLearned(r)' = {}
          BY <1>0, <4>2, WatchLearnedNext DEF Storing
        <5> QED
          BY <3>4, <5>1
      <4>3. CASE watch'[r].pc = "storeCurrent" /\ a \in Services
        <5>1. WatchLearned(r)' = {a}
          BY <1>0, <3>1, <4>3, WatchLearnedNext DEF Storing
        <5>2. Answered(r, a)
          BY <2>1, <4>3, Zenon DEF Answered
        <5> QED
          BY <3>4, <4>3, <5>1, <5>2
      <4> QED
        BY <3>1, <3>2, <4>1, <4>2, <4>3
    <3>5. Content(r)' = Content(r)
      BY <3>1 DEF Content
    <3> QED
      BY <3>3, <3>5, <3>6 DEF CacheStep, Untouched
  <2>2. CASE WatchStoreCurrent(r)
    <3>1. /\ watch[r].pc = "storeCurrent" /\ watch'[r].pc = "storeAuth"
          /\ watch'[r].answer = watch[r].answer
          /\ mr'[r].seeded = mr[r].seeded /\ mr'[r].current = watch[r].answer
      BY <2>2 DEF WatchStoreCurrent, StoreCurrent
    <3>2. Learned(r) = {watch[r].answer}
      BY <3>1, WatcherLearned, WatchLearnedIs DEF Storing
    <3>3. Learned(r)' = IF mr[r].seeded THEN {} ELSE {watch[r].answer}
      BY <3>1, WatcherLearnedNext, WatchLearnedNext DEF Storing
    <3> QED
      BY <3>1, <3>2, <3>3 DEF CacheStep, Untouched, Content
  <2>3. CASE WatchStoreAuth(r)
    <3>1. /\ watch[r].pc = "storeAuth" /\ watch'[r].pc = "storePublish"
          /\ watch'[r].answer = watch[r].answer
          /\ mr'[r].seeded = mr[r].seeded /\ mr'[r].current = mr[r].current
      BY <2>3 DEF WatchStoreAuth, StoreAuth
    <3>2. Learned(r) = IF mr[r].seeded THEN {} ELSE {watch[r].answer}
      BY <3>1, WatcherLearned, WatchLearnedIs DEF Storing
    <3>3. Learned(r)' = IF mr[r].seeded THEN {} ELSE {watch[r].answer}
      BY <3>1, WatcherLearnedNext, WatchLearnedNext DEF Storing
    <3> QED
      BY <3>1, <3>2, <3>3 DEF CacheStep, Untouched, Content
  <2>4. CASE WatchPublish(r)
    <3>1. /\ watch[r].pc = "storePublish" /\ watch'[r].pc = "select"
          /\ mr'[r].seeded = TRUE /\ mr'[r].current = mr[r].current
      BY <2>4 DEF WatchPublish, StorePublish
    <3>2. Learned(r) = IF mr[r].seeded THEN {} ELSE {watch[r].answer}
      BY <3>1, WatcherLearned, WatchLearnedIs DEF Storing
    <3>3. Learned(r)' = {}
      BY <3>1, WatcherLearnedNext, WatchLearnedNext DEF Storing
    <3>4. mr[r].current = watch[r].answer
      BY <3>1 DEF AnswerHeld
    <3> QED
      BY <3>1, <3>2, <3>3, <3>4 DEF CacheStep, Untouched, Content
  <2>5. CASE WatchClearAuth(r)
    <3>1. /\ watch[r].pc = "clearAuth" /\ watch'[r].pc = "clearSeeded"
          /\ mr'[r].seeded = mr[r].seeded /\ mr'[r].current = mr[r].current
      BY <2>5 DEF WatchClearAuth, ClearAuth
    <3>2. Learned(r) = {Empty} /\ Learned(r)' = {Empty}
      BY <3>1, WatcherLearned, WatchLearnedIs, WatcherLearnedNext, WatchLearnedNext
      DEF Storing
    <3> QED
      BY <3>1, <3>2 DEF CacheStep, Untouched, Content
  <2>6. CASE WatchClearSeeded(r)
    <3>1. /\ watch[r].pc = "clearSeeded" /\ watch'[r].pc = "select"
          /\ mr'[r].seeded = FALSE
      BY <2>6 DEF WatchClearSeeded, ClearSeeded
    <3>2. Learned(r) = {Empty} /\ Learned(r)' = {}
      BY <3>1, WatcherLearned, WatchLearnedIs, WatcherLearnedNext, WatchLearnedNext
      DEF Storing
    <3> QED
      BY <3>1, <3>2 DEF CacheStep, Content
  <2> QED
    BY <2>1, <2>2, <2>3, <2>4, <2>5, <2>6
<1> QED
  BY <1>2, <1>3 DEF OneCacheMoves

\* The rest of the watch, the registry and Close move no cache.
LEMMA RestMovesNone ==
  ASSUME CInv,
         \/ \E r \in Resolvers : Wake(r) \/ Exit(r) \/ Emit(r) \/ CloseChan(r)
         \/ CloseBegin \/ CloseStep \/ UNCHANGED vars
  PROVE  \A q \in Resolvers : Untouched(q)
<1>0. watch \in [Resolvers -> WatchState] /\ mr \in [Objects -> ResolverState]
  BY DEF CInv, IInv, Typed, TypeOK
<1> USE <1>0 DEF Objects, ResolverState, WatchState
<1>1. ASSUME NEW r \in Resolvers, Wake(r) \/ Exit(r) \/ Emit(r) \/ CloseChan(r)
      PROVE  \A q \in Resolvers : Untouched(q)
  <2>1. UNCHANGED <<mr, call>>
    BY <1>1 DEF Wake, Exit, Emit, CloseChan
  <2>2. \A q \in Resolvers :
           \/ watch'[q].pc = watch[q].pc /\ watch'[q].answer = watch[q].answer
           \/ {watch[q].pc, watch'[q].pc} \cap BusyPc = {}
    <3>1. CASE Wake(r)
      <4>1. /\ watch[r].pc = "select" /\ watch'[r].pc = "resolve"
            /\ \A q \in Resolvers \ {r} : watch'[q] = watch[q]
        BY <1>0, <3>1, Woken
      <4> QED
        BY <4>1 DEF BusyPc
    <3>2. CASE Exit(r)
      BY <3>2 DEF Exit, BusyPc
    <3>3. CASE Emit(r) \/ CloseChan(r)
      BY <3>3 DEF Emit, CloseChan
    <3> QED
      BY <1>1, <3>1, <3>2, <3>3
  <2> QED
    BY <2>1, <2>2, OthersLeave
<1>2. ASSUME NEW n \in Names, CloseDrain(n)
      PROVE  \A q \in Resolvers : Untouched(q)
  <2>1. UNCHANGED <<watch, call>>
    BY <1>2 DEF CloseDrain
  <2>2. \A q \in Resolvers : /\ mr'[q].seeded = mr[q].seeded
                             /\ mr'[q].current = mr[q].current
    BY <1>2 DEF CloseDrain
  <2> QED
    BY <2>1, <2>2, OthersLeave
<1>3. CASE CloseBegin \/ CloseUnlock \/ CloseRegistry \/ UNCHANGED vars
  <2>1. UNCHANGED <<mr, watch, call>>
    BY <1>3 DEF CloseBegin, CloseUnlock, CloseRegistry, vars
  <2> QED
    BY <2>1, OthersLeave
<1> QED
  BY <1>1, <1>2, <1>3 DEF CloseStep

\* Every step moves one cache at most.
LEMMA StepMovesOne == CInv /\ [Next]_vars => OneCacheMoves
<1> SUFFICES ASSUME CInv, [Next]_vars PROVE OneCacheMoves
  OBVIOUS
<1>1. CInv'
  BY CInvNext
<1>2. ASSUME NEW c \in Callers, NEW a \in Answers, SeedResolve(c, a)
      PROVE  OneCacheMoves
  <2>1. CASE a \in Services
    BY <1>1, <1>2, <2>1, SeedMovesOne
  <2>2. CASE a \in Errors
    BY <1>2, <2>2, QuietCaller DEF OneCacheMoves
  <2> QED
    BY <2>1, <2>2 DEF Answers
<1>3. ASSUME NEW c \in Callers, CallerStep(c) PROVE OneCacheMoves
  BY <1>1, <1>2, <1>3, SeedMovesOne, QuietCaller DEF CallerStep, OneCacheMoves
<1>4. ASSUME NEW c \in Callers, NEW n \in Names, Call(c, n) PROVE OneCacheMoves
  BY <1>4, QuietCaller DEF OneCacheMoves
<1>5. ASSUME NEW r \in Resolvers, WatchStep(r) \/ Emit(r) \/ CloseChan(r)
      PROVE  OneCacheMoves
  BY <1>1, <1>5, RefreshMovesOne, RestMovesNone DEF WatchStep, OneCacheMoves
<1>6. CASE CloseBegin \/ CloseStep \/ UNCHANGED vars
  BY <1>6, RestMovesNone DEF OneCacheMoves
<1> QED
  BY <1>3, <1>4, <1>5, <1>6 DEF Next

\* The initial states are those of the abstract specification.
LEMMA StartsEmpty == Init => LKG!Init
<1> SUFFICES ASSUME Init PROVE LKG!Init
  OBVIOUS
<1>1. \A r \in Resolvers : Content(r) = Empty
  BY DEF Init, Content, NewResolver, Objects
<1>2. \A r \in Resolvers : SeedLearned(r) = {}
  BY DEF Init, SeedLearned, Storing
<1>3. \A r \in Resolvers : WatchLearned(r) = {}
  BY DEF Init, WatchLearned, Storing
<1> QED
  BY <1>1, <1>2, <1>3 DEF LKG!Init

\* The invariant of the refinement.
LEMMA CInvAlways == Spec => []CInv
BY CInvInit, CInvNext, PTL DEF Spec

\* Every managed resolver implements the last-known-good cache: readers find what
\* the registry answered, whole and in order, and a failed refresh, a Close or a
\* cancelled context in the middle of store or clear changes nothing they find.
THEOREM CacheRefines == Spec => CacheIsLastKnownGood
<1>1. CInv /\ [Next]_vars => [LKG!Next]_(LKG!vars)
  BY StepMovesOne, OneCacheMovesIsLKG
<1> QED
  BY <1>1, StartsEmpty, CInvAlways, PTL DEF Spec, CacheIsLastKnownGood, LKG!Spec

-----------------------------------------------------------------------------
(* The cache and the last answer.                                          *)

\* What the registry answered last is learned and on its way into the cache, or
\* it is there.
AnswerComing ==
    \A r \in Resolvers :
        IF Learned(r) = {} THEN Content(r) = answered[r] ELSE Learned(r) = {answered[r]}

\* The seed and the watch learn what they are answered.
LEMMA AnswerIsLearned ==
  ASSUME CInv, CInv', NEW r \in Resolvers, NEW v \in Services \cup {Empty},
         Answered(r, v)
  PROVE  Learned(r)' = {v}
<1>0. watch \in [Resolvers -> WatchState] /\ AnswerHeld'
  BY DEF CInv, IInv, Typed, TypeOK
<1>1. ASSUME NEW c \in Callers, call[c].obj = r, v \in Services, SeedResolve(c, v)
      PROVE  Learned(r)' = {v}
  <2>1. call' = [call EXCEPT ![c].answer = v, ![c].pc = "seedCurrent"]
    BY <1>1, ConstantsAssumption DEF SeedResolve, Errors
  <2>2. call'[c].pc = "seedCurrent" /\ call'[c].answer = v /\ call'[c].obj = r
    BY <1>1, <2>1 DEF CInv, IInv, Typed, TypeOK, CallState
  <2> QED
    BY <2>2, SeederLearnedNext DEF Seeding, Storing
<1>2. ASSUME NEW a \in Answers, WatchResolve(r, a),
             \/ a \in Services /\ v = a
             \/ a = NoHealthy /\ v = Empty
      PROVE  Learned(r)' = {v}
  <2>1. watch'[r].pc = AfterAnswer(a) /\ watch'[r].answer = a
    BY <1>0, <1>2, Refreshed
  <2>2. \/ a \in Services /\ AfterAnswer(a) = "storeCurrent"
        \/ a = NoHealthy /\ AfterAnswer(a) = "clearAuth"
    BY <1>2, ConstantsAssumption DEF AfterAnswer, NoHealthy, Transient
  <2>3. Learned(r)' = WatchLearned(r)'
    BY <2>1, <2>2, WatcherLearnedNext
  <2>4. CASE v = a /\ AfterAnswer(a) = "storeCurrent"
    BY <1>0, <2>1, <2>3, <2>4, WatchLearnedNext DEF Storing
  <2>5. CASE v = Empty /\ AfterAnswer(a) = "clearAuth"
    BY <1>0, <2>1, <2>3, <2>5, WatchLearnedNext DEF Storing
  <2> QED
    BY <1>2, <2>2, <2>4, <2>5, ConstantsAssumption
<1>3. NoHealthy \in Answers /\ Services \subseteq Answers
  BY DEF Answers, Errors
<1> QED
  BY <1>1, <1>2, <1>3 DEF Answered

\* An answer that was coming is installed before another one comes.
LEMMA AnswerComingNext ==
  ASSUME CInv, AnswerComing, Next, Record
  PROVE  AnswerComing'
<1>1. CInv' /\ OneCacheMoves
  BY CInvNext, StepMovesOne
<1> SUFFICES ASSUME NEW r \in Resolvers
             PROVE  IF Learned(r)' = {} THEN Content(r)' = answered'[r]
                                        ELSE Learned(r)' = {answered'[r]}
  BY DEF AnswerComing
<1>2. CacheStep(r)
  BY <1>1 DEF OneCacheMoves, CacheStep
<1>3. answered'[r] = IF \E v \in Services \cup {Empty} : Answered(r, v)
                     THEN CHOOSE v \in Services \cup {Empty} : Answered(r, v)
                     ELSE answered[r]
  BY Zenon DEF Record
<1>4. CASE \E v \in Services \cup {Empty} : Answered(r, v)
  <2>1. answered'[r] \in Services \cup {Empty} /\ Answered(r, answered'[r])
    BY <1>3, <1>4, Zenon
  <2>2. Learned(r)' = {answered'[r]}
    BY <1>1, <2>1, AnswerIsLearned
  <2> QED
    BY <2>2
<1>5. CASE ~\E v \in Services \cup {Empty} : Answered(r, v)
  <2>1. answered'[r] = answered[r]
    BY <1>3, <1>5, Zenon
  <2>2. \/ Untouched(r)
        \/ Content(r)' \in Learned(r) /\ Learned(r)' = {}
    BY <1>2, <1>5 DEF CacheStep
  <2>3. IF Learned(r) = {} THEN Content(r) = answered[r] ELSE Learned(r) = {answered[r]}
    BY DEF AnswerComing
  <2> QED
    BY <2>1, <2>2, <2>3 DEF Untouched
<1> QED
  BY <1>4, <1>5

\* Between its stores and clears, a cache holds what the registry answered last:
\* an empty catalog empties it, an error is no answer and changes nothing, and no
\* goroutine leaves a store or a clear half done.
THEOREM CacheFollowsAnswers == HSpec => []CacheIsLastAnswer
<1>1. HInit => CInv /\ AnswerComing
  <2> SUFFICES ASSUME HInit PROVE CInv /\ AnswerComing
    OBVIOUS
  <2>1. \A r \in Resolvers : Content(r) = Empty /\ answered[r] = Empty
    BY DEF HInit, Init, Content, NewResolver, Objects
  <2>2. \A r \in Resolvers : SeedLearned(r) = {} /\ WatchLearned(r) = {}
    BY DEF HInit, Init, SeedLearned, WatchLearned, Storing
  <2> QED
    BY <2>1, <2>2, CInvInit DEF HInit, AnswerComing, Learned
<1>2. CInv /\ AnswerComing /\ [HNext]_hvars => CInv' /\ AnswerComing'
  <2> SUFFICES ASSUME CInv, AnswerComing, [HNext]_hvars PROVE CInv' /\ AnswerComing'
    OBVIOUS
  <2>1. CInv'
    BY CInvNext DEF HNext, hvars
  <2>2. CASE HNext
    BY <2>1, <2>2, AnswerComingNext DEF HNext
  <2>3. CASE UNCHANGED hvars
    <3>1. UNCHANGED <<mr, watch, call, answered>>
      BY <2>3 DEF hvars, vars
    <3>2. \A r \in Resolvers : Untouched(r)
      BY <3>1, OthersLeave
    <3> QED
      BY <2>1, <3>1, <3>2 DEF AnswerComing, Untouched
  <2> QED
    BY <2>2, <2>3
<1>3. AnswerComing => CacheIsLastAnswer
  <2> SUFFICES ASSUME AnswerComing, NEW r \in Resolvers, Quiet(r)
               PROVE  Content(r) = answered[r]
    BY DEF CacheIsLastAnswer
  <2>1. SeedLearned(r) = {}
    BY DEF Quiet, SeedLearned, Storing
  <2>2. WatchLearned(r) = {}
    BY DEF Quiet, WatchLearned, Storing
  <2> QED
    BY <2>1, <2>2 DEF AnswerComing, Learned
<1> QED
  BY <1>1, <1>2, <1>3, PTL DEF HSpec
=============================================================================
