----------------------- MODULE DynamicResolver_proofs -----------------------
(***************************************************************************)
(* Proofs about DynamicResolver, for any providers, addresses, fallback    *)
(* and channel capacity.                                                   *)
(***************************************************************************)
EXTENDS DynamicResolver, TLAPS

Tracked == /\ tracks \in {"address", "service"}
           /\ view \in Views
           /\ fallback \in Snapshot

\* WatchResolve and WatchResolveService without a fallback hold the empty pair.
FallbackOrNone == fallback = Nothing \/ fallback.address # ""

\* The goroutine stores an address always, and one that a source has given.
Carried ==
    updater.pc = "store" => OneSource(updater.pair) /\ updater.pair.address # ""

\* Nobody writes the snapshot before the seed, afterwards it has a source, and
\* the goroutine runs in a resolver that is made.
Seeded ==
    /\ creator = "seed" => snapshot = Nothing
    /\ creator \in {"open", "returned"} => OneSource(snapshot)
    /\ updater.pc # "none" => creator = "returned"

IInv == TypeOK /\ FallbackOrNone /\ Carried /\ Seeded

-----------------------------------------------------------------------------
(* What a registry answer gives.                                           *)

\* The tracked endpoint of an answer is a pointer that is nil or an endpoint.
LEMMA EndpointForType ==
  ASSUME NEW svc \in Services
  PROVE  /\ EndpointFor(svc) = <<>> \/ \E e \in Endpoint : EndpointFor(svc) = <<e>>
         /\ svc.Internal \in Pointer /\ svc.External \in Pointer
BY ConstantsAssumption DEF EndpointFor, Pointer

\* A pointer that is not nil has one endpoint, and it has an address.
LEMMA EndpointForValue ==
  ASSUME NEW svc \in Services, EndpointFor(svc) # <<>>
  PROVE  /\ DOMAIN EndpointFor(svc) = {1}
         /\ EndpointFor(svc)[1] \in Endpoint
         /\ EndpointFor(svc)[1] \in Snapshot
         /\ EndpointFor(svc)[1].address # ""
<1>1. PICK e \in Endpoint : EndpointFor(svc) = <<e>>
  BY EndpointForType
<1>2. e.address # ""
  BY ConstantsAssumption DEF Endpoint
<1>3. e \in Snapshot
  BY DEF Endpoint, Snapshot
<1>4. DOMAIN <<e>> = {1} /\ <<e>>[1] = e
  OBVIOUS
<1> QED
  BY <1>1, <1>2, <1>3, <1>4

\* An answer's tracked endpoint is of one source, with its scheme or as
\* WatchResolve keeps it.
LEMMA AnswerIsOneSource ==
  ASSUME NEW svc \in Services, EndpointFor(svc) # <<>>
  PROVE  /\ OneSource(EndpointFor(svc)[1])
         /\ tracks = "address" =>
               OneSource([EndpointFor(svc)[1] EXCEPT !.scheme = ""])
BY DEF EndpointFor, OneSource

\* What a seed may store comes from one source.
LEMMA SeedPairsSource ==
  ASSUME Tracked, NEW pair \in SeedPairs
  PROVE  pair \in Snapshot /\ OneSource(pair)
<1>1. CASE pair = fallback
  BY <1>1 DEF Tracked, OneSource
<1>2. ASSUME NEW svc \in Services, NEW k \in DOMAIN EndpointFor(svc),
             pair = [EndpointFor(svc)[k] EXCEPT
                        !.scheme = IF tracks = "service" THEN @ ELSE ""]
      PROVE  pair \in Snapshot /\ OneSource(pair)
  <2>0. DOMAIN <<>> = {}
    OBVIOUS
  <2>1. EndpointFor(svc) # <<>>
    BY <1>2, <2>0
  <2>2. k = 1
    BY <2>1, EndpointForValue
  <2> DEFINE e == EndpointFor(svc)[1]
  <2>3. e \in Endpoint /\ e \in Snapshot
    BY <2>1, EndpointForValue
  <2>4. CASE tracks = "service"
    <3>1. pair = e
      BY <1>2, <2>2, <2>3, <2>4 DEF Endpoint
    <3> QED
      BY <2>1, <2>3, <3>1, AnswerIsOneSource
  <2>5. CASE tracks = "address"
    <3>1. pair = [e EXCEPT !.scheme = ""]
      BY <1>2, <2>2, <2>5
    <3>2. pair \in Snapshot
      BY <2>3, <3>1 DEF Endpoint, Snapshot
    <3> QED
      BY <2>1, <2>5, <3>1, <3>2, AnswerIsOneSource
  <2> QED
    BY <2>4, <2>5 DEF Tracked
<1>3. CASE pair # fallback
  <2>1. PICK e \in UNION {{EndpointFor(s)[k] : k \in DOMAIN EndpointFor(s)} : s \in Services} :
          pair = [e EXCEPT !.scheme = IF tracks = "service" THEN @ ELSE ""]
    BY <1>3 DEF SeedPairs
  <2>2. PICK svc \in Services : e \in {EndpointFor(svc)[k] : k \in DOMAIN EndpointFor(svc)}
    BY <2>1
  <2>3. PICK k \in DOMAIN EndpointFor(svc) : e = EndpointFor(svc)[k]
    BY <2>2
  <2> QED
    BY <1>2, <2>1, <2>3
<1> QED
  BY <1>1, <1>3

-----------------------------------------------------------------------------
(* The invariant.                                                          *)

\* The channel has room for an event.
LEMMA ChanCapPositive == ChanCap \in Nat /\ ChanCap # 0
BY ConstantsAssumption

\* The invariant holds in every initial state.
LEMMA IInvInit ==
  Init => IInv
<1> SUFFICES ASSUME Init PROVE IInv
  OBVIOUS
<1>1. Nothing \in Snapshot
  BY DEF Nothing, Snapshot
<1>2. view \in Views
  BY DEF Init, TrackedView
<1>3. fallback \in Snapshot /\ FallbackOrNone
  <2>1. CASE fallback = Nothing
    BY <1>1, <2>1 DEF FallbackOrNone
  <2>2. CASE fallback = [Fallback EXCEPT !.scheme = IF tracks = "service" THEN @ ELSE ""]
    <3>1. fallback \in Snapshot
      BY <2>2, ConstantsAssumption DEF Endpoint, Snapshot
    <3>2. fallback.address # ""
      BY <2>2, ConstantsAssumption DEF Endpoint
    <3> QED
      BY <3>1, <3>2 DEF FallbackOrNone
  <2> QED
    BY <2>1, <2>2 DEF Init, GivenFallback
<1>4. 0 \in 0..ChanCap
  BY ChanCapPositive
<1>5. TypeOK
  BY <1>1, <1>2, <1>3, <1>4 DEF Init, TypeOK
<1> QED
  BY <1>3, <1>5 DEF Init, IInv, Carried, Seeded


\* The call that makes the resolver.
LEMMA CreateKeepsIInv ==
  ASSUME IInv, Create
  PROVE  IInv' /\ (snapshot.address # "" => snapshot'.address # "")
<1> USE DEF conf, chan
<1>0. TypeOK /\ Tracked
  BY DEF IInv, TypeOK, Tracked
<1>1. CASE SeedDisabled
  <2>1. /\ UNCHANGED <<conf, ctxDone, stopped, updater, chan, reader>>
        /\ snapshot' \in {snapshot, fallback}
        /\ snapshot.address = "" /\ creator = "seed"
        /\ creator' = "failed" \/ (creator' = "returned" /\ snapshot' = fallback)
    <3>1. snapshot = Nothing
      BY <1>1 DEF SeedDisabled, IInv, Seeded
    <3>2. snapshot.address = ""
      BY <3>1 DEF Nothing
    <3> QED
      BY <1>1, <3>2 DEF SeedDisabled
  <2>2. TypeOK'
    BY <1>0, <2>1 DEF TypeOK
  <2>5. FallbackOrNone' /\ Carried'
    BY <2>1, <2>2 DEF IInv, FallbackOrNone, Carried, OneSource
  <2>6. Seeded'
    BY <2>1, <2>2 DEF IInv, Seeded, OneSource
  <2> QED
    BY <2>1, <2>2, <2>5, <2>6 DEF IInv
<1>2. CASE Seed
  <2>1. /\ UNCHANGED <<conf, ctxDone, stopped, updater, chan, reader>>
        /\ creator = "seed" /\ creator' = "open"
        /\ snapshot.address = ""
    <3>1. snapshot = Nothing
      BY <1>2 DEF Seed, IInv, Seeded
    <3>2. snapshot.address = ""
      BY <3>1 DEF Nothing
    <3> QED
      BY <1>2, <3>2 DEF Seed
  <2>2. snapshot' \in Snapshot /\ OneSource(snapshot')
    BY <1>0, <1>2, SeedPairsSource DEF Seed
  <2>3. TypeOK'
    BY <1>0, <2>1, <2>2 DEF TypeOK
  <2>5. FallbackOrNone' /\ Carried'
    BY <2>1, <2>2, <2>3 DEF IInv, FallbackOrNone, Carried, OneSource
  <2>6. Seeded'
    BY <2>1, <2>2, <2>3 DEF IInv, Seeded, OneSource
  <2> QED
    BY <2>1, <2>2, <2>3, <2>5, <2>6 DEF IInv
<1>3. CASE WatchOpened \/ WatchFailed
  <2>1. /\ UNCHANGED <<conf, snapshot, events, reader>>
        /\ creator = "open"
        /\ \/ updater' = [updater EXCEPT !.pc = "select"] /\ creator' = "returned"
           \/ updater' = updater /\ creator' = "failed"
    BY <1>3 DEF WatchOpened, WatchFailed
  <2>2. /\ updater' \in [pc : {"none", "select", "resolve", "store", "exited"},
                         pair : Snapshot]
        /\ updater'.pc = "store" => updater' = updater
    BY <1>0, <2>1 DEF TypeOK
  <2>3. TypeOK'
    BY <1>0, <1>3, <2>1, <2>2 DEF TypeOK, WatchOpened, WatchFailed
  <2>5. FallbackOrNone' /\ Carried'
    BY <2>1, <2>2, <2>3 DEF IInv, FallbackOrNone, Carried, OneSource
  <2>6. Seeded'
    BY <2>1, <2>2, <2>3 DEF IInv, Seeded, OneSource
  <2> QED
    BY <2>1, <2>2, <2>3, <2>5, <2>6 DEF IInv
<1> QED
  BY <1>1, <1>2, <1>3 DEF Create

\* The watch goroutine.
LEMMA UpdaterKeepsIInv ==
  ASSUME IInv, Updater
  PROVE  IInv' /\ (snapshot.address # "" => snapshot'.address # "")
<1> USE DEF conf, chan
<1> DEFINE Goroutine == [pc : {"none", "select", "resolve", "store", "exited"},
                         pair : Snapshot]
<1>0. TypeOK /\ updater \in Goroutine
  BY DEF IInv, TypeOK
<1>1. CASE Wake
  <2>1. events' \in 0..ChanCap
    BY <1>0, <1>1, ChanCapPositive DEF TypeOK, Wake
  <2>2. updater' \in Goroutine /\ updater'.pc = "resolve"
    BY <1>0, <1>1 DEF Wake
  <2>3. TypeOK'
    BY <1>0, <1>1, <2>1, <2>2 DEF TypeOK, Wake
  <2> QED
    BY <1>1, <2>2, <2>3 DEF Wake, IInv, FallbackOrNone, Carried, Seeded, OneSource
<1>2. CASE Exit
  <2>1. updater' \in Goroutine /\ updater'.pc = "exited"
    BY <1>0, <1>2 DEF Exit
  <2>2. TypeOK'
    BY <1>0, <1>2, <2>1 DEF TypeOK, Exit
  <2> QED
    BY <1>2, <2>1, <2>2 DEF Exit, IInv, FallbackOrNone, Carried, Seeded, OneSource
<1>3. ASSUME NEW svc \in Services, Resolved(svc)
      PROVE  IInv' /\ snapshot' = snapshot
  <2>1. CASE EndpointFor(svc) = <<>>
    <3>1. updater' \in Goroutine /\ updater'.pc = "select"
      BY <1>0, <1>3, <2>1 DEF Resolved
    <3>2. TypeOK'
      BY <1>0, <1>3, <3>1 DEF TypeOK, Resolved
    <3> QED
      BY <1>3, <3>1, <3>2
      DEF Resolved, IInv, FallbackOrNone, Carried, Seeded, OneSource
  <2>2. CASE EndpointFor(svc) # <<>>
    <3>1. updater' = [pc |-> "store", pair |-> EndpointFor(svc)[1]]
      BY <1>3, <2>2 DEF Resolved
    <3>2. /\ updater' \in Goroutine
          /\ updater'.pair.address # "" /\ OneSource(updater'.pair)
      BY <2>2, <3>1, EndpointForValue, AnswerIsOneSource
    <3>3. TypeOK'
      BY <1>0, <1>3, <3>2 DEF TypeOK, Resolved
    <3> QED
      BY <1>3, <3>2, <3>3
      DEF Resolved, IInv, FallbackOrNone, Carried, Seeded, OneSource
  <2> QED
    BY <1>3, <2>1, <2>2 DEF Resolved
<1>4. CASE ResolveFails
  <2>1. CASE HasFallback
    <3>1. updater' = [pc |-> "store", pair |-> fallback]
      BY <1>4, <2>1 DEF ResolveFails
    <3>2. updater' \in Goroutine /\ updater'.pair.address # ""
      BY <1>0, <2>1, <3>1 DEF TypeOK, HasFallback
    <3>3. TypeOK'
      BY <1>0, <1>4, <3>2 DEF TypeOK, ResolveFails
    <3>4. FallbackOrNone' /\ Carried'
      <4>1. fallback' = fallback /\ updater'.pair = fallback
        BY <1>4, <3>1 DEF ResolveFails
      <4> QED
        BY <3>2, <4>1 DEF IInv, FallbackOrNone, Carried, OneSource
    <3>5. Seeded'
      BY <1>4 DEF ResolveFails, IInv, Seeded, OneSource
    <3> QED
      BY <1>4, <3>3, <3>4, <3>5 DEF ResolveFails, IInv
  <2>2. CASE ~HasFallback
    <3>1. updater' \in Goroutine /\ updater'.pc = "select"
      BY <1>0, <1>4, <2>2 DEF ResolveFails, KeepLast
    <3>2. TypeOK'
      BY <1>0, <1>4, <3>1 DEF TypeOK, ResolveFails
    <3> QED
      BY <1>4, <3>1, <3>2
      DEF ResolveFails, IInv, FallbackOrNone, Carried, Seeded, OneSource
  <2> QED
    BY <2>1, <2>2
<1>5. CASE Store
  <2>1. /\ updater' \in Goroutine /\ updater'.pc = "select"
        /\ snapshot' \in Snapshot
    BY <1>0, <1>5 DEF Store, Nothing, Snapshot
  <2>2. TypeOK'
    BY <1>0, <1>5, <2>1 DEF TypeOK, Store
  <2>3. snapshot'.address # "" /\ OneSource(snapshot')
    BY <1>5 DEF Store, IInv, Carried
  <2>4. creator' = "returned"
    BY <1>5 DEF Store, IInv, Seeded
  <2> QED
    BY <1>5, <2>1, <2>2, <2>3, <2>4
    DEF Store, IInv, FallbackOrNone, Carried, Seeded, OneSource
<1> QED
  BY <1>1, <1>2, <1>3, <1>4, <1>5 DEF Updater, Wake, Exit, ResolveFails

\* The registry's side of the channel, the caller, Stop and the reader.
LEMMA OthersKeepIInv ==
  ASSUME IInv,
         \/ Emit \/ CloseChan \/ CallerEnds \/ Stop
         \/ (\E field \in {"address", "scheme"} : ReadFirst(field)) \/ ReadSecond
  PROVE  IInv' /\ snapshot' = snapshot
<1> USE DEF conf, chan
<1>1. UNCHANGED <<conf, creator, snapshot, updater>>
  BY DEF Emit, CloseChan, CallerEnds, Stop, ReadFirst, ReadSecond
<1>2. TypeOK'
  <2>1. CASE Emit
    <3>1. events' \in 0..ChanCap
      BY <2>1, ChanCapPositive DEF IInv, TypeOK, Emit, Room
    <3> QED
      BY <2>1, <3>1 DEF IInv, TypeOK, Emit
  <2>2. CASE CloseChan \/ CallerEnds \/ Stop
    BY <2>2 DEF IInv, TypeOK, CloseChan, CallerEnds, Stop
  <2>3. ASSUME NEW field \in {"address", "scheme"}, ReadFirst(field)
        PROVE  TypeOK'
    <3>1. [Nothing EXCEPT ![field] = snapshot[field]] \in Snapshot
      BY DEF IInv, TypeOK, Nothing, Snapshot
    <3> QED
      BY <2>3, <3>1 DEF IInv, TypeOK, ReadFirst
  <2>4. CASE ReadSecond
    <3>1. \A field \in {"address", "scheme"} :
             [reader.pair EXCEPT ![field] = snapshot[field]] \in Snapshot
      BY DEF IInv, TypeOK, Snapshot
    <3>2. PICK field \in {"address", "scheme"} :
             reader' = [pc   |-> "idle",
                        pair |-> [reader.pair EXCEPT ![field] = snapshot[field]]]
      BY <2>4 DEF ReadSecond
    <3>3. reader' \in [pc : {"idle", "address", "scheme"}, pair : Snapshot]
      BY <3>1, <3>2
    <3> QED
      BY <2>4, <3>3 DEF IInv, TypeOK, ReadSecond
  <2> QED
    BY <2>1, <2>2, <2>3, <2>4
<1>3. FallbackOrNone' /\ Carried' /\ Seeded'
  BY <1>1 DEF IInv, FallbackOrNone, Carried, Seeded, OneSource
<1> QED
  BY <1>1, <1>2, <1>3 DEF IInv

\* The invariant is inductive.
LEMMA IInvNext ==
  IInv /\ [Next]_vars => IInv' /\ (snapshot.address # "" => snapshot'.address # "")
<1>1. ASSUME IInv, UNCHANGED vars
      PROVE  IInv' /\ snapshot' = snapshot
  <2>1. UNCHANGED <<enabled, tracks, view, fallback, ctxDone, stopped, creator,
                    snapshot, updater, events, open, reader>>
    BY <1>1 DEF vars, conf, chan
  <2>2. TypeOK'
    BY <1>1, <2>1 DEF IInv, TypeOK
  <2>3. FallbackOrNone' /\ Carried' /\ Seeded'
    BY <1>1, <2>1 DEF IInv, FallbackOrNone, Carried, Seeded, OneSource
  <2> QED
    BY <2>1, <2>2, <2>3 DEF IInv
<1> QED
  BY <1>1, CreateKeepsIInv, UpdaterKeepsIInv, OthersKeepIInv DEF Next

-----------------------------------------------------------------------------
\* The invariant of a DynamicResolver.
THEOREM IInvAlways == Spec => []IInv
BY IInvInit, IInvNext, PTL DEF Spec

\* The resolver, its goroutine, its channel and its reader stay in the states of
\* the model; the channel never holds more events than it has room for.
THEOREM TypeCorrect == Spec => []TypeOK
<1>1. IInv => TypeOK
  BY DEF IInv
<1> QED
  BY <1>1, IInvAlways, PTL

\* Whatever the registry answers and whenever, the seed and runResolverUpdates
\* store one endpoint of the tracked view or the fallback, never the address of
\* one with the scheme of the other and never an endpoint of the other view.
THEOREM OneSourceStored == Spec => []SnapshotIsOneSource
<1>1. IInv => SnapshotIsOneSource
  BY DEF IInv, Seeded, SnapshotIsOneSource
<1> QED
  BY <1>1, IInvAlways, PTL

\* Once Address() gives an address it always gives one: no failed refresh, no
\* answer without the tracked view and no late fallback takes it back.
THEOREM AddressStays == Spec => AddressIsNeverLost
<1>1. IInv /\ [Next]_vars => [snapshot.address # "" => snapshot'.address # ""]_vars
  BY IInvNext
<1> QED
  BY <1>1, IInvAlways, PTL DEF Spec, AddressIsNeverLost

-----------------------------------------------------------------------------
\* There is no channel before the watch; the channel is closed, and the goroutine
\* ends, only after the context of the watch has; a resolver that was handed out
\* with service discovery on has its goroutine.
Told ==
    /\ updater.pc = "none" => ~open /\ events = 0
    /\ updater.pc # "none" /\ ~open => WatchDone
    /\ updater.pc = "exited" => WatchDone
    /\ creator = "returned" /\ enabled => updater.pc # "none"

\* A step of the goroutine, which had started and goes on: Exit alone ends it,
\* on a closed channel or on an ended context.
LEMMA UpdaterKeepsTold ==
  ASSUME TypeOK, Told, Updater
  PROVE  Told'
<1>1. UNCHANGED <<enabled, ctxDone, stopped, creator, open>>
  BY DEF Updater, Wake, Exit, Resolved, ResolveFails, Store, conf, chan
<1>2. updater.pc # "none"
  BY DEF Updater, Wake, Exit, Resolved, ResolveFails, Store
<1>3. updater'.pc # "none" /\ (updater'.pc = "exited" => Exit)
  <2>1. CASE Wake \/ Exit \/ Store
    BY <2>1 DEF Wake, Exit, Store, TypeOK
  <2>2. ASSUME NEW svc \in Services, Resolved(svc)
        PROVE  updater'.pc \notin {"none", "exited"}
    BY <2>2 DEF Resolved, TypeOK
  <2>3. CASE ResolveFails
    BY <2>3 DEF ResolveFails, KeepLast, TypeOK
  <2> QED
    BY <2>1, <2>2, <2>3 DEF Updater, Wake, Store, TypeOK
<1>4. updater'.pc = "exited" => WatchDone
  BY <1>2, <1>3 DEF Exit, Told
<1> QED
  BY <1>1, <1>2, <1>3, <1>4 DEF Told, WatchDone

\* The making of the resolver, its channel, and the ends of its context.
LEMMA ToldNext ==
  TypeOK /\ Told /\ [Next]_vars => Told'
<1> SUFFICES ASSUME TypeOK, Told, [Next]_vars PROVE Told'
  OBVIOUS
<1>1. CASE SeedDisabled \/ Seed \/ WatchFailed
  <2>1. UNCHANGED <<enabled, ctxDone, updater, events, open>>
    BY <1>1 DEF SeedDisabled, Seed, WatchFailed, conf, chan
  <2>2. stopped => stopped'
    BY <1>1, Zenon DEF SeedDisabled, Seed, WatchFailed
  <2>3. creator' = "returned" => ~enabled
    BY <1>1 DEF SeedDisabled, Seed, WatchFailed
  <2> QED
    BY <2>1, <2>2, <2>3 DEF Told, WatchDone
<1>2. CASE WatchOpened
  <2>1. /\ updater'.pc = "select" /\ open'
    BY <1>2 DEF WatchOpened, TypeOK
  <2> QED
    BY <2>1 DEF Told
<1>3. CASE Emit
  <2>1. updater.pc # "none"
    BY <1>3 DEF Emit, Told
  <2> QED
    BY <1>3, <2>1 DEF Emit, Told, WatchDone, conf
<1>4. CASE CloseChan \/ CallerEnds \/ Stop
  BY <1>4 DEF CloseChan, CallerEnds, Stop, Told, WatchDone, conf, chan
<1>5. CASE \/ (\E field \in {"address", "scheme"} : ReadFirst(field)) \/ ReadSecond
           \/ UNCHANGED vars
  <2>1. UNCHANGED <<enabled, ctxDone, stopped, creator, updater, events, open>>
    BY <1>5 DEF ReadFirst, ReadSecond, vars, conf, chan
  <2> QED
    BY <2>1 DEF Told, WatchDone
<1> QED
  BY <1>1, <1>2, <1>3, <1>4, <1>5, UpdaterKeepsTold DEF Next, Create

\* A resolver that was handed out with service discovery on is followed by its
\* goroutine, and every event of its channel has that reader, until Stop or the
\* end of the caller's context: no failed refresh and no answer without the
\* tracked view ends it before.
THEOREM EventsHaveAReader ==
  Spec => []((creator = "returned" /\ enabled) \/ open \/ events > 0 =>
                updater.pc \notin {"none", "exited"} \/ WatchDone)
<1>1. Init => Told
  BY DEF Init, Told
<1>2. Told => ((creator = "returned" /\ enabled) \/ open \/ events > 0 =>
                  updater.pc \notin {"none", "exited"} \/ WatchDone)
  BY DEF Told
<1>3. IInv => TypeOK
  BY DEF IInv
<1> QED
  BY <1>1, <1>2, <1>3, ToldNext, IInvAlways, PTL DEF Spec
=============================================================================
