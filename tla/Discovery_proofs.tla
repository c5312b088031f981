-------------------------- MODULE Discovery_proofs --------------------------
(***************************************************************************)
(* Proofs about Discovery: the watch loop and the cache together, for any  *)
(* instances, any channel capacity and any bounds. What the loop's own     *)
(* steps keep is taken from ConsulWatch_proofs.                            *)
(***************************************************************************)
EXTENDS Discovery, ConsulWatch_proofs

\* The loop does not run before the seed is over.
SeedFirst == ~Watching => pc = "top" /\ lastIndex = 0

\* Nothing but the end of the context ends the loop or the refresher.
OnlyToldToEnd == pc = "exited" \/ task = "exited" => ctxDone

\* An event is waiting, or the refresher has been woken by one and is about to
\* look at the catalog, or it has looked: then, if the leader answered, what it
\* is about to install or has installed is what the catalog gives now.
Informed ==
    \/ ch # <<>>
    \/ task = "resolve"
    \/ task = "install" /\ (last = "fresh" => learned[Name] \subseteq Picks(health))
    \/ task = "select"  /\ (last = "fresh" => cache[Name] \in Picks(health))

\* The loop has sent at least one event about the present catalog: it is level
\* with it, or it is half way through sending it.
HasTold ==
    \/ Level /\ Present(health) # {}
    \/ /\ pc = "emit" /\ resp.epoch = epoch /\ resp.index = index
       /\ pending # Present(resp.health)

ToldIsLookedUp == HasTold /\ ~ctxDone => Informed

DInv == DTypeOK /\ IInv /\ SeedFirst /\ OnlyToldToEnd /\ ToldIsLookedUp
-----------------------------------------------------------------------------
(* The parts of the state that one step does not touch.                    *)

OwnType ==
    /\ cache \in [{Name} -> Instances \cup {NoInstance}]
    /\ learned \in [{Name} -> SUBSET (Instances \cup {NoInstance})]
    /\ task \in {"seed", "seeded", "select", "resolve", "install", "exited"}
    /\ last \in {"fresh", "stale", "failed"}

\* IInv speaks of the loop's variables only, and DTypeOK adds the refresher's.
LEMMA DInvParts ==
  DInv <=> IInv /\ OwnType /\ SeedFirst /\ OnlyToldToEnd /\ ToldIsLookedUp
BY DEF DInv, DTypeOK, OwnType, IInv

\* A step of the refresher alone leaves the loop's invariant.
LEMMA VarsKeepIInv ==
  ASSUME IInv, UNCHANGED vars
  PROVE  IInv'
BY IInvNext

\* What Lookup finds at a catalog is instances of it that pass, or none.
LEMMA FindsType ==
  ASSUME TypeOK, NEW how \in {"fresh", "stale"}, NEW v \in Finds(how)
  PROVE  v \in Instances \cup {NoInstance}
<1>1. \A h \in Catalogs : Picks(h) \subseteq Instances \cup {NoInstance}
  BY DEF Picks, Passing
<1>2. health \in Catalogs
  BY DEF TypeOK, Catalogs
<1>3. CASE how = "fresh"
  BY <1>1, <1>2, <1>3 DEF Finds
<1>4. CASE how = "stale"
  <2>1. v \in UNION {Picks(h) : h \in Catalogs}
    BY <1>4 DEF Finds
  <2>2. PICK h \in Catalogs : v \in Picks(h)
    BY <2>1
  <2> QED
    BY <1>1, <2>2
<1> QED
  BY <1>3, <1>4

\* The invariant holds in every initial state.
LEMMA DInvInit == DInit => DInv
<1> SUFFICES ASSUME DInit PROVE DInv
  OBVIOUS
<1>1. IInv
  BY IInvInit DEF DInit
<1>2. OwnType
  BY DEF DInit, LKG!Init, OwnType
<1>3. pc = "top" /\ lastIndex = 0 /\ index = 1 /\ task = "seed"
  BY DEF DInit, Init
<1> QED
  BY <1>1, <1>2, <1>3, DInvParts
  DEF SeedFirst, OnlyToldToEnd, ToldIsLookedUp, HasTold, Level

-----------------------------------------------------------------------------
(* The server and the loop.                                                *)

\* Of a catalog that has just changed, or of a new life of the server, the loop
\* has told nothing.
LEMMA ServerKeepsTold ==
  ASSUME DInv, UNCHANGED own,
         \/ \E i \in Instances, h \in Health : Change(i, h)
         \/ ServerDown \/ ServerUp \/ ServerRestart \/ Cancel
  PROVE  SeedFirst' /\ OnlyToldToEnd' /\ ToldIsLookedUp'
<1> USE DEF DInv, IInv, own
<1>1. CASE (\E i \in Instances, h \in Health : Change(i, h)) \/ ServerRestart
  <2>1. /\ UNCHANGED <<ctxDone, pc, lastIndex, resp, pending, base>>
        /\ \/ index' = index + 1 /\ epoch' = epoch
           \/ epoch' = epoch + 1
    BY <1>1 DEF Change, ServerRestart
  <2>2. /\ index \in Nat /\ lastIndex \in Nat /\ resp.index \in Nat
        /\ epoch \in Nat /\ base \in Nat /\ resp.epoch \in Nat
    BY BoundsType DEF TypeOK
  <2>3. ~HasTold'
    BY <2>1, <2>2 DEF HasTold, Level, NotFromFuture, AnswerIsOfServer
  <2> QED
    BY <2>1, <2>3 DEF SeedFirst, Watching, OnlyToldToEnd, ToldIsLookedUp
<1>2. CASE ServerDown \/ ServerUp \/ Cancel
  <2>1. /\ UNCHANGED <<health, index, epoch, pc, lastIndex, resp, pending, ch, base>>
        /\ ctxDone => ctxDone'
    BY <1>2 DEF ServerDown, ServerUp, Cancel, server
  <2> QED
    BY <2>1
    DEF SeedFirst, Watching, OnlyToldToEnd, ToldIsLookedUp, HasTold, Level,
        Informed, Present, Picks, Passing
<1> QED
  BY <1>1, <1>2

\* Polling and pausing tell nothing and forget nothing.
LEMMA PollKeepsTold ==
  ASSUME DInv, UNCHANGED own, Watching,
         Top \/ Answered \/ AnsweredStale \/ Stuck \/ Failed \/ Backoff
  PROVE  SeedFirst' /\ OnlyToldToEnd' /\ ToldIsLookedUp'
<1> USE DEF DInv, own
<1>1. /\ UNCHANGED <<health, index, epoch, ctxDone, lastIndex, pending, ch, base>>
      /\ pc \notin {"emit", "exited"} /\ pc' # "emit"
      /\ pc' = "exited" => ctxDone
  BY DEF Top, Answered, AnsweredStale, Stuck, Failed, Backoff, server
<1> QED
  BY <1>1
  DEF SeedFirst, Watching, OnlyToldToEnd, ToldIsLookedUp, HasTold, Level,
      Informed, Present, Picks, Passing

\* An answer that is handled either tells at once or was told before.
LEMMA HandleKeepsTold ==
  ASSUME DInv, UNCHANGED own, Watching, Handle
  PROVE  SeedFirst' /\ OnlyToldToEnd' /\ ToldIsLookedUp'
<1> USE DEF DInv, IInv, own
<1>0. /\ pc = "handle" /\ pc' \in {"emit", "top"}
      /\ UNCHANGED <<health, index, epoch, ctxDone, ch>>
      /\ index \in Nat /\ index # 0 /\ lastIndex \in Nat /\ resp.index \in Nat
  BY BoundsType DEF Handle, server, TypeOK
<1>1. SeedFirst' /\ OnlyToldToEnd'
  BY <1>0 DEF SeedFirst, Watching, OnlyToldToEnd
<1>2. HasTold' => HasTold
  <2>1. CASE resp.index > lastIndex
    <3>1. pc' = "emit" /\ pending' = Present(resp.health) /\ resp' = resp
      BY <2>1 DEF Handle
    <3> QED
      BY <3>1 DEF HasTold, Level, Present
  <2>2. CASE resp.index = lastIndex
    <3>1. lastIndex' = lastIndex /\ base' = base /\ pc' = "top"
      BY <1>0, <2>2 DEF Handle, NextIndex
    <3> QED
      BY <1>0, <3>1 DEF HasTold, Level, Present
  <2>3. CASE resp.index < lastIndex
    <3>1. lastIndex' = 0 /\ pc' = "top"
      BY <1>0, <2>3 DEF Handle, NextIndex
    <3> QED
      BY <1>0, <3>1 DEF HasTold, Level
  <2> QED
    BY <1>0, <2>1, <2>2, <2>3
<1>3. Informed' <=> Informed
  BY <1>0 DEF Informed, Picks, Passing
<1> QED
  BY <1>0, <1>1, <1>2, <1>3 DEF ToldIsLookedUp

\* A send leaves an event in the channel; after the last one the loop is level
\* with a catalog about which it has sent one, unless it is empty.
LEMMA EmitKeepsTold ==
  ASSUME DInv, UNCHANGED own, Watching,
         (\E i \in Instances : Emit(i)) \/ EmitInterrupted \/ EmitDone
  PROVE  SeedFirst' /\ OnlyToldToEnd' /\ ToldIsLookedUp'
<1> USE DEF DInv, IInv, own
<1>1. ASSUME NEW i \in Instances, Emit(i)
      PROVE  SeedFirst' /\ OnlyToldToEnd' /\ ToldIsLookedUp'
  <2>1. /\ pc = "emit" /\ pc' = "emit" /\ ctxDone' = ctxDone
        /\ ch' = Append(ch, [type |-> EventType(resp.health[i]), inst |-> i])
    BY <1>1 DEF Emit
  <2>2. ch \in Seq(Entry)
    BY DEF TypeOK
  <2>3. ch' # <<>>
    BY <2>1, <2>2
  <2> QED
    BY <2>1, <2>3 DEF SeedFirst, Watching, OnlyToldToEnd, ToldIsLookedUp, Informed
<1>2. CASE EmitInterrupted
  <2>1. ctxDone /\ ctxDone' = ctxDone
    BY <1>2 DEF EmitInterrupted, Interruptible
  <2> QED
    BY <2>1 DEF SeedFirst, Watching, OnlyToldToEnd, ToldIsLookedUp
<1>3. CASE EmitDone
  <2>1. /\ pc = "emit" /\ pc' = "top" /\ pending = {}
        /\ UNCHANGED <<health, index, epoch, ctxDone, lastIndex, ch, base>>
    BY <1>3 DEF EmitDone, server
  <2>2. HasTold' => HasTold
    <3> SUFFICES ASSUME HasTold' PROVE HasTold
      OBVIOUS
    <3>1. Present(health) # {} /\ lastIndex = index /\ base = epoch
      BY <2>1 DEF HasTold, Level, Present
    <3>2. resp.epoch = epoch /\ resp.index = index
      BY <2>1, <3>1 DEF EmitsAnswer
    <3>3. resp.health = health
      BY <2>1, <3>2 DEF AnswerIsOfServer
    <3> QED
      BY <2>1, <3>1, <3>2, <3>3 DEF HasTold
  <2>3. Informed' <=> Informed
    BY <2>1 DEF Informed, Picks, Passing
  <2> QED
    BY <2>1, <2>2, <2>3 DEF SeedFirst, Watching, OnlyToldToEnd, ToldIsLookedUp
<1> QED
  BY <1>1, <1>2, <1>3

\* Every step of the server, the caller and the loop.
LEMMA LoopKeepsDInv ==
  ASSUME DInv, UNCHANGED own,
         \/ \E i \in Instances, h \in Health : Change(i, h)
         \/ ServerDown \/ ServerUp \/ ServerRestart \/ Cancel
         \/ Watching /\ (LoopStep \/ AnsweredStale \/ Stuck)
  PROVE  DInv'
<1>1. Next
  BY DEF Next
<1>2. IInv'
  BY <1>1, IInvNext DEF DInv
<1>3. OwnType'
  BY DInvParts DEF OwnType, own
<1>4. SeedFirst' /\ OnlyToldToEnd' /\ ToldIsLookedUp'
  BY ServerKeepsTold, PollKeepsTold, HandleKeepsTold, EmitKeepsTold DEF LoopStep
<1> QED
  BY <1>2, <1>3, <1>4
  DEF DInv, DTypeOK, OwnType, IInv

-----------------------------------------------------------------------------
(* The refresher.                                                          *)

\* A lookup is the seed's, or a refresh's: then what it learns of the leader is
\* what the catalog gives.
LEMMA LookupKeepsDInv ==
  ASSUME DInv, NEW how \in {"fresh", "stale"}, Lookup(how)
  PROVE  DInv'
<1> USE DEF DInv
<1>0. IInv' /\ TypeOK /\ OwnType /\ UNCHANGED vars
  BY DInvParts, VarsKeepIInv DEF Lookup, DTypeOK
<1>1. PICK v \in Finds(how) :
        \/ /\ task = "seed" /\ task' = "select"
           /\ UNCHANGED <<cache, learned>>
        \/ /\ task = "seed" /\ task' = "seeded"
           /\ LKG!Learn(Name, v)
        \/ /\ task = "resolve" /\ task' = "install"
           /\ LKG!Learn(Name, v)
  BY DEF Lookup
<1>2. last' = how
  BY DEF Lookup
<1>3. v \in Instances \cup {NoInstance}
  BY <1>0, FindsType
<1>4. LKG!Learn(Name, v) =>
        /\ learned' = [learned EXCEPT ![Name] = {v}]
        /\ cache' = cache
  BY DEF LKG!Learn
<1>5. OwnType'
  BY <1>0, <1>1, <1>2, <1>3, <1>4 DEF OwnType
<1>6. UNCHANGED <<health, index, epoch, ctxDone, pc, lastIndex, resp, pending, ch, base>>
  BY <1>0 DEF vars, server
<1>7. SeedFirst' /\ OnlyToldToEnd'
  BY <1>1, <1>6 DEF SeedFirst, Watching, OnlyToldToEnd
<1>8. ToldIsLookedUp'
  <2>1. CASE task = "seed"
    <3>1. pc = "top" /\ lastIndex = 0 /\ index # 0
      BY <1>0, <2>1, BoundsType DEF SeedFirst, Watching, TypeOK
    <3> QED
      BY <1>6, <3>1 DEF ToldIsLookedUp, HasTold, Level
  <2>2. CASE task = "resolve"
    <3>1. task' = "install" /\ learned'[Name] = {v}
      BY <1>0, <1>1, <1>4, <2>2 DEF OwnType
    <3>2. last' = "fresh" => v \in Picks(health)'
      BY <1>2, <1>6 DEF Finds, Picks, Passing
    <3>3. last' = "fresh" => learned'[Name] \subseteq Picks(health)'
      BY <3>1, <3>2
    <3>4. Informed'
      BY <3>1, <3>3 DEF Informed
    <3> QED
      BY <3>4 DEF ToldIsLookedUp
  <2> QED
    BY <1>1, <2>1, <2>2
<1> QED
  BY <1>0, <1>5, <1>7, <1>8 DEF DTypeOK, OwnType, IInv

\* The refresher installs what it has learned.
LEMMA InstallKeepsDInv ==
  ASSUME DInv, Install
  PROVE  DInv'
<1> USE DEF DInv
<1>0. IInv' /\ OwnType /\ UNCHANGED vars /\ last' = last
  BY DInvParts, VarsKeepIInv DEF Install
<1>1. PICK v \in learned[Name] : /\ cache' = [cache EXCEPT ![Name] = v]
                                 /\ learned' = [learned EXCEPT ![Name] = {}]
  BY DEF Install, LKG!Install
<1>2. task \in {"seeded", "install"} /\ task' = "select"
  BY DEF Install
<1>3. OwnType'
  BY <1>0, <1>1, <1>2 DEF OwnType
<1>4. UNCHANGED <<health, index, epoch, ctxDone, pc, lastIndex, resp, pending, ch, base>>
  BY <1>0 DEF vars, server
<1>5. SeedFirst' /\ OnlyToldToEnd'
  BY <1>2, <1>4 DEF SeedFirst, Watching, OnlyToldToEnd
<1>6. ToldIsLookedUp'
  <2>1. CASE task = "seeded"
    <3>1. pc = "top" /\ lastIndex = 0 /\ index # 0
      BY <2>1, BoundsType DEF SeedFirst, Watching, DTypeOK, TypeOK
    <3> QED
      BY <1>4, <3>1 DEF ToldIsLookedUp, HasTold, Level
  <2>2. CASE task = "install"
    <3>1. cache'[Name] = v
      BY <1>0, <1>1 DEF OwnType
    <3>2. HasTold' <=> HasTold
      BY <1>4 DEF HasTold, Level, Present
    <3>3. Picks(health)' = Picks(health)
      BY <1>4 DEF Picks, Passing
    <3>4. Informed => Informed'
      BY <1>0, <1>1, <1>2, <1>4, <2>2, <3>1, <3>3 DEF Informed
    <3> QED
      BY <1>4, <3>2, <3>4 DEF ToldIsLookedUp
  <2> QED
    BY <1>2, <2>1, <2>2
<1> QED
  BY <1>0, <1>3, <1>5, <1>6 DEF DTypeOK, OwnType, IInv

\* Taking an event leaves the refresher about to look at the catalog.
LEMMA WakeKeepsDInv ==
  ASSUME DInv, Wake
  PROVE  DInv'
<1> USE DEF DInv
<1>0. /\ UNCHANGED <<health, index, epoch, up, ctxDone, pc, lastIndex, attempt,
                     resp, pending, base, told, cache, learned, last>>
      /\ ch # <<>> /\ ch' = Tail(ch)
      /\ task = "select" /\ task' = "resolve"
  BY DEF Wake, NeedsRefresh, server
<1>1. TypeOK'
  <2>1. ch \in Seq(Entry) /\ Len(ch) <= ChanCap
    BY DEF DTypeOK, TypeOK
  <2>2. ch' \in Seq(Entry) /\ Len(ch') = Len(ch) - 1
    BY <1>0, <2>1
  <2>3. Len(ch') <= ChanCap
    BY <2>1, <2>2, BoundsType
  <2> QED
    BY <1>0, <2>2, <2>3 DEF DTypeOK, TypeOK
<1>2. IInv'
  BY <1>0, <1>1
  DEF IInv, NotFromFuture, AnswerIsOfServer, EmitsAnswer, AnnouncedIsCatalog,
      Level, Present
<1>3. DTypeOK'
  BY <1>0, <1>1 DEF DTypeOK
<1> QED
  BY <1>0, <1>2, <1>3
  DEF SeedFirst, Watching, OnlyToldToEnd, ToldIsLookedUp, Informed

\* A lookup that fails, and the end of the refresher.
LEMMA EndKeepsDInv ==
  ASSUME DInv, LookupFails \/ Exit
  PROVE  DInv'
<1> USE DEF DInv
<1>0. /\ IInv' /\ OwnType /\ UNCHANGED <<vars, cache, learned>>
      /\ \/ /\ task \in {"seed", "resolve"} /\ task' = "select"
            /\ last' = "failed"
         \/ task = "select" /\ task' = "exited" /\ last' = last /\ ctxDone
  BY DInvParts, VarsKeepIInv DEF LookupFails, Exit, OnlyToldToEnd
<1>1. UNCHANGED <<health, index, epoch, ctxDone, pc, lastIndex, resp, pending, ch, base>>
  BY <1>0 DEF vars, server
<1>2. OwnType'
  BY <1>0 DEF OwnType
<1>3. SeedFirst' /\ OnlyToldToEnd'
  BY <1>0, <1>1 DEF SeedFirst, Watching, OnlyToldToEnd
<1>4. ToldIsLookedUp'
  BY <1>0, <1>1 DEF ToldIsLookedUp, Informed
<1> QED
  BY <1>0, <1>2, <1>3, <1>4 DEF DTypeOK, OwnType, IInv

\* The invariant is inductive.
LEMMA DInvNext == DInv /\ [DNext]_dvars => DInv'
<1> SUFFICES ASSUME DInv, [DNext]_dvars PROVE DInv'
  OBVIOUS
<1>1. CASE Refresher
  BY <1>1, LookupKeepsDInv, InstallKeepsDInv, WakeKeepsDInv, EndKeepsDInv
  DEF Refresher
<1>2. CASE DNext /\ ~Refresher
  BY <1>2, LoopKeepsDInv DEF DNext
<1>3. CASE UNCHANGED dvars
  <2>1. IInv'
    BY <1>3, VarsKeepIInv DEF dvars, DInv
  <2>2. UNCHANGED <<vars, cache, learned, task, last>>
    BY <1>3 DEF dvars, own
  <2>3. OwnType'
    BY <2>2, DInvParts DEF OwnType
  <2>4. SeedFirst' /\ OnlyToldToEnd' /\ ToldIsLookedUp'
    BY <2>2
    DEF DInv, vars, server, SeedFirst, Watching, OnlyToldToEnd, ToldIsLookedUp,
        HasTold, Level, Present, Informed, Picks, Passing
  <2> QED
    BY <2>1, <2>3, <2>4 DEF DInv, DTypeOK, OwnType, IInv
<1> QED
  BY <1>1, <1>2, <1>3

-----------------------------------------------------------------------------
\* The invariant of the loop and the cache together.
THEOREM DInvAlways == DSpec => []DInv
BY DInvInit, DInvNext, PTL DEF DSpec

\* The loop keeps the types of its own proof when the refresher of a managed
\* resolver consumes its events, and the refresher and the cache keep theirs.
THEOREM DTypeCorrect == DSpec => []DTypeOK
<1>1. DInv => DTypeOK
  BY DEF DInv
<1> QED
  BY <1>1, DInvAlways, PTL

\* Whenever the catalog changed, during the seed, between the seed and the first
\* poll, or while a refresh was under way: when all is quiet and the leader
\* answered last, the cache holds an instance that passes, or none if none does.
THEOREM QuietCacheIsCurrent == DSpec => []SettledIsCurrent
<1>1. DInv => SettledIsCurrent
  <2> SUFFICES ASSUME DInv, Settled, Present(health) # {}
               PROVE  IF Current = NoInstance
                      THEN \A i \in Instances : health[i] # "passing"
                      ELSE health[Current] = "passing"
    BY DEF SettledIsCurrent
  <2>1. Informed
    BY DEF DInv, ToldIsLookedUp, HasTold, Settled
  <2>2. Current \in Picks(health)
    BY <2>1 DEF Informed, Settled, Current
  <2> QED
    BY <2>2, InstancesAssumption DEF Picks, Passing
<1> QED
  BY <1>1, DInvAlways, PTL

\* No announcement is lost on the way to the cache: once the watch loop has sent an
\* event about the present catalog, and at every moment from then on, an event is
\* waiting, a lookup is to come, or the last lookup gave what the catalog gives
\* now, whatever failed or changed before. Only the end of the context ends the two
\* goroutines.
THEOREM AnnouncedIsLookedUp ==
  DSpec => [](/\ HasTold /\ ~ctxDone => Informed
              /\ pc = "exited" \/ task = "exited" => ctxDone)
<1>1. DInv => /\ HasTold /\ ~ctxDone => Informed
              /\ pc = "exited" \/ task = "exited" => ctxDone
  BY DEF DInv, ToldIsLookedUp, OnlyToldToEnd
<1> QED
  BY <1>1, DInvAlways, PTL

-----------------------------------------------------------------------------
(* The cache in the composed system, and the abstract one.                 *)

\* Whatever catalog a lookup is answered from, it finds a content of the cache.
LEMMA FoundIsContent ==
  ASSUME NEW how, NEW v \in Finds(how)
  PROVE  v \in LKG!Contents
BY DEF Finds, Picks, Passing, LKG!Contents

\* A refresher's step is one of the abstract cache, or none of it.
LEMMA RefresherIsLKG == Refresher => [LKG!Next]_(LKG!vars)
<1>1. ASSUME NEW how, Lookup(how) PROVE [LKG!Next]_(LKG!vars)
  <2>1. PICK v \in Finds(how) : LKG!Learn(Name, v) \/ UNCHANGED <<cache, learned>>
    BY <1>1 DEF Lookup
  <2>2. CASE LKG!Learn(Name, v)
    BY <2>2, FoundIsContent DEF LKG!Next
  <2>3. CASE UNCHANGED <<cache, learned>>
    BY <2>3 DEF LKG!vars
  <2> QED
    BY <2>1, <2>2, <2>3
<1>2. CASE Install
  BY <1>2 DEF Install, LKG!Next
<1>3. CASE LookupFails \/ Wake \/ Exit
  BY <1>3 DEF LookupFails, Wake, Exit, LKG!vars
<1> QED
  BY <1>1, <1>2, <1>3 DEF Refresher

\* The cache that Discovery puts in the place of a managed resolver is a
\* LastKnownGood, as that of ManagedResolver is: nothing the server, the watch
\* loop or the end of the context does moves it, and the refresher moves it only
\* to what a lookup has answered, one answer at a time.
THEOREM CacheIsOfLKG == DSpec => LKG!Spec
<1>1. DInit => LKG!Init
  BY DEF DInit
<1>2. [DNext]_dvars => [LKG!Next]_(LKG!vars)
  <2>1. CASE Refresher
    BY <2>1, RefresherIsLKG
  <2>2. CASE UNCHANGED own
    BY <2>2 DEF own, LKG!vars
  <2>3. UNCHANGED dvars => UNCHANGED own
    BY DEF dvars
  <2> QED
    BY <2>1, <2>2, <2>3 DEF DNext
<1> QED
  BY <1>1, <1>2, PTL DEF DSpec, LKG!Spec
=============================================================================
