-------------------------- MODULE Heartbeat_proofs --------------------------
(***************************************************************************)
(* Proofs about Heartbeat, for any number of publishers and of faults.     *)
(***************************************************************************)
EXTENDS Heartbeat, TLAPS

AgentState == [reg : Publishers \cup {None}, passing : BOOLEAN]

-----------------------------------------------------------------------------
(* The agent and the faults.                                               *)

\* A fault stays within the budget.
LEMMA FaultCounted ==
  ASSUME faults \in 0..MaxFaults, Fault
  PROVE  faults' \in 0..MaxFaults
BY ConstantsAssumption DEF Fault

\* A registration leaves the agent in one of its states.
LEMMA AgentRegistersType ==
  ASSUME agent \in AgentState, NEW p \in Publishers, AgentRegisters(p)
  PROVE  agent' \in AgentState
<1>1. PICK passing \in {FALSE, agent.passing} :
        agent' = [reg |-> p, passing |-> passing /\ agent.reg # None]
  BY DEF AgentRegisters
<1>2. (passing /\ agent.reg # None) \in BOOLEAN
  OBVIOUS
<1> QED
  BY <1>1, <1>2 DEF AgentState

\* So do a lost registration and a changed check.
LEMMA AgentLoses ==
  /\ [reg |-> None, passing |-> FALSE] \in AgentState
  /\ \A a \in AgentState, b \in BOOLEAN : [a EXCEPT !.passing = b] \in AgentState
BY DEF AgentState

\* Whatever happens, the agent holds a registration of a publisher or none, and
\* the faults stay in their bound.
LEMMA EnvironmentType ==
  ASSUME TypeOK, Next
  PROVE  agent' \in AgentState /\ faults' \in 0..MaxFaults
<1> USE DEF TypeOK
<1>0. agent \in AgentState
  BY DEF AgentState
<1>1. ASSUME NEW p \in Publishers, Pass(p)
      PROVE  agent' \in AgentState /\ faults' \in 0..MaxFaults
  <2>1. CASE BeatFails(p)
    BY <1>0, <2>1, FaultCounted, AgentRegistersType DEF BeatFails
  <2>2. CASE BeatUpdate(p)
    BY <1>0, <2>2, AgentLoses DEF BeatUpdate
  <2>3. CASE BeatReregister(p)
    BY <1>0, <2>3, AgentRegistersType DEF BeatReregister
  <2>4. CASE BeatAgain(p)
    <3>1. (agent.reg # None) \in BOOLEAN
      OBVIOUS
    <3> QED
      BY <1>0, <2>4, <3>1, AgentLoses DEF BeatAgain
  <2> QED
    BY <1>1, <2>1, <2>2, <2>3, <2>4 DEF Pass
<1>2. ASSUME NEW p \in Publishers, PublisherStep(p)
      PROVE  agent' \in AgentState /\ faults' \in 0..MaxFaults
  <2>1. CASE Register(p)
    BY <1>0, <2>1, FaultCounted, AgentRegistersType DEF Register
  <2>2. CASE Attempt(p) \/ Backoff(p) \/ CheckClosed(p) \/ Store(p) \/ Spawn(p)
    BY <1>0, <2>2 DEF Attempt, Backoff, CheckClosed, Store, Spawn, env
  <2> QED
    BY <1>1, <1>2, <2>1, <2>2 DEF PublisherStep
<1>3. ASSUME NEW p \in Publishers, Start(p) \/ CallerEnds(p) \/ LoopStep(p)
      PROVE  agent' \in AgentState /\ faults' \in 0..MaxFaults
  BY <1>0, <1>1, <1>3 DEF Start, CallerEnds, LoopStep, Tick, Exit, env
<1>4. CASE \/ CallDeregister \/ DeregisterCancel \/ CloseManager \/ CloseRegistry
  BY <1>0, <1>4 DEF CallDeregister, DeregisterCancel, CloseManager, CloseRegistry, env
<1>5. CASE DeregisterRemove
  BY <1>0, <1>5, FaultCounted, AgentLoses DEF DeregisterRemove
<1>6. CASE AgentExpires
  <2>1. faults' \in 0..MaxFaults
    BY <1>6, FaultCounted DEF AgentExpires
  <2> QED
    BY <1>0, <1>6, <2>1, AgentLoses DEF AgentExpires
<1>7. CASE AgentReaps
  <2>1. faults' \in 0..MaxFaults
    BY <1>7, FaultCounted DEF AgentReaps
  <2> QED
    BY <1>7, <2>1, AgentLoses DEF AgentReaps
<1>8. CASE AgentRestarts
  BY <1>8, FaultCounted, AgentLoses DEF AgentRestarts
<1> QED
  BY <1>2, <1>3, <1>4, <1>5, <1>6, <1>7, <1>8 DEF Next
-----------------------------------------------------------------------------
(* The goroutines.                                                         *)

PubPc  == {"idle", "attempt", "backoff", "register", "check", "pass", "store",
           "spawn", "done", "failed", "stopped"}
LoopPc == {"none", "wait", "pass", "exited"}

\* What TypeOK says of everything but the agent.
Shape ==
    /\ baseDone \in BOOLEAN
    /\ closed \in BOOLEAN
    /\ heartbeats \in Publishers \cup {None}
    /\ ctx \in [Publishers -> {"none", "live", "cancelled"}]
    /\ pub \in [Publishers -> PubPc]
    /\ loop \in [Publishers -> LoopPc]
    /\ beat \in [Publishers -> {"idle", "update", "reregister", "again"}]
    /\ dereg \in {"idle", "cancel", "remove", "done", "failed"}
    /\ gone \in SUBSET Async
    /\ after \in [Publishers -> BOOLEAN]

\* A pass is made by the goroutine that registers or by the loop, never by both,
\* because the loop starts when the other has returned.
OneGoroutine ==
    \A p \in Publishers :
        /\ beat[p] # "idle" <=> pub[p] = "pass" \/ loop[p] = "pass"
        /\ loop[p] # "none" => pub[p] = "done"

\* A heartbeat's context lives from the first pass to the end of the loop: one
\* that startHeartbeat refuses, or that is cancelled, is not live any more.
ContextOrder ==
    \A p \in Publishers :
        /\ ctx[p] = "live" => \/ pub[p] \in {"pass", "store", "spawn"}
                              \/ loop[p] \in {"wait", "pass"}
        /\ pub[p] \in {"pass", "store", "spawn"} \/ loop[p] # "none"
              => ctx[p] # "none"

IInv ==
    /\ TypeOK
    /\ OneGoroutine
    /\ ContextOrder
    /\ LiveLoopIsTracked
    /\ NoHeartbeatAfterClose

\* IInv without what it says of the agent.
Local ==
    /\ Shape /\ OneGoroutine /\ ContextOrder
    /\ LiveLoopIsTracked /\ NoHeartbeatAfterClose

\* What cancelling a set of contexts does to each of them.
LEMMA CancelledType ==
  ASSUME Shape, NEW cs
  PROVE  /\ Cancelled(cs) \in [Publishers -> {"none", "live", "cancelled"}]
         /\ \A p \in Publishers :
               /\ p \in cs => Cancelled(cs)[p] = "cancelled"
               /\ p \notin cs => Cancelled(cs)[p] = ctx[p]
BY DEF Cancelled, Shape

\* A pass that is over, or goes on to its next request.
LEMMA PassStep ==
  ASSUME Local, NEW p \in Publishers, beat[p] # "idle",
         PassOver(p) \/ \E r \in {"reregister", "again"} : Send(p, r),
         UNCHANGED <<mgr, ctx, dereg, gone, after>>
  PROVE  Local'
<1> USE DEF Local, mgr
<1>1. CASE PassOver(p)
  <2>1. CASE pub[p] = "pass"
    <3>1. /\ beat' = [beat EXCEPT ![p] = "idle"]
          /\ pub' = [pub EXCEPT ![p] = "store"]
          /\ loop' = loop
      BY <1>1, <2>1 DEF PassOver, Shape, OneGoroutine
    <3>2. Shape'
      BY <3>1 DEF Shape, PubPc
    <3> QED
      BY <2>1, <3>1, <3>2
      DEF Shape, OneGoroutine, ContextOrder, LiveLoopIsTracked, NoHeartbeatAfterClose
  <2>2. CASE loop[p] = "pass"
    <3>1. /\ beat' = [beat EXCEPT ![p] = "idle"]
          /\ pub' = pub
          /\ loop' = [loop EXCEPT ![p] = "wait"]
      BY <1>1, <2>2 DEF PassOver, Shape, OneGoroutine
    <3>2. Shape'
      BY <3>1 DEF Shape, LoopPc
    <3> QED
      BY <2>2, <3>1, <3>2
      DEF Shape, OneGoroutine, ContextOrder, LiveLoopIsTracked, NoHeartbeatAfterClose
  <2> QED
    BY <2>1, <2>2 DEF OneGoroutine
<1>2. ASSUME NEW r \in {"reregister", "again"},
             beat' = [beat EXCEPT ![p] = r], UNCHANGED <<pub, loop>>
      PROVE  Local'
  BY <1>2 DEF Shape, OneGoroutine, ContextOrder, LiveLoopIsTracked, NoHeartbeatAfterClose
<1> QED
  BY <1>1, <1>2 DEF Send

\* A pass, of the caller or of the loop, keeps what the goroutines hold.
LEMMA PassKeepsLocal ==
  ASSUME Local, NEW p \in Publishers, Pass(p)
  PROVE  Local'
<1>1. PassOver(p) \/ \E r \in {"reregister", "again"} : Send(p, r)
  BY DEF Pass, BeatFails, BeatUpdate, BeatReregister, BeatAgain, OnUnknown
<1>2. beat[p] # "idle"
  BY DEF Pass, BeatFails, BeatUpdate, BeatReregister, BeatAgain
<1>3. UNCHANGED <<mgr, ctx, dereg, gone, after>>
  BY DEF Pass, BeatFails, BeatUpdate, BeatReregister, BeatAgain
<1> QED
  BY <1>1, <1>2, <1>3, PassStep

\* So does every step of Register and RegisterAsync,
LEMMA PublisherKeepsLocal ==
  ASSUME Local, NEW p \in Publishers,
         Start(p) \/ CallerEnds(p) \/ PublisherStep(p)
  PROVE  Local'
<1> USE DEF Local, mgr, env
<1>1. CASE Start(p)
  <2>1. Shape'
    BY <1>1 DEF Start, Shape, PubPc
  <2> QED
    BY <1>1, <2>1
    DEF Start, Shape, OneGoroutine, ContextOrder, LiveLoopIsTracked, NoHeartbeatAfterClose
<1>2. CASE CallerEnds(p)
  BY <1>2
  DEF CallerEnds, Shape, OneGoroutine, ContextOrder, LiveLoopIsTracked, NoHeartbeatAfterClose
<1>3. CASE Attempt(p) \/ Backoff(p) \/ Register(p)
  <2>1. PICK pc \in {"stopped", "register", "attempt", "check", "failed", "backoff"} :
          /\ pub' = [pub EXCEPT ![p] = pc]
          /\ UNCHANGED <<mgr, ctx, loop, beat, dereg, gone, after>>
    BY <1>3 DEF Attempt, Backoff, Register
  <2>2. pub[p] \in {"attempt", "backoff", "register"}
    BY <1>3 DEF Attempt, Backoff, Register
  <2>3. Shape'
    BY <2>1 DEF Shape, PubPc
  <2> QED
    BY <2>1, <2>2, <2>3
    DEF Shape, OneGoroutine, ContextOrder, LiveLoopIsTracked, NoHeartbeatAfterClose
<1>4. CASE CheckClosed(p)
  <2>1. Shape'
    BY <1>4 DEF CheckClosed, Shape, PubPc
  <2>2. CASE closed
    BY <1>4, <2>1, <2>2
    DEF CheckClosed, Shape, OneGoroutine, ContextOrder, LiveLoopIsTracked,
        NoHeartbeatAfterClose
  <2>3. CASE ~closed
    BY <1>4, <2>1, <2>3
    DEF CheckClosed, Shape, OneGoroutine, ContextOrder, LiveLoopIsTracked,
        NoHeartbeatAfterClose
  <2> QED
    BY <2>2, <2>3
<1>5. CASE Store(p)
  <2>0. pub[p] = "store" /\ loop[p] = "none"
    BY <1>5 DEF Store, OneGoroutine
  <2>1. CASE closed
    <3>1. /\ ctx' = Cancelled({p})
          /\ pub' = [pub EXCEPT ![p] = "done"]
          /\ UNCHANGED <<heartbeats, baseDone, closed, loop, beat, dereg, gone, after>>
      BY <1>5, <2>1 DEF Store, Refused
    <3>2. Shape'
      BY <3>1, CancelledType DEF Shape, PubPc
    <3> QED
      BY <2>0, <3>1, <3>2, CancelledType
      DEF Shape, OneGoroutine, ContextOrder, LiveLoopIsTracked, NoHeartbeatAfterClose
  <2>2. CASE ~closed
    <3>1. /\ ctx' = Cancelled({heartbeats})
          /\ heartbeats' = p
          /\ pub' = [pub EXCEPT ![p] = "spawn"]
          /\ UNCHANGED <<baseDone, closed, loop, beat, dereg, gone, after>>
      BY <1>5, <2>2 DEF Store, Refused, Replaced
    <3>2. Shape'
      BY <3>1, CancelledType DEF Shape, PubPc
    <3> QED
      BY <2>0, <2>2, <3>1, <3>2, CancelledType
      DEF Shape, OneGoroutine, ContextOrder, LiveLoopIsTracked, NoHeartbeatAfterClose
  <2> QED
    BY <2>1, <2>2
<1>6. CASE Spawn(p)
  <2>0. pub[p] = "spawn" /\ loop[p] = "none"
    BY <1>6 DEF Spawn, OneGoroutine
  <2>1. Shape'
    BY <1>6 DEF Spawn, Shape, PubPc, LoopPc
  <2> QED
    BY <1>6, <2>0, <2>1
    DEF Spawn, Shape, OneGoroutine, ContextOrder, LiveLoopIsTracked, NoHeartbeatAfterClose
<1> QED
  BY <1>1, <1>2, <1>3, <1>4, <1>5, <1>6, PassKeepsLocal DEF PublisherStep

\* of a heartbeat loop,
LEMMA LoopKeepsLocal ==
  ASSUME Local, NEW p \in Publishers, LoopStep(p)
  PROVE  Local'
<1> USE DEF Local, mgr, env
<1>1. CASE Tick(p)
  <2>1. Shape'
    BY <1>1 DEF Tick, Shape, LoopPc
  <2> QED
    BY <1>1, <2>1
    DEF Tick, Shape, OneGoroutine, ContextOrder, LiveLoopIsTracked, NoHeartbeatAfterClose
<1>2. CASE Exit(p)
  <2>1. Shape'
    BY <1>2 DEF Exit, Shape, LoopPc
  <2> QED
    BY <1>2, <2>1
    DEF Exit, Shape, OneGoroutine, ContextOrder, LiveLoopIsTracked, NoHeartbeatAfterClose
<1> QED
  BY <1>1, <1>2, PassKeepsLocal DEF LoopStep

\* Deregister and Close cancel the heartbeat in the map, which is the only one
\* that beats.
LEMMA StopKeepsLocal ==
  ASSUME Local,
         \/ CallDeregister \/ DeregisterCancel \/ DeregisterRemove
         \/ CloseManager \/ CloseRegistry
  PROVE  Local'
<1> USE DEF Local, mgr, env
<1>1. CASE CallDeregister \/ DeregisterRemove \/ CloseManager
  <2>1. /\ UNCHANGED <<closed, heartbeats, ctx, pub, loop, beat, gone, after>>
        /\ baseDone' \in BOOLEAN
        /\ dereg' \in {"idle", "cancel", "remove", "done", "failed"}
    BY <1>1 DEF CallDeregister, DeregisterRemove, CloseManager, Shape
  <2> QED
    BY <2>1
    DEF Shape, OneGoroutine, ContextOrder, LiveLoopIsTracked, NoHeartbeatAfterClose
<1>2. CASE DeregisterCancel \/ CloseRegistry
  <2>1. /\ ctx' = Cancelled({heartbeats})
        /\ heartbeats' = None
        /\ closed' \in BOOLEAN
        /\ closed => closed'
        /\ UNCHANGED <<baseDone, pub, loop, beat, gone, after>>
    BY <1>2 DEF DeregisterCancel, CloseRegistry, Stopped, Shape
  <2>2. Shape'
    BY <1>2, <2>1, CancelledType DEF DeregisterCancel, CloseRegistry, Shape
  <2>3. \A q \in Publishers :
           loop[q] \in {"wait", "pass"} \/ pub[q] = "spawn" => ctx'[q] = "cancelled"
    BY <2>1, CancelledType DEF Shape, LiveLoopIsTracked, ContextOrder
  <2>4. \A q \in Publishers : loop[q] = "exited" => ctx'[q] = "cancelled"
    BY <2>1, CancelledType DEF Shape, ContextOrder, OneGoroutine
  <2> QED
    BY <2>1, <2>2, <2>3, <2>4, CancelledType
    DEF Shape, LoopPc, OneGoroutine, ContextOrder, LiveLoopIsTracked, NoHeartbeatAfterClose
<1> QED
  BY <1>1, <1>2

\* and of the agent.
LEMMA AgentKeepsLocal ==
  ASSUME Local, AgentExpires \/ AgentReaps \/ AgentRestarts
  PROVE  Local'
BY DEF AgentExpires, AgentReaps, AgentRestarts, Local, mgr, Shape, OneGoroutine,
       ContextOrder, LiveLoopIsTracked, NoHeartbeatAfterClose

-----------------------------------------------------------------------------
(* The invariant and what follows from it.                                 *)

\* The invariant is that of the agent, the faults and the goroutines.
LEMMA IInvParts ==
  IInv <=> agent \in AgentState /\ faults \in 0..MaxFaults /\ Local
BY DEF IInv, TypeOK, Local, Shape, OneGoroutine, AgentState, PubPc, LoopPc

\* The invariant holds in every initial state.
LEMMA IInvInit ==
  Init => IInv
<1> SUFFICES ASSUME Init PROVE IInv
  OBVIOUS
<1>1. agent \in AgentState /\ faults \in 0..MaxFaults
  BY ConstantsAssumption DEF Init, AgentState
<1>2. Shape
  BY DEF Init, Shape, PubPc, LoopPc
<1>3. OneGoroutine /\ ContextOrder /\ LiveLoopIsTracked /\ NoHeartbeatAfterClose
  BY DEF Init, OneGoroutine, ContextOrder, LiveLoopIsTracked, NoHeartbeatAfterClose
<1> QED
  BY <1>1, <1>2, <1>3, IInvParts DEF Local

\* The invariant is inductive.
LEMMA IInvNext ==
  IInv /\ [Next]_vars => IInv'
<1> SUFFICES ASSUME IInv, [Next]_vars PROVE IInv'
  OBVIOUS
<1>1. Local
  BY IInvParts
<1>2. CASE Next
  <2>1. agent' \in AgentState /\ faults' \in 0..MaxFaults
    BY <1>2, EnvironmentType DEF IInv
  <2>2. Local'
    BY <1>1, <1>2, PublisherKeepsLocal, LoopKeepsLocal, StopKeepsLocal,
       AgentKeepsLocal
    DEF Next
  <2>3. AgentState' = AgentState
    BY DEF AgentState
  <2> QED
    BY <2>1, <2>2
    DEF IInv, TypeOK, Local, Shape, OneGoroutine, AgentState, PubPc, LoopPc
<1>3. CASE UNCHANGED vars
  BY <1>3
  DEF vars, IInv, TypeOK, OneGoroutine, ContextOrder, LiveLoopIsTracked,
      NoHeartbeatAfterClose
<1> QED
  BY <1>2, <1>3

\* The invariant of the heartbeats.
THEOREM IInvAlways == Spec => []IInv
BY IInvInit, IInvNext, PTL DEF Spec

\* The registry, the agent and the goroutines stay in the states of the model;
\* a pass of pass() is in progress exactly while one of them runs it.
THEOREM TypeCorrect == Spec => []TypeOK
<1>1. IInv => TypeOK
  BY DEF IInv
<1> QED
  BY <1>1, IInvAlways, PTL

\* However many goroutines register the ID and however Register, Deregister and
\* Close interleave, startHeartbeat leaves no beating loop behind whose cancel
\* func is not in heartbeats.
THEOREM LoopsTracked == Spec => []LiveLoopIsTracked
<1>1. IInv => LiveLoopIsTracked
  BY DEF IInv
<1> QED
  BY <1>1, IInvAlways, PTL

\* Close wins every race against startHeartbeat: a closed registry stores no
\* heartbeat and every loop it still has is cancelled.
THEOREM NoneAfterClose == Spec => []NoHeartbeatAfterClose
<1>1. IInv => NoHeartbeatAfterClose
  BY DEF IInv
<1> QED
  BY <1>1, IInvAlways, PTL

\* The step of Deregister that takes the cancel func ends the heartbeat of every
\* Register that has returned.
THEOREM ReturnedAreStopped == Spec => DeregisterStopsReturned
<1>1. ASSUME IInv, DeregisterCancel, NEW p \in Publishers, pub[p] = "done"
      PROVE  ctx'[p] # "live"
  <2>1. Local
    BY <1>1, IInvParts
  <2>2. ctx' = Cancelled({heartbeats})
    BY <1>1 DEF DeregisterCancel, Stopped
  <2>3. CASE ctx[p] = "live"
    <3>1. heartbeats = p
      BY <1>1, <2>3 DEF IInv, ContextOrder, LiveLoopIsTracked
    <3> QED
      BY <2>1, <2>2, <3>1, CancelledType DEF Local
  <2>4. CASE ctx[p] # "live"
    BY <2>1, <2>2, <2>4, CancelledType DEF Local
  <2> QED
    BY <2>3, <2>4
<1>2. IInv /\ [Next]_vars =>
        [DeregisterCancel =>
            \A p \in Publishers : pub[p] = "done" => ctx'[p] # "live"]_vars
  BY <1>1
<1> QED
  BY <1>2, IInvAlways, PTL DEF Spec, DeregisterStopsReturned
-----------------------------------------------------------------------------
(* What HeartbeatHeals and AbandonedIsReaped rest on: a heartbeat in the   *)
(* map beats, and nothing beats that is not there or about to be.          *)

\* The heartbeat that heartbeats holds is live, and its loop runs or is about to
\* be spawned; until it is there nobody can cancel it.
StoredBeats ==
    \A p \in Publishers :
        /\ pub[p] \in {"pass", "store"} => ctx[p] = "live" /\ heartbeats # p
        /\ heartbeats = p => /\ ctx[p] = "live"
                             /\ pub[p] = "spawn" \/ loop[p] \in {"wait", "pass"}

\* A pass ends or goes on, and cancels nothing.
LEMMA PassKeepsStored ==
  ASSUME Local, StoredBeats, NEW p \in Publishers, Pass(p)
  PROVE  StoredBeats'
<1> USE DEF Local, Shape, OneGoroutine, StoredBeats
<1>1. PassOver(p) \/ UNCHANGED <<pub, loop>>
  BY DEF Pass, BeatFails, BeatUpdate, BeatReregister, BeatAgain, OnUnknown, Send
<1>2. UNCHANGED <<ctx, heartbeats>> /\ beat[p] # "idle"
  BY DEF Pass, BeatFails, BeatUpdate, BeatReregister, BeatAgain, mgr
<1>3. CASE UNCHANGED <<pub, loop>>
  BY <1>2, <1>3
<1>4. CASE PassOver(p) /\ pub[p] = "pass"
  <2>1. pub' = [pub EXCEPT ![p] = "store"] /\ loop' = loop
    BY <1>4 DEF PassOver
  <2> QED
    BY <1>2, <1>4, <2>1
<1>5. CASE PassOver(p) /\ loop[p] = "pass"
  <2>1. pub' = pub /\ loop' = [loop EXCEPT ![p] = "wait"]
    BY <1>5 DEF PassOver
  <2> QED
    BY <1>2, <1>5, <2>1
<1> QED
  BY <1>1, <1>2, <1>3, <1>4, <1>5

\* Register stores a heartbeat that is live, and cancels only the one it replaces.
LEMMA PublisherKeepsStored ==
  ASSUME Local, StoredBeats, NEW p \in Publishers,
         Start(p) \/ CallerEnds(p) \/ PublisherStep(p)
  PROVE  StoredBeats'
<1> USE DEF Local, Shape, OneGoroutine, StoredBeats, mgr, env
<1>1. CASE \/ Start(p) \/ CallerEnds(p) \/ Attempt(p) \/ Backoff(p) \/ Register(p)
  <2>1. /\ UNCHANGED <<ctx, heartbeats, loop>>
        /\ \A q \in Publishers : pub'[q] # pub[q] =>
              /\ pub[q] \in {"idle", "attempt", "backoff", "register"}
              /\ pub'[q] \notin {"pass", "store"}
    BY <1>1 DEF Start, CallerEnds, Attempt, Backoff, Register
  <2> QED
    BY <2>1
<1>2. CASE CheckClosed(p)
  <2>1. pub[p] = "check" /\ loop[p] = "none" /\ UNCHANGED <<heartbeats, loop>>
    BY <1>2 DEF CheckClosed
  <2>2. CASE closed
    BY <1>2, <2>1, <2>2 DEF CheckClosed
  <2>3. CASE ~closed
    <3>1. ctx' = [ctx EXCEPT ![p] = "live"] /\ pub' = [pub EXCEPT ![p] = "pass"]
      BY <1>2, <2>3 DEF CheckClosed
    <3> QED
      BY <2>1, <3>1
  <2> QED
    BY <2>2, <2>3
<1>3. CASE Store(p)
  <2>1. pub[p] = "store" /\ loop' = loop
    BY <1>3 DEF Store
  <2>2. CASE closed
    <3>1. /\ ctx' = Cancelled({p}) /\ pub' = [pub EXCEPT ![p] = "done"]
          /\ heartbeats' = heartbeats
      BY <1>3, <2>2 DEF Store, Refused
    <3> QED
      BY <2>1, <3>1, CancelledType
  <2>3. CASE ~closed
    <3>1. /\ ctx' = Cancelled({heartbeats}) /\ pub' = [pub EXCEPT ![p] = "spawn"]
          /\ heartbeats' = p
      BY <1>3, <2>3 DEF Store, Refused, Replaced
    <3> QED
      BY <2>1, <3>1, CancelledType
  <2> QED
    BY <2>2, <2>3
<1>4. CASE Spawn(p)
  <2>1. /\ UNCHANGED <<ctx, heartbeats>>
        /\ pub' = [pub EXCEPT ![p] = "done"] /\ loop' = [loop EXCEPT ![p] = "wait"]
    BY <1>4 DEF Spawn
  <2> QED
    BY <2>1
<1> QED
  BY <1>1, <1>2, <1>3, <1>4, PassKeepsStored DEF PublisherStep

\* The loop of the stored heartbeat is not told to end.
LEMMA LoopKeepsStored ==
  ASSUME Local, StoredBeats, NEW p \in Publishers, LoopStep(p)
  PROVE  StoredBeats'
<1>1. CASE Tick(p)
  BY <1>1 DEF Tick, mgr, Local, Shape, StoredBeats
<1>2. CASE Exit(p)
  BY <1>2 DEF Exit, mgr, Local, Shape, StoredBeats
<1> QED
  BY <1>1, <1>2, PassKeepsStored DEF LoopStep

\* Whoever cancels the stored heartbeat takes it out of the map.
LEMMA StoredBeatsNext ==
  IInv /\ StoredBeats /\ [Next]_vars => StoredBeats'
<1> SUFFICES ASSUME IInv, StoredBeats, [Next]_vars PROVE StoredBeats'
  OBVIOUS
<1>0. Local
  BY IInvParts
<1>1. CASE DeregisterCancel \/ CloseRegistry
  <2>1. /\ ctx' = Cancelled({heartbeats}) /\ heartbeats' = None
        /\ UNCHANGED <<pub, loop>>
    BY <1>1 DEF DeregisterCancel, CloseRegistry, Stopped
  <2> QED
    <3>1. \A q \in Publishers :
             /\ q # heartbeats => ctx'[q] = ctx[q]
             /\ heartbeats' # q
      BY <1>0, <2>1, CancelledType, ConstantsAssumption DEF Local
    <3> QED
      BY <2>1, <3>1 DEF StoredBeats
<1>2. CASE \/ CallDeregister \/ DeregisterRemove \/ CloseManager
           \/ AgentExpires \/ AgentReaps \/ AgentRestarts \/ UNCHANGED vars
  <2>1. UNCHANGED <<ctx, heartbeats, pub, loop>>
    BY <1>2 DEF CallDeregister, DeregisterRemove, CloseManager, AgentExpires,
       AgentReaps, AgentRestarts, vars, mgr
  <2> QED
    BY <2>1 DEF StoredBeats
<1> QED
  BY <1>0, <1>1, <1>2, PublisherKeepsStored, LoopKeepsStored DEF Next

\* What Deregister and Close can stop is worth stopping: the cancel func in
\* heartbeats is never one of a loop that has ended, was cancelled or was never
\* spawned, whatever Registers, Deregister and Close have raced before.
THEOREM StoredHeartbeatBeats == Spec => []StoredBeats
<1>1. ASSUME Init PROVE StoredBeats
  <2>1. \A p \in Publishers : pub[p] = "idle" /\ heartbeats # p
    BY <1>1, ConstantsAssumption DEF Init
  <2> QED
    BY <2>1 DEF StoredBeats
<1> QED
  BY <1>1, IInvAlways, StoredBeatsNext, PTL DEF Spec

\* A registration that no heartbeat stands for is not kept alive: when no Register
\* is under way and heartbeats is empty, nothing beats, and the agent's reaping of
\* what is left is no fault.
THEOREM AbandonedIsNotMaintained ==
  Spec => [](heartbeats = None /\ ~Registering => ~Maintained)
<1>1. IInv => (heartbeats = None /\ ~Registering => ~Maintained)
  <2> SUFFICES ASSUME IInv, heartbeats = None, NEW p \in Publishers, ctx[p] = "live"
               PROVE  Registering
    BY DEF Maintained
  <2>1. ~(loop[p] \in {"wait", "pass"})
    BY ConstantsAssumption DEF IInv, LiveLoopIsTracked
  <2>2. pub[p] \in {"pass", "store", "spawn"}
    BY <2>1 DEF IInv, ContextOrder
  <2> QED
    BY <2>2 DEF Registering
<1> QED
  BY <1>1, IInvAlways, PTL
=============================================================================
