----------------------------- MODULE Heartbeat -----------------------------
(***************************************************************************)
(* Registration of one service ID with a TTL check: Register,              *)
(* startHeartbeat, Deregister and Close of the Consul backend              *)
(* (src/consul.go), with Manager.RegisterAsync and Manager.Close           *)
(* (src/manager.go) above them.                                            *)
(*                                                                         *)
(* Several goroutines register the same ID. Each success makes a first     *)
(* pass on the caller's goroutine and then spawns a loop that beats; a     *)
(* beat that finds the check gone registers the service again. The map     *)
(* heartbeats holds the cancel func of the one heartbeat Deregister and    *)
(* Close can stop. A cancel func is named by the Register that made it.    *)
(*                                                                         *)
(* A pc that names a request means the request has been sent: cancelling   *)
(* its context may or may not keep it from reaching the agent.             *)
(***************************************************************************)
EXTENDS Naturals

CONSTANTS
    Publishers,  \* goroutines that register the ID
    Async,       \* those of them that run RegisterAsync's retry loop
    MaxFaults    \* bound on what the agent and the network do wrong

None == "none"

ASSUME ConstantsAssumption ==
    /\ Async \subseteq Publishers
    /\ None \notin Publishers
    /\ MaxFaults \in Nat

VARIABLES
    agent,       \* the Consul agent: whose registration it holds, is it passing
    faults,      \* faults so far
    baseDone,    \* Manager.baseCtx has been cancelled
    closed,      \* consulRegistry.closed
    heartbeats,  \* consulRegistry.heartbeats[ID]
    ctx,         \* per publisher: the context of its heartbeat
    pub,         \* per publisher: the goroutine that registers
    loop,        \* per publisher: its heartbeat goroutine
    beat,        \* per publisher: the pass in progress, of either of these two
    dereg,       \* the goroutine that calls Deregister
    gone,        \* async publishers whose caller has ended its context
    after        \* history: publishers whose Register came after Deregister

env  == <<agent, faults>>
mgr  == <<baseDone, closed, heartbeats>>
vars == <<agent, faults, baseDone, closed, heartbeats, ctx, pub, loop, beat,
          dereg, gone, after>>

TypeOK ==
    /\ agent \in [reg : Publishers \cup {None}, passing : BOOLEAN]
    /\ faults \in 0..MaxFaults
    /\ baseDone \in BOOLEAN
    /\ closed \in BOOLEAN
    /\ heartbeats \in Publishers \cup {None}
    /\ ctx \in [Publishers -> {"none", "live", "cancelled"}]
    /\ pub \in [Publishers -> {"idle", "attempt", "backoff", "register",
                               "check", "pass", "store", "spawn", "done",
                               "failed", "stopped"}]
    /\ loop \in [Publishers -> {"none", "wait", "pass", "exited"}]
    /\ beat \in [Publishers -> {"idle", "update", "reregister", "again"}]
    /\ dereg \in {"idle", "cancel", "remove", "done", "failed"}
    /\ gone \in SUBSET Async
    /\ after \in [Publishers -> BOOLEAN]
    /\ \A p \in Publishers :
          beat[p] # "idle" <=> pub[p] = "pass" \/ loop[p] = "pass"

Init ==
    /\ agent = [reg |-> None, passing |-> FALSE]
    /\ faults = 0
    /\ baseDone = FALSE
    /\ closed = FALSE
    /\ heartbeats = None
    /\ ctx = [p \in Publishers |-> "none"]
    /\ pub = [p \in Publishers |-> "idle"]
    /\ loop = [p \in Publishers |-> "none"]
    /\ beat = [p \in Publishers |-> "idle"]
    /\ dereg = "idle"
    /\ gone = {}
    /\ after = [p \in Publishers |-> FALSE]

-----------------------------------------------------------------------------
(* An operator marked as a mutant is the one below it with a bug.          *)

Fault == faults < MaxFaults /\ faults' = faults + 1

\* ServiceRegister at the agent: a check that is already there may keep its
\* status, a new TTL check is critical.
AgentRegisters(p) ==
    \E passing \in {FALSE, agent.passing} :
        agent' = [reg |-> p, passing |-> passing /\ agent.reg # None]

\* The context a cancel func ends; the nil one of no heartbeat ends nothing.
Cancelled(cs) == [p \in Publishers |-> IF p \in cs THEN "cancelled" ELSE ctx[p]]

\* The pass of p is over: the caller goes on to store its heartbeat, the loop
\* waits for the next tick.
PassOver_RunsOn(p) ==                                       \* mutant
    /\ UNCHANGED beat
    /\ pub'  = [pub EXCEPT ![p] = IF @ = "pass" THEN "store" ELSE @]
    /\ loop' = [loop EXCEPT ![p] = IF @ = "pass" THEN "wait" ELSE @]
PassOver(p) ==
    /\ beat' = [beat EXCEPT ![p] = "idle"]
    /\ pub'  = [pub EXCEPT ![p] = IF @ = "pass" THEN "store" ELSE @]
    /\ loop' = [loop EXCEPT ![p] = IF @ = "pass" THEN "wait" ELSE @]

\* The pass of p sends its next request, or ends if its context is cancelled.
Send(p, request) ==
    IF ctx[p] = "live"
    THEN beat' = [beat EXCEPT ![p] = request] /\ UNCHANGED <<pub, loop>>
    ELSE PassOver(p)

\* What a beat does about a check the agent does not know.
OnUnknown_WarnOnly(p) == PassOver(p)                        \* mutant
OnUnknown(p) == Send(p, "reregister")

\* Heartbeats that a new one of p replaces.
Replaced_None(p) == {}                                      \* mutant
Replaced(p) == {heartbeats}

\* startHeartbeat must not store a heartbeat.
Refused_Never == FALSE                                      \* mutant
Refused == closed

\* Heartbeats that Deregister stops.
Stopped_None == {}                                          \* mutant
Stopped == {heartbeats}

\* RegisterAsync gives up.
GiveUp_OnError(p) == TRUE                                   \* mutant
GiveUp(p) == p \notin Async

-----------------------------------------------------------------------------
(* Register and RegisterAsync.                                             *)

Start(p) ==
    /\ pub[p] = "idle"
    /\ pub' = [pub EXCEPT ![p] = IF p \in Async THEN "attempt" ELSE "register"]
    /\ after' = [after EXCEPT ![p] = dereg # "idle"]
    /\ UNCHANGED <<env, mgr, ctx, loop, beat, dereg, gone>>

\* RegisterAsync before an attempt: Close ends the loop.
Attempt(p) ==
    /\ pub[p] = "attempt"
    /\ pub' = [pub EXCEPT ![p] = IF baseDone THEN "stopped" ELSE "register"]
    /\ UNCHANGED <<env, mgr, ctx, loop, beat, dereg, gone, after>>

\* The sleep after a failed attempt, which Close and the end of the caller's
\* context interrupt.
Backoff(p) ==
    /\ pub[p] = "backoff"
    /\ pub' = [pub EXCEPT ![p] =
                  IF baseDone \/ p \in gone THEN "stopped" ELSE "attempt"]
    /\ UNCHANGED <<env, mgr, ctx, loop, beat, dereg, gone, after>>

\* ServiceRegister succeeds, fails, or fails after the agent took it; it may
\* fail because the caller has ended its context.
Register(p) ==
    /\ pub[p] = "register"
    /\ \/ /\ AgentRegisters(p)
          /\ pub' = [pub EXCEPT ![p] = "check"]
          /\ UNCHANGED faults
       \/ /\ AgentRegisters(p) \/ UNCHANGED agent
          /\ Fault \/ (p \in gone /\ UNCHANGED faults)
          /\ pub' = [pub EXCEPT ![p] = IF GiveUp(p) THEN "failed" ELSE "backoff"]
    /\ UNCHANGED <<mgr, ctx, loop, beat, dereg, gone, after>>

\* startHeartbeat up to its first pass.
CheckClosed(p) ==
    /\ pub[p] = "check"
    /\ \/ /\ closed
          /\ pub' = [pub EXCEPT ![p] = "done"]
          /\ UNCHANGED <<ctx, beat>>
       \/ /\ ~closed
          /\ ctx' = [ctx EXCEPT ![p] = "live"]
          /\ beat' = [beat EXCEPT ![p] = "update"]
          /\ pub' = [pub EXCEPT ![p] = "pass"]
    /\ UNCHANGED <<env, mgr, loop, dereg, gone, after>>

\* Of RegisterAsync's callers only: to another one it is a failed Register.
CallerEnds(p) ==
    /\ p \in Async \ gone
    /\ gone' = gone \cup {p}
    /\ UNCHANGED <<env, mgr, ctx, pub, loop, beat, dereg, after>>

\* The critical section after the first pass.
Store(p) ==
    /\ pub[p] = "store"
    /\ \/ /\ Refused
          /\ ctx' = Cancelled({p})
          /\ pub' = [pub EXCEPT ![p] = "done"]
          /\ UNCHANGED heartbeats
       \/ /\ ~Refused
          /\ ctx' = Cancelled(Replaced(p))
          /\ heartbeats' = p
          /\ pub' = [pub EXCEPT ![p] = "spawn"]
    /\ UNCHANGED <<env, baseDone, closed, loop, beat, dereg, gone, after>>

Spawn(p) ==
    /\ pub[p] = "spawn"
    /\ pub' = [pub EXCEPT ![p] = "done"]
    /\ loop' = [loop EXCEPT ![p] = "wait"]
    /\ UNCHANGED <<env, mgr, ctx, beat, dereg, gone, after>>

-----------------------------------------------------------------------------
(* The heartbeat goroutine, and pass, which the first pass runs too.       *)

\* A tick that the select takes after the cancel does nothing: the request of an
\* ended context is not sent.
Tick(p) ==
    /\ loop[p] = "wait"
    /\ ctx[p] = "live"
    /\ loop' = [loop EXCEPT ![p] = "pass"]
    /\ beat' = [beat EXCEPT ![p] = "update"]
    /\ UNCHANGED <<env, mgr, ctx, pub, dereg, gone, after>>

Exit(p) ==
    /\ loop[p] = "wait"
    /\ ctx[p] = "cancelled"
    /\ loop' = [loop EXCEPT ![p] = "exited"]
    /\ UNCHANGED <<env, mgr, ctx, pub, beat, dereg, gone, after>>

\* A request of p fails on the way or because its context is cancelled; a pass
\* gives up on the first error that is not a 404.
BeatFails(p) ==
    /\ beat[p] # "idle"
    /\ \/ Fault
       \/ ctx[p] = "cancelled" /\ UNCHANGED faults
    /\ PassOver(p)
    /\ \/ UNCHANGED agent
       \/ beat[p] = "reregister" /\ AgentRegisters(p)
    /\ UNCHANGED <<mgr, ctx, dereg, gone, after>>

\* UpdateTTL: the check passes, or the agent answers 404.
BeatUpdate(p) ==
    /\ beat[p] = "update"
    /\ \/ /\ agent.reg # None
          /\ agent' = [agent EXCEPT !.passing = TRUE]
          /\ PassOver(p)
       \/ /\ agent.reg = None
          /\ OnUnknown(p)
          /\ UNCHANGED agent
    /\ UNCHANGED <<faults, mgr, ctx, dereg, gone, after>>

\* The self-heal registers the service this heartbeat was started with.
BeatReregister(p) ==
    /\ beat[p] = "reregister"
    /\ AgentRegisters(p)
    /\ Send(p, "again")
    /\ UNCHANGED <<faults, mgr, ctx, dereg, gone, after>>

\* UpdateTTL after the self-heal; its error is only logged.
BeatAgain(p) ==
    /\ beat[p] = "again"
    /\ agent' = [agent EXCEPT !.passing = agent.reg # None]
    /\ PassOver(p)
    /\ UNCHANGED <<faults, mgr, ctx, dereg, gone, after>>

-----------------------------------------------------------------------------
(* Deregister and Close.                                                   *)

CallDeregister ==
    /\ dereg = "idle"
    /\ dereg' = "cancel"
    /\ UNCHANGED <<env, mgr, ctx, pub, loop, beat, gone, after>>

DeregisterCancel ==
    /\ dereg = "cancel"
    /\ ctx' = Cancelled(Stopped)
    /\ heartbeats' = None
    /\ dereg' = "remove"
    /\ UNCHANGED <<env, baseDone, closed, pub, loop, beat, gone, after>>

\* ServiceDeregister succeeds, fails, or fails after the agent took it.
DeregisterRemove ==
    /\ dereg = "remove"
    /\ \/ /\ agent' = [reg |-> None, passing |-> FALSE]
          /\ dereg' = "done"
          /\ UNCHANGED faults
       \/ /\ agent' \in {agent, [reg |-> None, passing |-> FALSE]}
          /\ Fault
          /\ dereg' = "failed"
    /\ UNCHANGED <<mgr, ctx, pub, loop, beat, gone, after>>

\* Manager.doClose cancels the base context first and closes the registry last.
CloseManager ==
    /\ ~baseDone
    /\ baseDone' = TRUE
    /\ UNCHANGED <<env, closed, heartbeats, ctx, pub, loop, beat, dereg, gone,
                   after>>

CloseRegistry ==
    /\ baseDone
    /\ ~closed
    /\ closed' = TRUE
    /\ ctx' = Cancelled({heartbeats})
    /\ heartbeats' = None
    /\ UNCHANGED <<env, baseDone, pub, loop, beat, dereg, gone, after>>

-----------------------------------------------------------------------------
(* The agent. It expires a check that nobody passes and reaps a service    *)
(* that stays critical; doing so to one that a loop keeps alive is a fault *)
(* of the network or of the host, for a loop beats every TTL/2.            *)

Maintained == \E p \in Publishers : ctx[p] = "live"

AgentExpires ==
    /\ agent.reg # None
    /\ agent.passing
    /\ IF Maintained THEN Fault ELSE UNCHANGED faults
    /\ agent' = [agent EXCEPT !.passing = FALSE]
    /\ UNCHANGED <<mgr, ctx, pub, loop, beat, dereg, gone, after>>

AgentReaps ==
    /\ agent.reg # None
    /\ ~agent.passing
    /\ IF Maintained THEN Fault ELSE UNCHANGED faults
    /\ agent' = [reg |-> None, passing |-> FALSE]
    /\ UNCHANGED <<mgr, ctx, pub, loop, beat, dereg, gone, after>>

\* The agent restarts and has lost its registrations.
AgentRestarts ==
    /\ agent.reg # None
    /\ Fault
    /\ agent' = [reg |-> None, passing |-> FALSE]
    /\ UNCHANGED <<mgr, ctx, pub, loop, beat, dereg, gone, after>>

-----------------------------------------------------------------------------
Pass(p) == BeatFails(p) \/ BeatUpdate(p) \/ BeatReregister(p) \/ BeatAgain(p)

PublisherStep(p) ==
    \/ Attempt(p) \/ Backoff(p) \/ Register(p)
    \/ CheckClosed(p) \/ Store(p) \/ Spawn(p)
    \/ pub[p] = "pass" /\ Pass(p)

LoopStep(p) == Tick(p) \/ Exit(p) \/ (loop[p] = "pass" /\ Pass(p))

Next ==
    \/ \E p \in Publishers :
          Start(p) \/ CallerEnds(p) \/ PublisherStep(p) \/ LoopStep(p)
    \/ CallDeregister \/ DeregisterCancel \/ DeregisterRemove
    \/ CloseManager \/ CloseRegistry
    \/ AgentExpires \/ AgentReaps \/ AgentRestarts

\* Goroutines run, requests are answered or time out, a Close or Deregister
\* that has begun goes on, and an agent expires and reaps what is abandoned.
\* Nobody has to call Register, Deregister or Close.
Fairness ==
    /\ \A p \in Publishers : WF_vars(PublisherStep(p)) /\ WF_vars(LoopStep(p))
    /\ WF_vars(DeregisterCancel \/ DeregisterRemove)
    /\ WF_vars(CloseRegistry)
    /\ WF_vars(~Maintained /\ (AgentExpires \/ AgentReaps))

Spec == Init /\ [][Next]_vars

FairSpec == Spec /\ Fairness

-----------------------------------------------------------------------------
(* Safety.                                                                 *)

\* Every loop that still beats is the one Deregister and Close can stop: a
\* Register that replaces another, or races Close, leaves no loop behind that
\* nobody holds the cancel func of.
LiveLoopIsTracked ==
    \A p \in Publishers :
        (loop[p] \in {"wait", "pass"} \/ pub[p] = "spawn") /\ ctx[p] = "live"
            => heartbeats = p

\* Once the registry is closed no heartbeat is stored or goes on beating.
NoHeartbeatAfterClose ==
    closed => /\ heartbeats = None
              /\ \A p \in Publishers :
                    loop[p] # "none" \/ pub[p] = "spawn" => ctx[p] = "cancelled"

\* Deregister stops the heartbeat of every Register that had returned before.
DeregisterStopsReturned ==
    [][DeregisterCancel =>
          \A p \in Publishers : pub[p] = "done" => ctx'[p] # "live"]_vars

\* src/types.go:171, of a TTL check: "The registry emits a heartbeat every
\* TTL/2 and stops it on Deregister": a Deregister that has succeeded leaves no
\* beating loop of a Register that was called before it.
DeregisterStopsHeartbeat ==
    dereg = "done" => \A p \in Publishers :
        ~after[p] /\ loop[p] \in {"wait", "pass"} => ctx[p] = "cancelled"

-----------------------------------------------------------------------------
(* Liveness.                                                               *)

\* RegisterAsync goes on until the service is registered: only Close or the end
\* of its caller's context make it stop before.
AsyncRegisters ==
    \A p \in Async : pub[p] # "idle" ~>
        pub[p] = "done" \/ (pub[p] = "stopped" /\ (baseDone \/ p \in gone))

\* A heartbeat that is stored brings its service to passing again whatever the
\* agent loses, until it is replaced or stopped.
HeartbeatHeals ==
    \A p \in Publishers :
        heartbeats = p ~> agent.passing \/ heartbeats # p

\* After Close every heartbeat goroutine goes away and no other comes.
LoopsEndAfterClose ==
    closed ~> [](\A p \in Publishers : loop[p] \in {"none", "exited"})

\* A registration that no stored heartbeat stands for does not linger: whatever
\* Deregister, Close, a failed Register or a self-heal in flight leave at the
\* agent is reaped, unless somebody registers again.
Registering == \E p \in Publishers :
    pub[p] \notin {"idle", "done", "failed", "stopped"}

AbandonedIsReaped ==
    heartbeats = None /\ ~Registering
        ~> agent.reg = None \/ heartbeats # None \/ Registering
=============================================================================
