---------------------------- MODULE ConsulWatch ----------------------------
(***************************************************************************)
(* The blocking-query loop behind Registry.Watch of the Consul backend:    *)
(* watchLoop, emitEntries and eventTypeFor (src/consul.go), for one        *)
(* service name.                                                           *)
(*                                                                         *)
(* The Consul server is external: it holds the health of the instances of  *)
(* the name and an index that grows with every change; it may be down, it  *)
(* may restart with an index that went back, a follower may answer for it  *)
(* with an older catalog, and a connection to it may be stuck. A poll is   *)
(* answered with a snapshot taken at the server, which the loop handles    *)
(* later.                                                                  *)
(***************************************************************************)
EXTENDS Naturals, FiniteSets, Sequences

CONSTANTS
    Instances,   \* instances of the service
    ChanCap,     \* capacity of the event channel
    MaxIndex,    \* bound on the server's index
    MaxRestarts, \* bound on the server's restarts
    MaxAttempt   \* attempts after which the backoff grows no further

ASSUME ConstantsAssumption ==
    /\ ChanCap \in Nat \ {0}
    /\ MaxIndex \in Nat \ {0}
    /\ MaxRestarts \in Nat
    /\ MaxAttempt \in Nat \ {0}

VARIABLES
    health,     \* server: the instances' state
    index,      \* server: the index of the last change
    epoch,      \* server: how often it has restarted
    up,         \* server: it answers
    ctxDone,    \* the context of the watch has ended
    pc,         \* where the loop stands
    lastIndex,  \* the loop's lastIndex
    attempt,    \* failed polls in a row
    resp,       \* the answer this iteration handles: index, entries, and its epoch
    pending,    \* instances of resp whose event has not been sent
    ch,         \* the event channel, closed when the loop has exited
    base,       \* history: the epoch lastIndex was read in
    told        \* history: the last event sent about each instance

server == <<health, index, epoch, up>>
vars   == <<health, index, epoch, up, ctxDone, pc, lastIndex, attempt, resp,
            pending, ch, base, told>>

Health == {"absent", "passing", "critical"}

Entry == [type : {"registered", "deregistered"}, inst : Instances]

TypeOK ==
    /\ health \in [Instances -> Health]
    /\ index \in 1..MaxIndex
    /\ epoch \in 0..MaxRestarts
    /\ up \in BOOLEAN
    /\ ctxDone \in BOOLEAN
    /\ pc \in {"top", "poll", "stuck", "handle", "backoff", "emit", "exited"}
    /\ lastIndex \in 0..MaxIndex
    /\ attempt \in 0..MaxAttempt
    /\ resp \in [index : 0..MaxIndex, health : [Instances -> Health],
                 epoch : 0..MaxRestarts]
    /\ pending \in SUBSET Instances
    /\ ch \in Seq(Entry) /\ Len(ch) <= ChanCap
    /\ base \in 0..MaxRestarts
    /\ told \in [Instances -> {"nothing", "registered", "deregistered"}]

NoResp == [index |-> 0, health |-> [i \in Instances |-> "absent"], epoch |-> 0]

Init ==
    /\ health \in [Instances -> Health]
    /\ index = 1
    /\ epoch = 0
    /\ up = TRUE
    /\ ctxDone = FALSE
    /\ pc = "top"
    /\ lastIndex = 0
    /\ attempt = 0
    /\ resp = NoResp
    /\ pending = {}
    /\ ch = <<>>
    /\ base = 0
    /\ told = [i \in Instances |-> "nothing"]

Present(h) == {i \in Instances : h[i] # "absent"}

\* eventTypeFor: an instance with a critical check counts as deregistered.
EventType_Always(h) == "registered"                             \* mutant
EventType_Status(h) == h                                        \* mutant
EventType(h) == IF h = "critical" THEN "deregistered" ELSE "registered"

-----------------------------------------------------------------------------
(* The server.                                                             *)

Change(i, h) ==
    /\ up
    /\ index < MaxIndex
    /\ health[i] # h
    /\ health' = [health EXCEPT ![i] = h]
    /\ index' = index + 1
    /\ UNCHANGED <<epoch, up, ctxDone, pc, lastIndex, attempt, resp, pending,
                   ch, base, told>>

ServerDown ==
    /\ up
    /\ up' = FALSE
    /\ UNCHANGED <<health, index, epoch, ctxDone, pc, lastIndex, attempt, resp,
                   pending, ch, base, told>>

\* It comes back with its state.
ServerUp ==
    /\ ~up
    /\ up' = TRUE
    /\ UNCHANGED <<health, index, epoch, ctxDone, pc, lastIndex, attempt, resp,
                   pending, ch, base, told>>

\* It comes back without its state: a smaller index, other instances.
ServerRestart ==
    /\ ~up
    /\ epoch < MaxRestarts
    /\ epoch' = epoch + 1
    /\ up' = TRUE
    /\ index' \in 1..(index - 1)
    /\ health' \in [Instances -> Health]
    /\ UNCHANGED <<ctxDone, pc, lastIndex, attempt, resp, pending, ch, base,
                   told>>

-----------------------------------------------------------------------------
(* The loop.                                                               *)

\* The first select of an iteration, and the query with WaitIndex = lastIndex.
Top ==
    /\ pc = "top"
    /\ pc' = IF ctxDone THEN "exited" ELSE "poll"
    /\ UNCHANGED <<server, ctxDone, lastIndex, attempt, resp, pending, ch, base,
                   told>>

\* The server answers at once to an index it is past, and otherwise when the
\* index moves or WaitTime is over; the latter may be at any moment.
Answered ==
    /\ pc = "poll"
    /\ up
    /\ resp' = [index |-> index, health |-> health, epoch |-> epoch]
    /\ pc' = "handle"
    /\ UNCHANGED <<server, ctxDone, lastIndex, attempt, pending, ch, base, told>>

\* With AllowStale a follower may answer, with a catalog of some time before.
AnsweredStale ==
    /\ pc = "poll"
    /\ up
    /\ resp' \in [index : 1..(index - 1), health : [Instances -> Health],
                 epoch : {epoch}]
    /\ pc' = "handle"
    /\ UNCHANGED <<server, ctxDone, lastIndex, attempt, pending, ch, base, told>>

\* The connection is lost without a word: no answer will come.
Stuck ==
    /\ pc = "poll"
    /\ pc' = "stuck"
    /\ UNCHANGED <<server, ctxDone, lastIndex, attempt, resp, pending, ch, base,
                   told>>

\* The ceiling of watchWaitTime + watchPollMargin on every poll.
Ceiling_None == FALSE                                           \* mutant
Ceiling == TRUE

\* The poll fails: the server is down, the ceiling or the context ended it.
Failed ==
    /\ pc \in {"poll", "stuck"}
    /\ \/ pc = "poll" /\ ~up
       \/ ctxDone
       \/ Ceiling
    /\ pc' = IF ctxDone THEN "exited" ELSE "backoff"
    /\ UNCHANGED <<server, ctxDone, lastIndex, attempt, resp, pending, ch, base,
                   told>>

\* sleepCtx: the context may cut the sleep short. attempt counts on without a
\* bound in the code, which backoffDuration has no use for past MaxAttempt.
Backoff ==
    /\ pc = "backoff"
    /\ IF ctxDone
       THEN pc' = "exited" /\ UNCHANGED attempt
       ELSE /\ pc' = "top"
            /\ attempt' = IF attempt < MaxAttempt THEN attempt + 1 ELSE attempt
    /\ UNCHANGED <<server, ctxDone, lastIndex, resp, pending, ch, base, told>>

\* What lastIndex becomes on an answer with index n: a rewound index starts the
\* loop from scratch.
NextIndex_KeepsHigher(n) == IF n < lastIndex THEN lastIndex ELSE n     \* mutant
NextIndex(n) == IF n < lastIndex THEN 0 ELSE n

\* Only an index past the last one brings events.
Handle ==
    /\ pc = "handle"
    /\ attempt' = 0
    /\ lastIndex' = NextIndex(resp.index)
    /\ IF resp.index > lastIndex
       THEN /\ pc' = "emit"
            /\ pending' = Present(resp.health)
            /\ base' = resp.epoch
            /\ UNCHANGED resp
       ELSE /\ pc' = "top"
            /\ resp' = NoResp
            /\ UNCHANGED <<pending, base>>
    /\ UNCHANGED <<server, ctxDone, ch, told>>

\* The channel takes one more event without blocking.
Sendable == Len(ch) < ChanCap

\* emitEntries sends one event per entry, blocking while the channel is full.
Emit(i) ==
    /\ pc = "emit"
    /\ i \in pending
    /\ Sendable
    /\ LET type == EventType(resp.health[i])
       IN  /\ ch' = Append(ch, [type |-> type, inst |-> i])
           /\ told' = [told EXCEPT ![i] = type]
    /\ pending' = pending \ {i}
    /\ UNCHANGED <<server, ctxDone, pc, lastIndex, attempt, resp, base>>

\* A send that the end of the context interrupts.
Interruptible_No == FALSE                                       \* mutant
Interruptible == ctxDone

EmitInterrupted ==
    /\ pc = "emit"
    /\ pending # {}
    /\ Interruptible
    /\ pc' = "exited"
    /\ resp' = NoResp
    /\ UNCHANGED <<server, ctxDone, lastIndex, attempt, pending, ch, base, told>>

EmitDone ==
    /\ pc = "emit"
    /\ pending = {}
    /\ pc' = "top"
    /\ resp' = NoResp
    /\ UNCHANGED <<server, ctxDone, lastIndex, attempt, pending, ch, base, told>>

-----------------------------------------------------------------------------
(* The consumer, which goes away when it ends the context.                 *)

Receive ==
    /\ ~ctxDone
    /\ ch # <<>>
    /\ ch' = Tail(ch)
    /\ UNCHANGED <<server, ctxDone, pc, lastIndex, attempt, resp, pending,
                   base, told>>

Cancel ==
    /\ ~ctxDone
    /\ ctxDone' = TRUE
    /\ UNCHANGED <<server, pc, lastIndex, attempt, resp, pending, ch, base, told>>

-----------------------------------------------------------------------------
LoopStep ==
    \/ Top \/ Answered \/ Failed \/ Backoff \/ Handle
    \/ (\E i \in Instances : Emit(i)) \/ EmitInterrupted \/ EmitDone

Next ==
    \/ \E i \in Instances, h \in Health : Change(i, h)
    \/ ServerDown \/ ServerUp \/ ServerRestart
    \/ LoopStep
    \/ AnsweredStale
    \/ Stuck
    \/ Receive
    \/ Cancel

\* The loop's goroutine runs; a poll ends by its answer or by the ceiling, and
\* a server that is up answers again and again; the consumer drains the channel
\* until it goes away.
Fairness ==
    /\ WF_vars(LoopStep)
    /\ SF_vars(Answered)
    /\ WF_vars(Receive)

Spec == Init /\ [][Next]_vars

FairSpec == Spec /\ Fairness

-----------------------------------------------------------------------------
\* What the loop has announced of a catalog it is level with is what the
\* catalog holds: lost, stuck or failed polls and blocked sends skip no change.
\* (Level: same index in the same life of the server.)
Level == lastIndex = index /\ base = epoch /\ pc \notin {"emit", "exited"}

AnnouncedIsCatalog ==
    Level => \A i \in Present(health) :
        told[i] = IF health[i] = "passing" THEN "registered" ELSE "deregistered"

\* The loop ends once its context has, also when nobody receives and the
\* channel is full.
LoopEnds == ctxDone ~> pc = "exited"

\* The loop catches up with a server that stays up, whatever happened before:
\* an outage, a stuck connection, a restart that took the index back.
CatchesUp == <>[]up => []<>(ctxDone \/ lastIndex = index)

\* src/types.go:184: EventDeregistered is emitted "when a service instance
\* becomes critical or is removed".
RemovalIsAnnounced ==
    \A i \in Instances :
        <>[]up => (told[i] = "registered" /\ health[i] = "absent"
                     ~> told[i] = "deregistered" \/ health[i] # "absent" \/ ctxDone)
=============================================================================
