----------------------------- MODULE Discovery -----------------------------
(***************************************************************************)
(* Consul, the watch loop and the cache of one name together: what a       *)
(* consumer's cache holds when instances come, fail and go.                *)
(*                                                                         *)
(* The catalog and the loop are ConsulWatch's. The cache is LastKnownGood, *)
(* which ManagedResolver implements: here the refresher that fills it      *)
(* seeds it, takes the loop's events and asks Consul anew after each       *)
(* (seedManagedResolver and runManagedUpdates, src/managed_resolver.go;    *)
(* consulRegistry.Resolve, src/consul.go).                                 *)
(***************************************************************************)
EXTENDS ConsulWatch

VARIABLES
    cache,     \* what the resolver of the name has cached
    learned,   \* what the refresher is about to install
    task,      \* where the refresher stands
    last       \* history: how its last look at Consul went

own   == <<cache, learned, task, last>>
dvars == <<vars, own>>

Name       == "name"
NoInstance == "no instance"

\* No instance is called like the content of an empty cache.
ASSUME InstancesAssumption == NoInstance \notin Instances

LKG == INSTANCE LastKnownGood WITH
    Keys <- {Name}, Values <- Instances, Empty <- NoInstance

DTypeOK ==
    /\ TypeOK
    /\ cache \in [{Name} -> Instances \cup {NoInstance}]
    /\ learned \in [{Name} -> SUBSET (Instances \cup {NoInstance})]
    /\ task \in {"seed", "seeded", "select", "resolve", "install", "exited"}
    /\ last \in {"fresh", "stale", "failed"}

DInit ==
    /\ Init
    /\ LKG!Init
    /\ task = "seed"
    /\ last = "failed"

-----------------------------------------------------------------------------
(* A lookup: the instances whose checks pass, of which the round robin     *)
(* picks one; its counter is shared by all lookups, so it may be any. An   *)
(* instance of another workload, which the tag filters out, is one that    *)
(* does not pass. An operator marked as a mutant is the one below it with  *)
(* a bug.                                                                  *)

Passing(h) == {i \in Instances : h[i] = "passing"}

Picks_Unguarded(h) == IF Passing(h) = {} THEN {""} ELSE Passing(h)  \* mutant
Picks(h) == IF Passing(h) = {} THEN {NoInstance} ELSE Passing(h)

Catalogs == [Instances -> Health]

\* What a lookup of the leader finds, and of a follower with an older catalog.
Finds(how) ==
    IF how = "fresh" THEN Picks(health) ELSE UNION {Picks(h) : h \in Catalogs}

\* The seed or a refresh is answered. A seed that finds no instance records an
\* error and leaves the cache empty; a refresh that finds none clears it.
Lookup(how) ==
    /\ up
    /\ task \in {"seed", "resolve"}
    /\ \E v \in Finds(how) :
          \/ /\ task = "seed" /\ v = NoInstance
             /\ task' = "select"
             /\ UNCHANGED <<cache, learned>>
          \/ /\ task = "seed" /\ v # NoInstance
             /\ LKG!Learn(Name, v)
             /\ task' = "seeded"
          \/ /\ task = "resolve"
             /\ LKG!Learn(Name, v)
             /\ task' = "install"
    /\ last' = how
    /\ UNCHANGED vars

\* It fails, and keeps what is cached.
LookupFails ==
    /\ task \in {"seed", "resolve"}
    /\ task' = "select"
    /\ last' = "failed"
    /\ UNCHANGED <<vars, cache, learned>>

Install ==
    /\ task \in {"seeded", "install"}
    /\ LKG!Install(Name)
    /\ task' = "select"
    /\ UNCHANGED <<vars, last>>

\* An event, whatever it says, leads to a refresh.
NeedsRefresh_OnlyRemovals(e) == e.type = "deregistered"             \* mutant
NeedsRefresh(e) == TRUE

Wake ==
    /\ task = "select"
    /\ ch # <<>>
    /\ ch' = Tail(ch)
    /\ task' = IF NeedsRefresh(Head(ch)) THEN "resolve" ELSE "select"
    /\ UNCHANGED <<server, ctxDone, pc, lastIndex, attempt, resp, pending, base,
                   told, cache, learned, last>>

Exit ==
    /\ task = "select"
    /\ ctxDone \/ (pc = "exited" /\ ch = <<>>)
    /\ task' = "exited"
    /\ UNCHANGED <<vars, cache, learned, last>>

\* The watch is opened after the seed.
Watching == task \notin {"seed", "seeded"}

-----------------------------------------------------------------------------
Refresher ==
    \/ \E how \in {"fresh", "stale"} : Lookup(how)
    \/ LookupFails \/ Install \/ Wake \/ Exit

DNext ==
    \/ \E i \in Instances, h \in Health : Change(i, h) /\ UNCHANGED own
    \/ (ServerDown \/ ServerUp \/ ServerRestart \/ Cancel) /\ UNCHANGED own
    \/ Watching /\ (LoopStep \/ AnsweredStale \/ Stuck) /\ UNCHANGED own
    \/ Refresher

DSpec == DInit /\ [][DNext]_dvars

\* As for ConsulWatch, with the refresher in the place of its consumer: a lookup
\* ends by its answer or by its timeouts.
DFairSpec ==
    /\ DSpec
    /\ WF_dvars(Watching /\ LoopStep /\ UNCHANGED own)
    /\ SF_dvars(Watching /\ Answered /\ UNCHANGED own)
    /\ WF_dvars(Refresher)

-----------------------------------------------------------------------------
Current == cache[Name]

\* The loop is level with the catalog, its events are used up, and the refresh
\* they led to was answered by the leader.
Settled ==
    Level /\ ~ctxDone /\ task = "select" /\ ch = <<>> /\ last = "fresh"

\* When all is quiet the cache holds an instance that passes, or none if none
\* does: also if the catalog changed between the seed and the first poll, or
\* while a refresh was under way. An empty catalog brings no event and is the
\* exception.
SettledIsCurrent ==
    Settled /\ Present(health) # {} =>
        IF Current = NoInstance THEN \A i \in Instances : health[i] # "passing"
                                ELSE health[Current] = "passing"

\* A cached instance that no longer passes is dropped, unless it is the last of
\* the catalog to go, or the refreshes keep failing or being answered with an
\* older catalog; a restart of Consul that repeats the index of the loop is not
\* noticed.
DeadIsDropped ==
    <>[](up /\ last = "fresh" /\ (lastIndex = index => base = epoch)) =>
      \A i \in Instances :
          Current = i /\ health[i] # "passing" ~>
             Current # i \/ health[i] = "passing" \/ Present(health) = {} \/ ctxDone

\* src/README.md:63 and src/doc.go:41: "consecutive resolves return the same
\* address until the catalog changes".
AddressIsStable ==
    [][index = 1 /\ epoch = 0 /\ {Current, Current'} \subseteq Passing(health) =>
          Current' = Current]_dvars
=============================================================================
