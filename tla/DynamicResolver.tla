-------------------------- MODULE DynamicResolver --------------------------
(***************************************************************************)
(* One DynamicResolver, from WatchResolve or WatchResolveService to Stop   *)
(* (src/resolver.go): the seed, the watch goroutine that follows the       *)
(* catalog, and a reader of Address() and Scheme().                        *)
(*                                                                         *)
(* What the registry answers is any of Services or an error, at any time;  *)
(* an answer that comes after the context has ended is as possible as an   *)
(* error. Close of the Manager is no action: the watch of a                *)
(* DynamicResolver derives from its caller's context, and no step of it    *)
(* looks at anything Close changes.                                        *)
(***************************************************************************)
EXTENDS Naturals, Sequences

CONSTANTS
    Addresses, SchemeNames,
    Services,   \* what registry.Resolve may return, the two endpoints of each
    Fallback,   \* the fallback a caller may give, an endpoint
    ChanCap     \* capacity of the event channel

Endpoint == [address : Addresses, scheme : SchemeNames]
Snapshot == [address : Addresses \cup {""}, scheme : SchemeNames \cup {""}]
Nothing  == [address |-> "", scheme |-> ""]
Pointer  == {<<>>} \cup {<<e>> : e \in Endpoint}
Views    == {"", "external", "internal"}

ASSUME ConstantsAssumption ==
    /\ "" \notin Addresses
    /\ "" \notin SchemeNames
    /\ Services \subseteq [External : Pointer, Internal : Pointer]
    /\ Fallback \in Endpoint
    /\ ChanCap \in Nat \ {0}

VARIABLES
    enabled,   \* Config.Enabled
    tracks,    \* what was called for: "service" with its scheme, or "address"
    view,      \* DynamicResolver.view
    fallback,  \* DynamicResolver.fallback and fallbackScheme
    ctxDone,   \* the caller's context has ended
    stopped,   \* DynamicResolver.cancel was called
    creator,   \* where the call that makes the resolver stands
    snapshot,  \* DynamicResolver.snapshot
    updater,   \* the watch goroutine, and the pair it is about to store
    events,    \* events in the channel
    open,      \* the channel is not closed
    reader     \* a goroutine that reads the address and the scheme

conf   == <<enabled, tracks, view, fallback>>
chan   == <<events, open>>
vars   == <<conf, ctxDone, stopped, creator, snapshot, updater, chan, reader>>

TypeOK ==
    /\ enabled \in BOOLEAN
    /\ tracks \in {"address", "service"}
    /\ view \in Views
    /\ fallback \in Snapshot
    /\ ctxDone \in BOOLEAN
    /\ stopped \in BOOLEAN
    /\ creator \in {"seed", "open", "returned", "failed"}
    /\ snapshot \in Snapshot
    /\ updater \in [pc : {"none", "select", "resolve", "store", "exited"},
                    pair : Snapshot]
    /\ events \in 0..ChanCap
    /\ open \in BOOLEAN
    /\ reader \in [pc : {"idle", "address", "scheme"}, pair : Snapshot]

\* An explicit WithView before Config.PreferView; "" is the external view.
TrackedView(withView, preferView) == IF withView = "" THEN preferView ELSE withView

\* WatchResolve keeps no scheme for its fallback.
GivenFallback(t) ==
    {Nothing, [Fallback EXCEPT !.scheme = IF t = "service" THEN @ ELSE ""]}

Init ==
    /\ enabled \in BOOLEAN
    /\ tracks \in {"address", "service"}
    /\ \E withView, preferView \in Views : view = TrackedView(withView, preferView)
    /\ fallback \in GivenFallback(tracks)
    /\ ctxDone = FALSE
    /\ stopped = FALSE
    /\ creator = "seed"
    /\ snapshot = Nothing
    /\ updater = [pc |-> "none", pair |-> Nothing]
    /\ events = 0
    /\ open = FALSE
    /\ reader = [pc |-> "idle", pair |-> Nothing]

-----------------------------------------------------------------------------
(* The call that makes the resolver; nobody else knows the object yet. An  *)
(* operator marked as a mutant is the one below it with a bug.             *)

\* The endpoint of a Service that the resolver tracks, if there is one.
EndpointFor_AnyView(svc) ==                                         \* mutant
    IF view = "internal" /\ svc.Internal # <<>> THEN svc.Internal
    ELSE IF svc.External # <<>> THEN svc.External ELSE svc.Internal
EndpointFor(svc) ==
    IF view = "internal" /\ svc.Internal # <<>> THEN svc.Internal ELSE svc.External

HasFallback_Assumed == TRUE                                         \* mutant
HasFallback == fallback.address # ""

\* The pairs the seed may find: of an answer whose endpoint is there, which
\* WatchResolve keeps without the scheme, or else the fallback, which is Nothing
\* when none was given; a seed that fails or is late fails nothing.
SeedPairs ==
    {fallback} \cup
    {[e EXCEPT !.scheme = IF tracks = "service" THEN @ ELSE ""] :
        e \in UNION {{EndpointFor(s)[k] : k \in DOMAIN EndpointFor(s)} : s \in Services}}

SeedDisabled ==
    /\ creator = "seed"
    /\ ~enabled
    /\ IF fallback.address = ""
       THEN creator' = "failed" /\ UNCHANGED snapshot
       ELSE creator' = "returned" /\ snapshot' = fallback
    /\ UNCHANGED <<conf, ctxDone, stopped, updater, chan, reader>>

Seed ==
    /\ creator = "seed"
    /\ enabled
    /\ snapshot' \in SeedPairs
    /\ creator' = "open"
    /\ UNCHANGED <<conf, ctxDone, stopped, updater, chan, reader>>

\* startResolverWatch: registry.Watch succeeds, and the goroutine is spawned.
WatchOpened ==
    /\ creator = "open"
    /\ creator' = "returned"
    /\ updater' = [updater EXCEPT !.pc = "select"]
    /\ open' = TRUE
    /\ UNCHANGED <<conf, ctxDone, stopped, snapshot, events, reader>>

WatchFailed ==
    /\ creator = "open"
    /\ creator' = "failed"
    /\ stopped' = TRUE
    /\ UNCHANGED <<conf, ctxDone, snapshot, updater, chan, reader>>

-----------------------------------------------------------------------------
(* The watch goroutine: runResolverUpdates.                                *)

\* The context the watch runs under has ended.
WatchDone_StopOnly == stopped                                       \* mutant
WatchDone == ctxDone \/ stopped

Wake_IgnoresClose ==                                                \* mutant
    /\ updater.pc = "select"
    /\ events > 0 \/ ~open
    /\ events' = events - 1
    /\ updater' = [updater EXCEPT !.pc = "resolve"]
    /\ UNCHANGED <<conf, ctxDone, stopped, creator, snapshot, open, reader>>
Wake ==
    /\ updater.pc = "select"
    /\ events > 0
    /\ events' = events - 1
    /\ updater' = [updater EXCEPT !.pc = "resolve"]
    /\ UNCHANGED <<conf, ctxDone, stopped, creator, snapshot, open, reader>>

Exit ==
    /\ updater.pc = "select"
    /\ WatchDone \/ (~open /\ events = 0)
    /\ updater' = [updater EXCEPT !.pc = "exited"]
    /\ UNCHANGED <<conf, ctxDone, stopped, creator, snapshot, chan, reader>>

\* registry.Resolve returns svc: its endpoint is stored, and when the view is
\* unavailable the last value stays.
Resolved(svc) ==
    /\ updater.pc = "resolve"
    /\ updater' = IF EndpointFor(svc) = <<>>
                  THEN [updater EXCEPT !.pc = "select"]
                  ELSE [pc |-> "store", pair |-> EndpointFor(svc)[1]]
    /\ UNCHANGED <<conf, ctxDone, stopped, creator, snapshot, chan, reader>>

\* Where an update goes that keeps the last value.
KeepLast_Exits == "exited"                                          \* mutant
KeepLast == "select"

\* It fails: the fallback is stored if there is one, else the last value stays.
ResolveFails ==
    /\ updater.pc = "resolve"
    /\ updater' = IF HasFallback
                  THEN [pc |-> "store", pair |-> fallback]
                  ELSE [updater EXCEPT !.pc = KeepLast]
    /\ UNCHANGED <<conf, ctxDone, stopped, creator, snapshot, chan, reader>>

Store ==
    /\ updater.pc = "store"
    /\ snapshot' = updater.pair
    /\ updater' = [pc |-> "select", pair |-> Nothing]
    /\ UNCHANGED <<conf, ctxDone, stopped, creator, chan, reader>>

-----------------------------------------------------------------------------
(* The registry's side of the channel, the end of the context, and Stop.   *)

Room == events < ChanCap

Emit ==
    /\ open
    /\ Room
    /\ events' = events + 1
    /\ UNCHANGED <<conf, ctxDone, stopped, creator, snapshot, updater, open, reader>>

CloseChan ==
    /\ open
    /\ WatchDone
    /\ open' = FALSE
    /\ UNCHANGED <<conf, ctxDone, stopped, creator, snapshot, updater, events, reader>>

CallerEnds ==
    /\ ~ctxDone
    /\ ctxDone' = TRUE
    /\ UNCHANGED <<conf, stopped, creator, snapshot, updater, chan, reader>>

\* A resolver without a watch has no cancel func.
Stop ==
    /\ creator = "returned"
    /\ updater.pc # "none"
    /\ stopped' = TRUE
    /\ UNCHANGED <<conf, ctxDone, creator, snapshot, updater, chan, reader>>

-----------------------------------------------------------------------------
(* A reader calls Address() and Scheme(), in either order: two loads of    *)
(* the snapshot.                                                           *)

ReadFirst(field) ==
    /\ creator = "returned"
    /\ reader.pc = "idle"
    /\ reader' = [pc   |-> field,
                  pair |-> [Nothing EXCEPT ![field] = snapshot[field]]]
    /\ UNCHANGED <<conf, ctxDone, stopped, creator, snapshot, updater, chan>>

ReadSecond ==
    /\ reader.pc # "idle"
    /\ LET field == IF reader.pc = "address" THEN "scheme" ELSE "address"
       IN  reader' = [pc   |-> "idle",
                      pair |-> [reader.pair EXCEPT ![field] = snapshot[field]]]
    /\ UNCHANGED <<conf, ctxDone, stopped, creator, snapshot, updater, chan>>

-----------------------------------------------------------------------------
Create  == SeedDisabled \/ Seed \/ WatchOpened \/ WatchFailed

Updater == Wake \/ Exit \/ (\E svc \in Services : Resolved(svc)) \/ ResolveFails \/ Store

Next ==
    \/ Create \/ Updater
    \/ Emit \/ CloseChan \/ CallerEnds \/ Stop
    \/ (\E field \in {"address", "scheme"} : ReadFirst(field)) \/ ReadSecond

Spec == Init /\ [][Next]_vars

\* The watch goroutine runs, a registry call ends by itself or by its timeouts,
\* and the registry closes the channel of a watch whose context has ended.
FairSpec == Spec /\ WF_vars(Updater) /\ WF_vars(CloseChan)

-----------------------------------------------------------------------------
\* The pairs one source has given: the fallback, Nothing when there is none, or
\* an endpoint of the tracked view, of which WatchResolve's seed keeps no scheme.
OneSource(pair) ==
    \/ pair = fallback
    \/ \E svc \in Services :
          /\ IF view = "internal" THEN svc.Internal # <<>> \/ svc.External # <<>>
                                  ELSE svc.External # <<>>
          /\ LET e == IF view = "internal" /\ svc.Internal # <<>>
                      THEN svc.Internal[1] ELSE svc.External[1]
             IN  \/ pair = e
                 \/ tracks = "address" /\ pair = [e EXCEPT !.scheme = ""]

\* What is stored is one endpoint of the tracked view or the fallback, address
\* and scheme together, whichever way it came there: an external view never
\* hands out the in-cluster endpoint of an internal-only provider.
SnapshotIsOneSource == creator = "returned" => OneSource(snapshot)

\* Once a resolver has an address it never falls back to none: not by a failed
\* refresh, an unavailable view, or a Stop that cuts a refresh short.
AddressIsNeverLost ==
    [][snapshot.address # "" => snapshot'.address # ""]_vars

\* The goroutine ends after Stop, and after the end of the caller's context.
WatchEnds ==
    creator = "returned" /\ enabled /\ (ctxDone \/ stopped) ~> updater.pc = "exited"

\* Every event leads to a new look at the registry unless the watch is being
\* stopped, whatever became of the refreshes before.
EventsAreFollowed ==
    events > 0 ~> updater.pc = "resolve" \/ ctxDone \/ stopped

\* src/resolver.go:27-28: the snapshot is one immutable value "so a reader can
\* never observe a torn pair (a new address with a stale scheme)".
PairIsNotTorn ==
    [][tracks = "service" /\ reader.pc # "idle" /\ reader'.pc = "idle" =>
          OneSource(reader'.pair)]_vars
=============================================================================
