# TLA+ models of lib-service-discovery

TLA+ modules, TLC configurations and TLAPS proofs for the Go library in `src/`: a
manager that registers services in Consul with TTL heartbeats, and resolves names from
a cache that a background watch keeps fresh. Each model is written from the code; its
definitions carry the code's names where they can, and `PROJECT.json` maps every one of
them to the lines it stands for.

## 1. Inventory of the system

| Component | Code | State it keeps | Operations |
|---|---|---|---|
| Managed resolver | `managed_resolver.go`, `Close` in `manager.go` | `Manager.resolvers` (name to `managedResolver`) under `resolversMu`; per resolver `once`, `current`, `seeded`, `authEmpty`, `seedErr`, `cancel`; `closed`, `baseCtx` | `managedResolverFor`, `startManagedWatch`, `runManagedUpdates`, `store`, `clear`, `service`, `emptyErr`, `doClose` |
| Heartbeats | `consul.go`, `RegisterAsync` in `manager.go` | `consulRegistry.heartbeats` (ID to cancel func), `closed`; one goroutine per heartbeat | `Register`, `startHeartbeat` (`runHeartbeat`, `pass`), `Deregister`, `Close`, `RegisterAsync` |
| Consul watch loop | `consul.go` | `lastIndex`, `attempt`, the buffered event channel | `Watch`, `watchLoop`, `emitEntries`, `eventTypeFor`, `sleepCtx`, `backoffDuration` |
| Endpoints | `types.go`, `manager.go`, `consul.go` | none of its own: a `Service`, its `Meta`, a catalog entry | `Register`'s derivation, `normalizeEndpoints`, `serviceMeta`, `serviceFromEntry`, `EndpointFor`, `resolveEndpoint` |
| DynamicResolver | `resolver.go` | `snapshot`, an atomic pointer to an address with its scheme; view, fallback and the watch's `cancel`, which do not change | `WatchResolve`, `WatchResolveService`, `startResolverWatch`, `runResolverUpdates`, `Address`, `Scheme`, `Stop` |
| Registry lookups | `consul.go` | round-robin counter `rr` | `consulRegistry.Resolve`, `nextIndex` |
| Configuration | `config.go` | immutable after `New` | `ConfigFromEnv`, `withDefaults`, `parseAdvertiseAddrs`, `ttlWithDefaults`, `Validate` |
| Manager shell | `manager.go` | `enabled`, options | `New`, disabled mode, `Watch` |
| Transport, logger, example | `consul.go`, `logger.go`, `services/` | none | HTTP and TLS set-up, log lines, a demonstration |

How they interact. A caller of `Resolve*` finds or makes the resolver of its name
(`resolversMu`), waits in `once.Do` for the seed (one `registry.Resolve`), and reads
atomic fields. The seed opens `registry.Watch`: the Consul backend starts `watchLoop`,
which sends events into a channel; a goroutine of the manager receives them, calls
`registry.Resolve` again and stores or clears. `Manager.Close` cancels `baseCtx`, of
which the context of every managed watch is a child, empties the map and closes the registry, which
stops every heartbeat. `Register` writes endpoints into `Meta`; a consumer's
`registry.Resolve` reads them back; a resolver caches the result, and a view is taken
out of it at each call.

What is hard:

* **Concurrency without a lock.** A resolver's fields are written by the seeding caller
  and then by the watch, and read by everybody, one atomic access at a time; `seedErr`
  is a plain field that relies on `once`.
* **Close against everything**: a seed in flight, a first heartbeat pass in flight, a
  blocked event send, a retry loop.
* **Failure**: a failed refresh is not an empty catalog; a registration may be taken
  although its answer is lost; the agent and the server restart and lose state or go
  back in their index; a connection can hang without a word.
* **Ordering**: an event is older or newer than the state the refresh finds; a
  `Deregister` may overtake the `Register` it is meant to undo.
* **Compatibility**: endpoints travel through `Meta` next to keys that v0.6.0 knows.

What makes each component correct:

* *Managed resolver*: one resolver, one seed, one watch per name; one writer at a time;
  no read of a value that is not there; the cache changes only to what the registry
  answered; calls return; watches end with `Close` and not before.
* *Heartbeats*: every loop that beats can be stopped; none beats after `Close`;
  `Deregister` stops what was registered; a registration that is wanted becomes
  passing again, one that is abandoned disappears.
* *Watch loop*: no change is skipped; it recovers from outages, hangs and index
  rewinds; it ends with its context.
* *Configuration*: of the ways to write a setting the documented one wins; a TTL leaves
  room for two heartbeats.
* *Endpoints*: a consumer sees the endpoints the operator configured, never an
  in-cluster address under the external view; old readers and old entries work.
* *DynamicResolver*: address and scheme come from one source, a known address is not
  lost, every event is followed; `Stop` or the end of the caller's context ends the watch.
* *All of discovery*: once the catalog rests the cache holds an instance that passes, and
  an instance that is gone leaves the cache.

## 2. Modules

| Module | What it is |
|---|---|
| `ManagedResolver` | The watch-and-cache layer, its callers, its watches and `Close` |
| `LastKnownGood` | Abstract specification of a resolver's cache |
| `ManagedReads` | `ManagedResolver` with history variables: what one call may return, and what a cache may hold |
| `MCManagedResolver` | `ManagedReads` with the symmetry sets for TLC |
| `ManagedResolver_proofs` | Theorems about `ManagedResolver` |
| `ManagedReads_proofs` | Theorems about `ManagedReads`, and that `ManagedResolver` implements `LastKnownGood` |
| `Heartbeat` | Registration of one ID, its heartbeats, and the agent |
| `ConsulWatch` | The blocking-query loop for one name, the server, the consumer |
| `Discovery` | `ConsulWatch`, registry lookups and the cache of a name together |
| `DynamicResolver`, `MCDynamicResolver` | One DynamicResolver from its seed to `Stop`; the providers TLC tries |
| `Configuration` | The endpoint settings: environment, `Config`, parsing, defaults |
| `Timing`, `Timing_proofs` | TTL, heartbeat interval and backoff as functions; theorems about them |
| `Endpoints`, `MCEndpoints` | The way of an endpoint from configuration to consumer; the inputs TLC tries |
| `Heartbeat_proofs`, `ConsulWatch_proofs`, `Discovery_proofs`, `DynamicResolver_proofs`, `Endpoints_proofs` | Theorems about these modules |

`ManagedReads` extends `ManagedResolver` and keeps its steps; `Endpoints` extends
`Configuration` and `Timing`; `Discovery` extends `ConsulWatch` and takes the place of its
consumer, with `LastKnownGood` as the cache. So the chain is: `ManagedResolver` implements
`LastKnownGood`, and `Discovery` uses `LastKnownGood` where the program has the resolver.

Operators marked `mutant` are the code with a plausible bug. No action uses them; they
are what `PROJECT.json` substitutes to see each property fail.

### ManagedResolver

State: `closed`, `baseDone` (baseCtx cancelled), `closer` (the one `doClose`),
`resolvers`, `mr` (the fields of every `managedResolver`; `cancel` is nil, live or
cancelled), `watch` (goroutine and event channel of each resolver), `call` (where each
caller stands). `Resolvers` are the objects the heap has room for; `owner` is the name
an object was made for, and `Ephemeral` is the empty resolver handed out after `Close`.

Every load or store of a shared field is one action, in the order of the code: `store`
is `StoreCurrent`, `StoreAuth`, `StorePublish`; `clear` is `ClearAuth`, `ClearSeeded`;
`service` is `LoadSeeded`, `LoadCurrent`. Critical sections under `resolversMu` are one
action each, except that `doClose` holds the lock over several (`Locked`), so a lookup
waits for it. `once` is `OnceEnter` for the first caller and `OnceDone` for the others,
which cannot move in between. What the registry answers is any member of `Answers`
(a service, `ErrNoHealthyInstances`, another error), so no property leans on what the
catalog holds. A call that comes out empty returns the fallback or `EmptyErr`.
Projection of a view is in `Endpoints`. `ManagedReads` notes, for each call, every content
its resolver had or was being given while the call ran, and for each resolver what its
registry answered last (`answered`): a service, or that there is none when a refresh finds an
empty catalog; a failed query is no answer. The note is taken where the answer arrives and
does not look at what the goroutine then does with it.

### LastKnownGood

A cache per key, and what its refresher has learned and not yet installed. A registry
error is no step at all. `ManagedResolver!CacheIsLastKnownGood` is the refinement. A
store is not atomic, so the mapping has to say when it takes effect: at the first write
if the cache has a content (a reader that has seen `seeded` then gets the new one), at
the last if it is empty; a clear, at its last write. `learned` is computed from the
registry's answer and not from where the goroutine goes with it: a transient error that
led to a clear would be a change nothing was learned for. An answer that the goroutine
leaves aside, such as an empty catalog treated like a failed query, is never learned under this
mapping; `CacheIsLastAnswer` rules that out: between stores and clears the cache holds the
last answer.

### Heartbeat

One service ID and several goroutines that register it. `pub[p]` is the goroutine in
`Register` or in `RegisterAsync`'s loop, `loop[p]` its heartbeat goroutine, `beat[p]`
the request either of them has sent (the first pass runs on the caller's goroutine and
is the same code), `ctx[p]` the context of its heartbeat, `heartbeats` the entry of the
map. A request that is out may reach the agent although its context is cancelled, and
may fail although the agent took it. `AgentExpires`, `AgentReaps`, `AgentRestarts` are
the agent; anything it or the network does wrong costs one of `MaxFaults`, and so does
expiring a check that a live heartbeat maintains.

### ConsulWatch

`watchLoop` for one name: `pc`, `lastIndex`, `attempt`, the answer in hand, the entries
whose event is still to be sent, the channel. The server has an index that grows with
every change, goes down and up, and may restart with a smaller one. An answer is a
snapshot, handled later. `AnsweredStale` is the answer of a follower (the code allows stale
reads): any older catalog with a smaller index, which the loop takes for a restart. `Stuck` is a connection that dies silently; the ceiling of
`watchWaitTime + watchPollMargin` is the only thing that ends it. History: `told`, the
last event about each instance, and `base`, the life of the server `lastIndex` is from.

### Endpoints

A pipeline: `New` completes a configuration that comes from the environment or from a
`Config` struct, `Register` derives the endpoints and the health check and writes the
entry, `Refresh` reads it, `ResolveEndpoint` projects a view. Pointers and numbers in text
are sequences of at most one element; an address is a host with the scheme and port it may
be written with. `ForeignRegister` puts an entry of v0.6.0 or of other software in its
place. `AdvertisedAsWritten` compares the parsed configuration with what an operator meant,
stated over the sources themselves (`Preferred`, `Meant`): which source wins is said once,
and not as the two nested parses of the code. It leaves one default open, where code and
documents differ (section 4).

### DynamicResolver

The call that makes the object (`creator`), its watch goroutine (`updater`), the registry's
side of the channel, the caller's context, `Stop`, and a consumer (`reader`) that calls
`Address` and `Scheme` one after the other. `WatchResolve` and `WatchResolveService` are
the two values of `tracks`: the former's seed and fallback carry no scheme, its updates do.
A registry answer is any of `Services` or an error. `Close` of the manager is no action:
nothing it changes is looked at here (section 6).

### Discovery

`task` is the goroutine that fills the cache: the seed, the install, then wake, lookup and
install again. A lookup takes the catalog of the leader or an arbitrary older one, and
picks any instance that passes: the round robin is shared by all lookups of the process.
The watch loop runs only after the seed. Reads are `ManagedReads`.

## 3. Runs

| Run | Result | What it shows |
|---|---|---|
| `ManagedResolver_safety` | holds | `OneResolverPerName`, `SingleWriter`, `SeedBeforeRead`, `PublishedBeforeRead`, `WatchEndsOnlyWhenTold`; `CacheIsLastAnswer`: an empty catalog empties the cache, a failed query does not, and no store or clear is cut in two; `ReadsAreRegular`: a call returns what the cache held at some moment of the call, or was being given; `LateCallsDegrade`; `CacheIsLastKnownGood`: every step is one of the abstract cache |
| `ManagedResolver_live` | holds | `CallsReturn`, `WatchesEndAfterClose`, `EventsAreServed` |
| `ManagedReads_staleerr` | violated | `NoStaleSeedErr`, see finding 1 |
| `Heartbeat` | holds | Safety: `LiveLoopIsTracked`, `NoHeartbeatAfterClose`, `DeregisterStopsReturned`. Liveness: `AsyncRegisters`, `HeartbeatHeals`, `LoopsEndAfterClose`, `AbandonedIsReaped` |
| `Heartbeat_zombie` | violated | `DeregisterStopsHeartbeat`, see finding 2 |
| `ConsulWatch` | holds | `AnnouncedIsCatalog`, `LoopEnds`, `CatchesUp` |
| `ConsulWatch_removal` | violated | `RemovalIsAnnounced`, see finding 3 |
| `Endpoints_pipeline` | holds | `AdvertisedAsWritten`, `RoundTrip`, `ExternalViewIsExternal`, `OldReadersFindRoot`, `OldEntriesAreExternal`, `BeatsTwicePerTTL` |
| `DynamicResolver` | holds | `SnapshotIsOneSource`, `AddressIsNeverLost`, `WatchEnds`, `EventsAreFollowed` |
| `DynamicResolver_torn` | violated | `PairIsNotTorn`, see finding 4 |
| `Discovery` | holds | `SettledIsCurrent`, `DeadIsDropped` |
| `Discovery_flap` | violated | `AddressIsStable`, see finding 5 |

### Bounds, and why they are enough

* *ManagedResolver*: one name, two callers, two resolver objects. One caller seeds while
  the other waits, reads, or looks the name up; the second object is what a second
  resolver for the name would be, and is reached only if the code is broken. Names share
  nothing but the lock and `closed`, and two of them exceed what TLC can do in minutes;
  the theorems of section 5 hold for any number. Two services are an old and a new
  content. `ChanCap` 1 (16 in the code) fills and drains. The liveness run has one
  resolver object, since no second is made, and one service, since what is stored does not
  steer any step.
* *ManagedReads_staleerr* needs one caller and one service.
* *Heartbeat*: two publishers, one that retries and one that does not, so that one may
  replace the other in every phase; two faults are a loss and a second one during its
  repair. The `zombie` run needs one publisher and no fault.
* *ConsulWatch*: three indexes (before, at and past `lastIndex`), one restart, a channel
  of one, two instances so that a send of a batch can block in the middle. `MaxAttempt`
  stands for the growth of the backoff, which has no other effect. That a follower may be
  as old as the first catalog, at every poll, covers every lag.
* *Discovery*: two instances, so that the round robin has a choice and one can go while the
  other stays. The catalog starts in any state and changes once, before, during or after
  the seed, a poll or a refresh: the first poll announces what was there at the start, so
  that the change also meets a full channel and a refresh for an older event. No restart: `ConsulWatch` has it, and here `DeadIsDropped` names the exception it makes.
* *DynamicResolver*: an external-only, an internal-only and a dual provider and one with no
  endpoint, with and without a fallback, in both modes and all views. One reader is enough,
  as readers change nothing. Channel of two, so that an event can wait behind another.
* *Endpoints*: each setting unset, zero, malformed, plain or a URL with and without port or
  host, on values that differ from source to source; not every combination of all settings
  at once, but all those of the external variables, all of the internal ones, and all of a
  `Config` struct, each with the caller's `Service` fresh and stale. Negative port numbers
  are not among the inputs. TTLs lie around the two floors.

Deadlock is checked in the resolver and watch models. In `Heartbeat` everything has
really ended once the registry is closed, in `Endpoints` a refused registration ends the
pipeline, and in `DynamicResolver` a resolver that could not be made ends everything; their
configurations say so.

### Fairness

Weak fairness for each goroutine: the Go scheduler runs what is runnable, and a registry
call returns because its context, its timeout or the poll ceiling ends it. Nobody is
obliged to call `Resolve`, `Register`, `Deregister` or `Close`, no catalog has to change
and no channel of the registry has to carry an event. A begun `Close` or `Deregister`
goes on. In `Heartbeat` the agent expires and reaps what nobody maintains, as its TTL and
`DeregisterCriticalServiceAfter` make it. In `ConsulWatch` an answer is strongly fair: a
server that is up again and again answers some poll, not every one; without it the loop
could be stuck on every single connection. The consumer receives until it cancels. In
`Discovery` the refresher is weakly fair in the consumer's place, and may still fail or be
answered by a follower for ever; `DeadIsDropped` says what then is not promised. In
`DynamicResolver` the watch goroutine is fair, and so is the registry in closing the
channel of a watch whose context has ended.

## 4. Findings

1. `emptyErr` can return the old seed error after an authoritative clear
   (`managed_resolver.go:92-98` excludes it): `service` finds `seeded` false, then the
   watch's next `store` resets `authEmpty` before it sets `seeded`, and `emptyErr`
   looks in between.
2. A `Deregister` during the first pass of a `Register` (`consul.go:345-363`) finds no
   heartbeat to stop; the loop stored afterwards beats on, and puts the service back when
   the agent does not know it. `types.go:171` says that `Deregister` stops the heartbeat.
   `DeregisterStopsReturned` is what does hold.
3. The removal of an instance is never announced (`emitEntries` sends one event for each
   entry that is left, none when no entry is), although `types.go:184` says it is.
4. `Address()` and `Scheme()` load the snapshot one by one, so that a consumer that needs
   both can get the address of one provider with the scheme of another, although
   `resolver.go:27-28` rules out such a pair. `SnapshotIsOneSource` is what does hold.
5. Each event refreshes the cache with the next turn of the round robin, and the first poll
   announces every instance: with two replicas the cached address moves although the
   catalog has not changed (`doc.go:41`, `README.md:63` of the library say that it stays).

Differences between code and documentation that need no run to see:

* With an external endpoint, `SD_INTERNAL_PORT` defaults to the advertised external port
  (`manager.go:227-229`) and not to the port passed to `Register` (`README.md:240`,
  `config.go:99-100` and `186`, `doc.go:139`). The two differ when an external port is
  configured; for that case `AdvertisedAsWritten` takes no side and allows either port.
* `Scheme()` of a resolver made by `WatchResolve` is empty only until the first update
  (`resolver.go:72-74` and `474`).
* `Manager.Close` does not stop a DynamicResolver: its watch derives from the caller's
  context (`resolver.go:395`), although `resolver.go:410` names `Close`.
* `ErrEmptyConsulAddr` cannot come out of `New`, which fills the address before it
  validates (`manager.go:121-123`).

## 5. Proofs

Every invariant and every action property that a passing run checks is also a theorem,
for any constants that satisfy the assumptions below; what is left to TLC alone is
liveness, and of several liveness properties the part that is safety is a theorem: whoever
is waited for exists, and nothing has ended it but what may. In each `_proofs` module the
steps are the same: an inductive `IInv`, a lemma that the initial states have it, one that
every action keeps it, and the theorems drawn from it. TLC confirmed each invariant on the
instance of the run before it was proved.

| Module | Theorems | State |
|---|---|---|
| `ManagedResolver_proofs` | `TypeCorrect`, `ResolverUnique`, `WriterUnique`, `SeedHappensBeforeRead`, `ReadsFindAService`, `WatchesSurviveErrors`, `WaitersHaveASeeder`, `EventsHaveAReader` | `TypeOK`, `OneResolverPerName`, `SingleWriter`, `SeedBeforeRead`, `PublishedBeforeRead`, `WatchEndsOnlyWhenTold`; safety part of `CallsReturn`, `EventsAreServed` |
| `ManagedReads_proofs` | `CallsReadWhatWas`, `CallsAfterCloseDegrade`, `CacheRefines`, `CacheFollowsAnswers` | `ReadsAreRegular`, `LateCallsDegrade`, `CacheIsLastKnownGood`, `CacheIsLastAnswer` |
| `Heartbeat_proofs` | `TypeCorrect`, `LoopsTracked`, `NoneAfterClose`, `ReturnedAreStopped`, `StoredHeartbeatBeats`, `AbandonedIsNotMaintained` | `TypeOK`, `LiveLoopIsTracked`, `NoHeartbeatAfterClose`, `DeregisterStopsReturned`; safety part of `HeartbeatHeals`, `AbandonedIsReaped` |
| `ConsulWatch_proofs` | `TypeCorrect`, `CatalogIsAnnounced` | `TypeOK`, `AnnouncedIsCatalog` |
| `Discovery_proofs` | `DTypeCorrect`, `QuietCacheIsCurrent`, `AnnouncedIsLookedUp`, `CacheIsOfLKG` | `DTypeOK`, `SettledIsCurrent`, and `LKG!Spec`; safety part of `CatchesUp`, `DeadIsDropped` |
| `DynamicResolver_proofs` | `TypeCorrect`, `OneSourceStored`, `AddressStays`, `EventsHaveAReader` | `TypeOK`, `SnapshotIsOneSource`, `AddressIsNeverLost`; safety part of `EventsAreFollowed` |
| `Endpoints_proofs` | `TypeCorrect`, `WrittenIsAdvertised`, `EndpointsSurvive`, `ViewsAreNotMixed`, `RootServesOldReaders`, `OldEntriesAreRead`, `HeartbeatsKeepUp` | `TypeOK`, `AdvertisedAsWritten`, `RoundTrip`, `ExternalViewIsExternal`, `OldReadersFindRoot`, `OldEntriesAreExternal`, `BeatsTwicePerTTL` |
| `Timing_proofs` | `TwoBeatsPerTTL`, `BackoffIsBounded` | about functions, no state |

### Assumptions

Each module names its own `ConstantsAssumption`, and TLC evaluates it in every run.

* *ManagedResolver*: the channel has a capacity, and the values for nil, for errors and for
  the fallback are no name, object or service.
* *Heartbeat*: the retrying publishers are publishers, the budget of faults is a number.
* *ConsulWatch*, *Discovery*: the channel has a capacity, the bounds are numbers, nil is no
  instance. The theorems hold for every value of the bounds, hence for runs of any length.
* *DynamicResolver*: the empty text is no address and no scheme name, the registry answers
  with two pointers, and the fallback is an endpoint.
* *Endpoints*: ports are positive (0 is unset), the empty text is no address and no scheme,
  a malformed number is none, and each registration has the declared shape. The shape is
  generous: any combination of settings, any stale `Service` and any entry of other software.

Names, callers, objects, services, publishers and instances are any sets.

### ManagedResolver

    IInv == Typed /\ CloseOrder /\ Owned /\ Fresh /\ OnceOrder /\ Stored

* `Typed` adds to `TypeOK` what each goroutine holds: a caller inside a call has a name,
  one in the seed has a resolver, one about to store has a service. Without it a store
  could write nil.
* `CloseOrder`: the drain runs only after `closed` was set.
* `Owned`: an entry of the map leads to a resolver of that name, and before `Close` a
  resolver is reached from its name. So a caller that finds no entry, and `closed` still
  false under the same lock, knows that no resolver exists. After `Close` the map is
  empty and this fails, but then nobody makes one: hence `CloseOrder` and the guard.
* `Fresh`: nobody holds an object that has not been made into a resolver. So making one
  disturbs no goroutine.
* `OnceOrder`: seeding means that `once` is running, reading and watching mean that it is
  done, and one caller seeds. `SingleWriter` and `SeedBeforeRead` follow at once.
* `Stored`: whoever has passed the store of `current`, or has seen `seeded`, finds a
  service in `current`.

The proofs do not split on every action for every part: the lemmas `Moves`, `CallOver`,
`EndsOnce`, `Woken` and `Refreshed` say what kinds of steps there are for one caller and one
watch, and each part is shown to survive each kind.

`WatchesSurviveErrors` needs only the types. Two theorems rest on invariants of their own,
which have parts of `IInv` as hypotheses:

* `WaitersHaveASeeder`: `OnceOrder` says that a caller that seeds does so while `once` is
  running. The converse, `RunningHasSeeder`, is what a waiting caller depends on: no step
  leaves the seed without ending `once`, not even a watch that fails to open or a `Close` in
  between.
* `EventsHaveAReader`: `WatchTold` says that no channel precedes its goroutine, and that a
  closed channel or an ended goroutine means an ended context. A seed writes `cancel`; that
  this takes no end back follows from `OnceOrder`, as its watch is not there yet.

### ManagedReads

`CallsReadWhatWas` and `CallsAfterCloseDegrade` are about `HSpec`, the same steps with
histories. `EveryoneMoves` sums up what a step can do to a caller, and `WritesOfStep` what
it can do to `current`, so that the proofs are not case analyses on all actions. On top of
`IInv`: `SeenIsVisible` (a call has seen what its cache holds or is being given),
`DecidedOnSeen` (having seen `seeded`, a caller will load something it has seen: what a
store writes in between is being given, therefore seen), `MapStaysEmpty` and
`LateIsEphemeral` (a call begun after `Close` finds no entry, then `closed`), and
`EphemeralIsEmpty` (nobody writes the object those calls get).

`CacheRefines` is the refinement of `LastKnownGood`, about `Spec` itself:

1. `StartsEmpty`: before any resolver is made, every abstract cache is empty.
2. `AnswerHeld`: from the registry's answer to the last write, a goroutine writes that
   answer, and `current` keeps it between the writes. It needs `SingleWriter`, in the form
   of `OnceOrder`: a second writer would change `current` in between. `UnmadeIsEmpty`: an
   object that is not made holds nothing, so that making it is a stutter.
3. `StepMovesOne`: every step moves the abstract cache of one resolver at most, by `Learn`
   (`SeedMovesOne`, `RefreshMovesOne`: a registry answer arrives), by `Install` (the write at
   which a store or a clear takes effect, section 2), or not at all (`QuietCaller`,
   `RestMovesNone`). The later writes of a store, every read, lookup, event and all of
   `Close` are stutters.
4. `OneCacheMovesIsLKG`: that is a step of the abstract specification.

`CacheFollowsAnswers` draws on the same lemmas. Its invariant is `AnswerComing`: what was
answered last is either learned and on its way, or it is what the cache holds. An answer
becomes what is learned (`AnswerIsLearned`), nothing else does (`CacheStep` says so for every
step), and only an install ends it. A cache at rest has nothing learned, hence the answer.

### Heartbeat

    IInv == TypeOK /\ OneGoroutine /\ ContextOrder /\ LiveLoopIsTracked /\ NoHeartbeatAfterClose

`OneGoroutine`: a loop begins when the `Register` that starts it has returned, so that the
caller and the loop never make a pass at the same time. `ContextOrder`: a heartbeat context
lives from the first pass to the end of the loop; without it a live context could belong to
no goroutine that `LiveLoopIsTracked` looks at. With these `LiveLoopIsTracked` is inductive:
what replaces an entry cancels it. `ReturnedAreStopped` is an action property of the same
invariant: a publisher that has returned and has a live context has a loop that beats, which is
the entry that `Deregister` cancels. The faults and the agent are not part of the argument:
`Local` is the invariant without them, and what they do keeps it.

`LiveLoopIsTracked` says that what beats is in `heartbeats`; `StoredBeats` says the converse,
that what is in `heartbeats` beats, or will when its `Register` has spawned it: what is to heal
the registration is there (`StoredHeartbeatBeats`). The first of the two, with
`ContextOrder`, gives `AbandonedIsNotMaintained`: an empty map and no `Register` under way mean
that nothing beats, and what the agent then reaps had no keeper.

### ConsulWatch and Discovery

    IInv == TypeOK /\ NotFromFuture /\ AnswerIsOfServer /\ EmitsAnswer /\ AnnouncedIsCatalog

An answer is handled after the server has gone on, so the invariant has to compare three
moments. `NotFromFuture`: `lastIndex` is not ahead of a server in the same life.
`AnswerIsOfServer`: an answer with the server's index is of its catalog, an older one has a
smaller index; this is where a stale answer of a follower is told from a current one.
`EmitsAnswer`: while a batch is sent, what is no longer pending has been announced. A change
moves the index past everything read, and a restart begins a life of which nothing was read:
in both cases the loop is no longer level (`ServerKeepsRest`).

`Discovery_proofs` extends these: `IInv` depends on the loop's variables only, so that its
lemmas hold while the refresher takes the consumer's place. It adds `SeedFirst` (no poll
before the seed), `OnlyToldToEnd` (loop and refresher end with the context) and
`ToldIsLookedUp`: once the loop has sent an event about the present catalog, that event is
still in the channel, or a lookup is to come, or the last lookup the leader answered gave
what the catalog gives now. The channel decides the argument: an event that was consumed
before a change says nothing, and the loop is then no longer level. `AnnouncedIsLookedUp`
states this for every moment, `QuietCacheIsCurrent` for those at rest. `CacheIsOfLKG` joins
the two halves of the chain: the cache here takes only the steps of `LastKnownGood`, which
`CacheRefines` shows of the real one.

### DynamicResolver

    IInv == TypeOK /\ FallbackOrNone /\ Carried /\ Seeded

`FallbackOrNone`: a missing fallback is the empty pair. `Carried`: the goroutine stores only
a pair that one source gave, with an address; that is what `AddressIsNeverLost` needs and
`SnapshotIsOneSource` does not say. `Seeded`: nobody writes before the seed, and the
goroutine runs in a resolver that is made, which is why its writes and the seed's cannot
meet. `EventsHaveAReader` is drawn from `Told`, the counterpart here of `WatchTold`.

### Endpoints

    IInv == TypeOK /\ Configured /\ Published /\ CachedIsRead /\ Answered

The invariant says that each stage is a function of those before it: the configuration of the
registration, the entry of the configuration, the cached `Service` of the entry, the answer
of the `Service`. The theorems are then about the composition of the functions:

* `FirstOf3`, `FirstIntOf3`, `PreferredOf3`: the loop over the environment names and the
  preference that `AdvertisedAsWritten` is stated with agree. `ParsedTwice`: what
  `ConfigFromEnv` has parsed, `New` parses to itself, although a URL that sets port and scheme
  is gone by then. With `MeantIsRaw` these give `WrittenIsAdvertised`.
* `MetaIs`, `WrittenIsRead`: what `serviceMeta` writes, `serviceFromEntry` reads back, for
  each of the three combinations of endpoints, because every reserved key is set or
  deleted. They give `EndpointsSurvive`, and with it `ViewsAreNotMixed`.
* `TTLIs` and `TwoBeatsPerTTL` give `HeartbeatsKeepUp`.

The environment has the three variables per setting that the code names. A list of any length
would need an induction, which is out of reach (below); the functions themselves are
recursive over the list, as the loop is.

### Timing

| Theorem | Statement |
|---|---|
| `TwoBeatsPerTTL` | the TTL that is registered is not below the one asked for, and two heartbeat intervals fit into it; the interval keeps its floor |
| `BackoffIsBounded` | the pause between polls stays between base and maximum, and never shrinks from one failure to the next |

For every integer duration and number of attempts; case analysis on the two floors, and the
powers below the cut-off (`Powers`, `BackoffCases`).

### Only model-checked

Liveness: `CallsReturn`, `WatchesEndAfterClose`, `EventsAreServed`, `AsyncRegisters`,
`HeartbeatHeals`, `LoopsEndAfterClose`, `AbandonedIsReaped`, `LoopEnds`,
`CatchesUp`, `WatchEnds`, `EventsAreFollowed`, `DeadIsDropped`. They rest on fairness, which
TLAPS 1.4 cannot reason about (`WF_`, `SF_`, `ENABLED`). Induction over data is out of its
reach too: its induction theorems take an operator as a parameter, which no installed
backend instantiates. The five findings are counterexamples and need no proof.

## 6. Not modelled, and why

* A panic of a registry implementation: `SafeGo` logs it and the goroutine is gone. A caller
  whose context ends while it waits in `once.Do`: the code does not look at it either.
* HTTP-mode health checks need no goroutine; which endpoint is probed is modelled, the path
  of its URL is not.
* The disabled mode of everything but DynamicResolver, `Manager.Watch`: no state, or none
  that changes.
* The settings with one source and a default (Consul address, TLS, token, timeouts, stale
  mode), which only choose how the Consul client connects.
* Workloads: a tag at registration and a filter at a lookup. In `Discovery` an instance of
  another workload is one that does not pass.
* The overflow of the round-robin counter, which takes 2^63 lookups.
* Transport, TLS, logging, the example program.
* Data: texts, URLs and times, except where a property tells them apart.

## 7. What could follow

Every safety property of the runs is proved. What could still be added:

1. The safety part of a remaining liveness property, `AsyncRegisters`; that of `LoopEnds`, `LoopsEndAfterClose` and `WatchEnds` is who can end
   the goroutine, which the invariants already say.
2. Lemmas about the functions of `Endpoints` for inputs beyond `Registrations`, such as
   entries of other software.
