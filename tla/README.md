# TLA+ models of dbgjs

dbgjs is a debugger for JavaScript runtimes. A daemon, `dbgjs-service`, keeps
*contexts*; a context has connections (browsers, Node processes, Electron
applications) and breakpoints; clients (the command line, the TUI, the VS Code
extension) talk to the daemon over a local RPC socket. This directory models the
part of the daemon where several tasks work on the same state, checks it with TLC
on small instances and proves the central results with TLAPS for every instance.
Paths below are relative to `packages/dbgjs/src`.

## 1. The system

### 1.1 Parts, their state and how they interact

| Part | State | Operations | Talks to |
|---|---|---|---|
| Context reducer (`service/context_engine.rs`) | none: a pure function from a context and an input to the next context and effects | user commands, runtime observations, effect completions | called by every handler under the state lock |
| Service state (`service/debugger_service.rs`) | contexts, `completed_requests`, `history`, `runtimes`, `target_debuggers`, `pause_children_leases`, resource graphs, all under one `tokio::sync::Mutex` | `commit_context`, `persist_or_restore`, `check_mutation_options`, `load_state` | the state file; `revision_signal` wakes observers |
| Connection handlers (`debugger_service/context.rs`, `service.rs`) | their locals across an await: the attempt, the recipe, the runtime they hold | put/delete context, put/connect/disconnect/delete connection, pause lease, shutdown | reducer, providers, `supervise_runtime` |
| Supervisors (`supervise_runtime`, `supervise_target_events`, `supervise_provider_target_events`) | the runtime and attempt they were spawned for | wait for the end of a transport, follow target events | service state, resource graph |
| Idle supervision (`debugger_service/idle.rs`) | an activity clock per connect, guards held by operations, the timeouts of contexts and connections | count an operation in and out, look at all connections once per second, disconnect those that are due | connection handlers |
| Captures (`debugger_service/capture.rs`, `heap_profiler.rs`, `coverage.rs`, `cpu_profiler.rs`) | the catalog and its copy in the state file, reservations of names, payload files, the debugger's copy of a heap snapshot | reserve, capture, copy, publish, promote, delete; guards that clean up after a dropped handler; scavenging at start | target debuggers, the state file, the capture directory |
| Breakpoint intent (`debugger_service/context.rs`, `target_debugger.rs`) | one intent lock per context | put/delete breakpoint, logpoints, attach/detach | target debuggers |
| Debugger reducer (`debugger/debugger_engine.rs`) | none: a pure function from the state of one target's debugger (sessions, scripts, logical and physical breakpoints, pauses, pending effects) and an input to the next state and effects | inputs from commands, browser events and completions | called by the driver |
| Target debugger and driver (`debugger/target_debugger.rs`, `debugger_driver.rs`) | the reducer's state, the effects of one drain, `breakpoint_owners` | one task per target: commands, browser events, `drain_effects` | CDP runtime, source effects |
| Virtual browser root and session transport (`service/virtual_browser_root.rs`, `connection/transport/session_transport.rs`) | page sessions, routes of child sessions, bounded queues and budgets, watcher and event tasks | attach, route events and requests of a child, fail a route, detach, close the endpoint | CDP clients, the debuggee |
| CDP runtime (`debugger/cdp_runtime.rs`) | pending requests | call, notify, close | the debuggee |
| Pause leases (`connection/discovery/mod.rs`, `connection/providers/mod.rs`) | reference counts per root resource | acquire, drop, `arm` | the renderer bridge over a control socket |
| Resource graph, source model, capture analysis, discovery, relay, desktop, clients | see section 6 | | |

Handlers are tokio tasks. They take the state lock, read and change the state,
release it, await something slow (opening or closing a runtime, arming a lease)
and take it again. Nothing is atomic but the section between two awaits. That is
the grain of the models: **one action per locked section, one per await that
changes something**.

### 1.2 What is hard

* **Stale completions.** Between the two sections of `connect_connection` the
  connection may be disconnected, reconnected, replaced, or deleted with its
  context. What comes back has to be recognised as stale and closed.
* **Several writers of one slot.** `state.runtimes` is written by connect,
  disconnect, `delete_context`, `shutdown` and by the supervisor of each runtime;
  supervisors of old runtimes are still running when a new one is published.
* **Recovery.** Part of a context is durable and part is not, yet both share one
  revision counter; mutations are retried with request ids.
* **Long polls.** An observer subscribes, checks and waits; the history is bounded.
* **Fan-out with partial failure.** A breakpoint of a context is applied to one
  debugger after the other, without the state lock, while debuggers stop, detach,
  are replaced, or lose their context; targets may own logpoints of the same ids.
* **Effects behind a pure reducer.** Sources are fetched, built and mapped, and
  breakpoints installed, one request at a time while scripts are parsed again and
  breakpoints replaced; a request that fails, or a command that arrives, ends a drain
  half way through. Assessments are kept up to date incrementally.
* **Work that outlives its caller.** A capture is a chain of steps, some on disk, some
  in the debugger's task; the handler may be dropped at any await, its guard cleans up
  beside a deletion, a reconnect or a second call for the same name, and the process may
  end in between.
* **Looking before acting.** The idle supervisor decides in one locked section and
  disconnects in another; operations begin, timeouts change and connections are
  replaced between them.
* **Two channels to one listener.** An attachment is announced on one channel, the events
  of the attached child come on another; each has bounded queues and may fail alone.
* **Distributed flags.** Pausing of new targets is a reference count in the
  daemon and a flag in another process, joined by an ordered socket.

The hazards, each with its line and the properties that cover it, are in
`PROJECT.json`.

## 2. Modules

```
ContextEngine            the reducer's connection transitions, as operators
   |
ConnectionService        handlers, runtimes, supervisors, leases of one context
   |            \____ INSTANCE ConnectionLifecycle   what it promises
ConnectionServiceInvariant    the inductive invariant
   |
ConnectionServiceProofs       the invariant is inductive; safety, action property
                              and the refinement of ConnectionLifecycle, proved

ContextStore             revisions, persistence, retries, observation
   |____ MCContextStore  ____ ContextStoreProofs
IdleSupervision          activity clocks, timeouts and the supervisor
PauseChildrenLease       reference count, arm(), disarm tasks, bridge flag
   |____ SupervisionProofs    of both; neither refers to the other
BreakpointIntent         context breakpoints, logpoints and attached debuggers
   |
BreakpointIntentInvariant     the inductive invariant
   |____ MCBreakpointIntent  ____ BreakpointIntentProofs

DebuggerReducer          the inputs of one target's reducer, as operators
   |
DebuggerDriver           the task, its drains and the browser
   |____ MCDebuggerDriver  ____ DebuggerDriverProofs
                                   |____ DebuggerReconciliationProofs

CaptureStore             reservations, payload files, the catalog and its crashes
   |____ MCCaptureStore  ____ CaptureStoreProofs
ChildSessions            routes, tasks and announcements of native child sessions
   |____ ChildSessionsProofs
```

A module `X` has its properties at its end, after the operators that model the code; a
definition marked `Fault:` is the code with one plausible mistake and belongs to no
behaviour of `Spec`. `MCX` gives the constants of `X` their values where a `.cfg` cannot,
`XProofs` holds the inductive invariant and the theorems. The type operators of
`ContextStore`, `CaptureStore`, `IdleSupervision` and `ChildSessions` are read as
documentation; what is proved there is the `Typed` of their proof modules.

### ContextEngine and ConnectionService

`ContextEngine` has one pair of operators per reducer input: the condition under
which the reducer returns a changed context, and that context. An absent map entry
is `NoConnection`, with counters 0, so that `map_or(1, |c| c.version + 1)` needs no
case distinction. Errors and unchanged contexts are stutters.

| Variable of `ConnectionService` | In the code |
|---|---|
| `contextExists`, `connections` | `state.contexts[id]`, its `connections` |
| `runtimes` | `state.runtimes`; an `Arc<ConnectionRuntime>` is an element of `Runtimes`, compared by identity as `Arc::ptr_eq` does |
| `leases` | `state.pause_children_leases`, as the runtime the lease was taken on |
| `transport`, `supervisor` | life of each runtime and of its `supervise_runtime` task |
| `origin` | the attempt and recipe a runtime was opened with |
| `call` | handler tasks: where they are and the locals they keep |
| `incarnation` | history variable: how often an id was created |
| `stopping` | history variable: `shutdown` was called |

Actions are named after the step of the handler: `ConnectBegins` is the first
section of `connect_connection`; `ConnectOpens` and `ConnectIsRefused` are what
`connect_runtime` may return; `ConnectFindsNoContext`, `ConnectIsStale`,
`ConnectCannotStage`, `ConnectPublishes` and `ConnectFails` are the branches of the
second section; `ConnectDiscards` is the `close().await` of a runtime it may not
publish. `DisconnectBegins`, `DisconnectCloses` and `DisconnectReturns` are
`disconnect_connection_internal`, for a client or for the idle supervisor.
`DeleteContext` and `Shutdown` share the loop that closes what they removed
(`ClearingCloses`, `ClearingReturns`). `SupervisorWakes` and `SupervisorCloses` are
`supervise_runtime`; `TargetUpdateIsRejected` is the forced close by the tasks that
follow target events.

`ConnectionLifecycle` is the abstract specification: each connection has a phase
and a link to at most one runtime; there are no handlers, no transports and no
stale completions. `phase` is read off the status, `link` is `runtimes`, `used` is
the set of runtimes that ever had a supervisor.

### ContextStore

`context` is what is in memory, `disk` what `persist_or_restore` has written,
`history` the revisions `commit_context` keeps, `completed` the request ids,
`request` and `observer` the clients. The intent is a map of breakpoints; other
durable commands commit and persist in the same way. A client sends a command,
possibly guarded by the revision it has read, and sends it again until an answer
arrives; `Answer` chooses whether it arrives. `Persist` chooses whether the write
succeeds. `Restart` may happen at any moment. `basis.valid` and `observer.valid`
are history: false once a restart or deletion has taken the revision back.

### PauseChildrenLease

Its specification is called `LeaseSpec`, so that one module can hold the proofs about it
and about `IdleSupervision`.

One runtime with an installed bridge. `call` is where each
`set_pause_future_children(true)` handler is inside `arm()`; `demand` is the count
of the registry; `disarming` counts the tasks spawned by the last drop that have
not written yet; `wire` is what is written to the control socket and not yet
applied; `armed` is the flag in the bridge. `ConnectionEnds` is what a disconnect,
a loss, a deletion or the shutdown does to the stored lease.

### BreakpointIntent

| Variable | In the code |
|---|---|
| `exists`, `revision`, `intent` | the context, its revision and its breakpoints; `scope` is the set of targets for which `breakpoint_applies_to_target` is true |
| `registered` | `state.target_debuggers`; a handle is an element of `Debuggers`, compared as `same_instance` does |
| `opening`, `stale` | debuggers that `attach_target_internal` has started and not registered, and those for which its last check will fail |
| `job` | the handler that holds the intent lock: step, id, wanted breakpoint, revision, debuggers still to be told |
| `live`, `held`, `owner`, `mark` | the actor of a debugger, the breakpoints in its engine, `breakpoint_owners` |
| `failed`, `skipped` | history: what an error left undone, by the debugger that failed and by those behind it |

Only one handler holds the lock, so one record is enough for all of them; a handler
that waits for it has read nothing that it uses later. `PutBegins` and
`PutChecksOwner` are `reject_target_logpoint_collision`, `PutCommits` the locked
section, `ApplySet` to `RemoveFails` one round of the loop, `Publish` and `Reply` what
follows. `AttachBegins` is the attachment up to the started debugger,
`AttachRegisters` or `AttachIsRefused` the section under the intent lock, `Seed` one
command of `seed_attached_breakpoints`. `Installs` and `Removes` are the commands of
the actor with `BreakpointOwnership`; an installation that fails is rolled back, a
removal that fails has already left the engine. The commands without the lock are
actions of their own. The loop visits the debuggers in the order of their keys; the
model leaves the order open.

### DebuggerReducer and DebuggerDriver

`BreakpointIntent` treats a debugger as a set of breakpoints that it holds or fails to
set. These two modules are what is behind that set.

`DebuggerReducer` has one operator per input of `reduce`, and one per helper function,
under the code's names. Its argument and result is the record of the reducer's state
with `out`, the effects emitted so far. Effects are records of what they do; the code
numbers them, but allocates no second effect of the same content while a completion of
the first may come, so the number says no more. `scripts[s]` has the version, the state
of the source and the view built from it; `breakpoints[b]` the candidate index, the
pending mappings, the assessments per script and the bindings; `physical[p]` the owners
and the status of what the browser is asked to hold. One session is modelled, attached
and configured. Urls match exactly or in a friendly way (`FriendlyPairs`, of which
`friendly_source_matches` is the code), and contents and positions are opaque. A script has
one text, `ScriptText[s]`: nothing in the repository edits a script, so a source fetched
again after a failed build is the same.

| Variable of `DebuggerDriver` | In the code |
|---|---|
| `state` | `DebuggerDriver.state` |
| `queue` | the local queue of `drain_effects_with_control` |
| `mode`, `settling`, `command` | where `run_target` is: between inputs, in a command (a batch, with what it has applied and whether it rolls back), in an event, or stopped; whether a command settles |
| `installed`, `browser` | the browser: breakpoints it holds, the pause it is in, events on their way |
| `failures`, `bound` | how many unmodelled failures happened; the bounds of this behaviour |

`ExecuteEffect` is one round of the drain: the effect is carried out (`cdp_runtime.rs`
or `source_effects.rs`), its completion reduced and the effects of that appended.
`EffectFails` is a protocol error, by which the drain returns; a failure to fetch, to
build or to project a frame is an input instead. `DrainIsDropped` is the `select!` of
`run_target` that drops the future of an event when a command arrives, or the timeout of
a settling command; the request under way may have reached the browser. After either,
the lost effects stay in `pending` and no property about a state at rest applies until
the code replaces them: `BindingsMatchOwners`, `StaysHeld` and the properties of the
pause hold all the same. Since the driver sends no failure for an install, the physical
status `failed` is unreachable here, although the reducer has it.

`QuietIsReconciled` compares the incremental reconciliation with the full one: at rest,
`ReconcileBreakpoint` changes nothing. `QuietIsDecided` has one exception, which TLC
found: a script whose text was fetched and whose view could not be built, and which
matches by its own url, keeps the assessment it had (`waiting`, or none), because
`ensure_mapping` has no view to map through.

### CaptureStore

One context, one connection, one target. "Plain" captures (coverage, CPU profiles) bring
their payload in one answer of the debugger; of a heap snapshot the debugger keeps a copy
under its name until the payload is stored.

| Variable | In the code |
|---|---|
| `catalog`, `disk` | `state.captures`, `next_capture_id`, and what `persist_or_restore` has written of them |
| `reservations` | `state.capture_reservations` |
| `files` | staging and final file of each storage id; `Partial` is a file cut off by a crash |
| `call`, `deletion`, `purge` | the handlers, their guards and the tasks that clean up, each at its await |
| `context`, `generation`, `live`, `connects` | what `capture_reservation_is_current` compares |
| `debugger`, `inbox`, `scratch` | the task of the target, its commands in order, and the snapshots it holds |
| `up`, `faults`, `nextStorage` | the process; how often something failed; the storage ids given out |
| `issued`, `lost` | history: the names generated, and the storage of deletions that were dropped after they removed it |

`Begin`, `Reserve`, `Rejoin`, `Rejoined` and `PromoteLoad` are the lookups of
`reserve_capture_optional` and `promote_completed_capture`; `Captured` is the answer of
the debugger, `PublishFile` the rename of the staged payload, `StoreCheck`, `StoreWrite`
and `StoreComplete` the steps of `store_capture` and `store_heap_capture`, `Commit` the
catalog's. `Cancel` drops a handler and `Drop`, `Cleanup` and `Release` are what its guard
does; `DeleteBegin` to `DropDeletion` are `delete_capture`; `Crash` and `Restart` keep
`disk` and `files` and scavenge what no entry refers to. A write of the catalog or of a
file may fail at each of these points.

What is abstracted: a process crash keeps every completed rename and `AtomicWriteFile`
commits atomically; the lock sections of `promote_completed_capture` and of the lookup
of the debugger before the reservation are one; a connect waits for the debugger of the
previous one to end; generated names are counted to one past the bound.

### IdleSupervision

`clock` has one record per connect, as each makes an `ActivityClock` of its own that the
guards of earlier operations outlive; time is the age of a clock, counted to the longest
timeout, and `Pass` lets one unit of it go by. `Tick` is the look of
`supervise_idle_connections` with its refresh of blocked connections, and
`DisconnectExpired` that of `disconnect_connection_internal` for one of the candidates. A
timeout may be set and made infinite at any time (`SetPolicy`). `Begin` and `End` are the
guards of operations; `Connect` has one of its own. `Block` and `Relay` stand for
everything that blocks: paused or recording debuggers, proxies and relays. `closer` is
history, and so is `unused`, the time since a connection was used or the supervisor
*found* it blocked: it looks once per second, and under an infinite timeout not at all.

### ChildSessions

The native children of one endpoint of the virtual browser root. An event of a page's
target goes to the `sink` of its page sessions and is taken by the `forwarder`; the
child's own events go over `wire`, the mux (`RouteEvent`), the queue of its route, the
notifier task (`Notifier*`) and, when a listener is there, to the client.

| Variable | In the code |
|---|---|
| `route` | `raw_routes`: queue, what waits for a listener, failure, budget and the synthetic flag |
| `owner`, `client`, `open` | `child_routes`, the client's channels, the attached page sessions |
| `forwarder`, `watcher` | the event task of a page session and the failure task of a route, at their awaits |
| `calls` | requests of a raw session, of a client, and those given up but unanswered, all counted by the route's budget |
| `native`, `told`, `got` | the browser; history of what clients were told and got |

`RouteAttached` is `route_child_event`, `Activate` its second half, `RefuseAttached` the
rollback; `WatcherRemoves`, `WatcherRetires`, `WatcherTells` and `WatcherDetaches` are the
four steps of a watcher that finds its route failed. A child has no children of its own
here, and `attach_child` endpoints are left out.

## 3. Runs

| Run | Checks | Instance |
|---|---|---|
| `connection_service` | four safety properties, `OnlyOwnerUnpublishes`, `LossIsNoticed`, `ConnectionLifecycle` with its fairness | one connection, two recipes, two handlers, two runtimes, two versions and generations; 252 744 states |
| `attempts_repeat` | finding 1 | two incarnations |
| `context_store` | `DiskHoldsIntent`, `RequestAppliedOnce`, `RevisionNamesOneState`, `AnswerIsComplete`, `ObserverIsNotified` | two requests, or a request and an observer; history of two, four revisions, two restarts or deletions; 1 887 689 states |
| `pause_lease` | `DemandCountsLeases`, `NeverLeftArmed`, `ArmedNeedsDemand` | two arming handlers, three frames in flight, two client requests; 70 772 states |
| `lease_without_pausing` | finding 2 | |
| `breakpoint_intent` | `AppliedWhenSettled`, `CommandsAreNeverStale`, `LogpointsAreTheTargets`, `LockIsReleased`, `AttachmentFinishes` | an id that may be a logpoint, two targets, two debuggers, three revisions; 424 957 states |
| `debugger_target` | `BindingsMatchOwners`, `BrowserHoldsTheOwned`, `QuietIsDecided`, `QuietIsReconciled`, `StaysHeld`, `EveryResumeEndsAPause`, `PauseIsTheBrowsers` | two scripts, one of them with a source map, two breakpoints and four scenarios; 3 230 028 states |
| `captures` | `CatalogStaysLoadable`, `ReservationsMatchWork`, `RetainedPayloadIsKept`, `GeneratedNamesAreFresh`, `ReservationsSettle` | a capture of either kind and a deletion, or two plain captures; two storages, two connects, two faults; 994 438 states |
| `published_capture_removed` | finding 3 | two heap snapshots and a deletion, one fault |
| `idle` | `IdleDisconnectIsDue`, `IdleConnectionEnds` | two connections, one of which connects twice, one operation, timeouts of one, two and infinite; 636 600 states |
| `child_sessions` | `EventsAreContiguous`, `DetachIsToldOnce`, `RouteIsBounded`, `EventsWithinAttachment`, `FailureIsTold` | a page session and a child that attaches twice with three events; every limit is one; 1 491 513 states |
| `dead_session_attached` | finding 4 | |

**Why the bounds are enough.** Connections of one context share no state but the
context itself: `delete_context` and `shutdown` are the only actions that touch two
of them, and they treat all alike, so TLC uses one connection and the proofs cover
any number. Every race of the code is between two tasks on one connection (a connect
and a disconnect, an old supervisor and a new connect), hence two handlers and two
runtimes, each with its supervisor; a third handler can wait at any point by not
being scheduled. Two generations allow a stale attempt, two versions a replaced
recipe. The repetition of attempt numbers needs a second incarnation, which
`attempts_repeat` has and the proofs cover; liveness over it is out of TLC's reach here.

In `ContextStore` two restarts allow a request to be in flight over one and retried over
another, and four revisions overflow the history of two and repeat a number. `Clients`
names the sets of clients a behaviour may have: two requests race each other, or one
races an observer; a third client would only be one more of either kind. In
`PauseChildrenLease` three frames hold an arm, a disarm and a client request at once.

In `BreakpointIntent` two targets give the loop a debugger before and one behind the one
that fails; `Hosts` gives one target two debuggers in turn, a predecessor that is still
told and its successor, and `Selected` the two scopes between which a change concerns one
target and not the other. Three revisions let a watermark be one that a new context of
the same name has not reached. Ids meet only where an attachment seeds several.

In `DebuggerDriver` a second script is what makes a friendly match ambiguous or overtaken,
a second breakpoint what shares a position, a second announcement what makes results
stale, a second pause what makes an epoch stale, and one position is enough because
positions differ only in being the same or not. `Bounds` is a set of records, one of
which a behaviour chooses at the start: what is interesting about shared breakpoints,
about conditions and about pauses does not need all three at once, and together they are
out of TLC's reach. In these one effect of any kind may fail, or one drain be dropped,
for a reason that is not modelled; `TwoFailures` lets a fetch, a build or a drain fail
twice, so that a script that failed is met again by a breakpoint that is set anew.

In `CaptureStore` two storages let a name, or a storage, be taken again after it was
released, two connects make a reservation stale, two faults allow a failed write and a
crash behind it. Heap snapshots and plain captures meet only on the names they reserve,
which `RequestedNames` makes collide with generated ones; a behaviour therefore has calls
of one kind. A heap call and a plain one are each put beside a deletion, which gives up
the entry or the retained reservation it finds. `captures` has one heap call: two of them
and a deletion have more states than fit the time of a run.
`published_capture_removed` has two, with one fault, and shows what they add (finding 3);
the theorem on `CatalogStaysLoadable` is about any number.

In `IdleSupervision` one connection that connects twice has a guard of its old clock, one
that does not is what the supervisor disconnects first; timeouts of one and two are
exceeded at different times, and the infinite one lets a connection be blocked, and time
pass, without the supervisor looking. `Varied` names the connections that do more than
connect once and inherit their timeout. In `ChildSessions` a limit of one makes every
queue overflow and every budget run out with the second item; three events are one that is
delivered, one that waits and one that does not fit; two attachments reuse the native id.
A second page session or child shares nothing with the first but the limit on routes, and
finding 4 is the reason why `AttachedHasSession` is not among the properties.

**Bounds in guards.** `MaxVersion`, `MaxGeneration`, `MaxIncarnation` (configuring
and connecting stop), `MaxRevision`, `MaxEpoch` (commits, restarts and deletions
stop), `Bounds` (announcements, specifications, pauses and failures stop), `MaxFrames`,
`MaxClientRequests` (arms and requests stop), `MaxStorage`, `MaxConnects`, `MaxFaults`
(reservations, connects and failures stop), `MaxAttach`, `MaxEvents` (the browser stops).
`QueueLimit`, `CallLimit` and `RouteLimit` are no bounds but limits of the code, smaller.
In `BreakpointIntent` a publication at `MaxRevision` leaves the revision where it is.
Bounds limit how often clients ask, the debuggee acts or something fails, never how a
handler that began goes on. The proofs use them only as natural numbers, so they cover
every bound.

**Deadlock** is checked in `connection_service`, `idle` and `attempts_repeat`. The other
models stop at their bounds and say so, and a context without requests or debuggers need
not do anything.

**Symmetry** is not used: most runs have liveness properties, with which it is not sound.

**Fairness.** `FairSpec` of `ConnectionService` is weak fairness of the steps of a
handler that has begun and of each supervisor: they are tokio tasks, every provider
start and handshake has a timeout, and closing returns. A client never has to ask,
a transport never has to end. The handlers survive the loss of their client, since
the RPC layer does not abort their tasks. `ContextStore` assumes only that the task
of a long poll runs when it can, not that it times out; `PauseChildrenLease` that
handlers and spawned tasks run and that the bridge reads its socket.
`BreakpointIntent` assumes that the holder of the intent lock goes on, because a
debugger that stops drops its command channel and every command is then answered
`Stopped`; and strong fairness of an attachment that waits for the lock, because a
tokio mutex serves its waiters in the order of their arrival. `CaptureStore` assumes that
handlers and cleanups run, that the debugger answers and that the process is started
again; nothing has to fail, and no caller has to end. `IdleSupervision` assumes that time
passes, that the supervisor runs and that a runtime asked to close does. `ChildSessions`
assumes that the tasks of the daemon run and that the timers of its requests fire; neither
browser nor client has to do anything.

## 4. Proofs

`ConnectionServiceProofs` holds for every set of
connections, recipes, runtimes and handlers and for every bound, under the
assumptions stated beside the constants: `NoRuntime`, `NoGoal` and
`NoConfiguration` are no elements of the sets they complement, and bounds are
natural numbers.

None of the safety properties is inductive. `PublishedIffConnected` needs to know
that whoever completes a connect finds an empty slot; that needs
`PublishedForCurrentAttempt`, and that in turn what every handler captured and that
captured attempts never lie in the future. `IInv` adds to the safety properties:

* `NothingWithoutContext`, `ActiveHasGeneration`: what the reducer guarantees about
  single entries;
* `HandlersHaveGoals`: which locals exist at which point of a handler;
* `GoalsArePast`: a captured goal is of the present or an earlier incarnation, its
  version is at most the current one, and the same version means the same recipe;
* `FreshIsNowhere`, `OpenedIsExclusive`, `HeldIsUnpublished`: a runtime is held by
  one place only;
* `PublishedIsWatched`: a published runtime has a live supervisor and was opened for
  its connection's current attempt.

In every proof module there is one lemma `<Action>Keeps` per action or group of actions,
with one step per conjunct the action can disturb, and frame lemmas for the conjuncts it
cannot (`CustodyFrame`, `GoalsFrame`, `OwnedFrame`; `JobFrame`, `CommandFrame`).
`Invariance` is `Spec => []IInv`. For `ConnectionService` type correctness and five
safety properties follow; `Refinement` shows that each step from a state with
`IInv` is a step of `ConnectionLifecycle` or a stutter, and `OwnersUnpublish` the
action property `OnlyOwnerUnpublishes`.

`BreakpointIntentProofs` holds for every set of ids, specifications, targets and
debuggers and for every bound on the revision. `AppliedWhenSettled` speaks of the
moments when the lock is free, so the invariant follows the loop: `LoopAgrees` says
that every registered debugger agrees with the intent, was kept from it by an error,
or is still to be told by the handler that holds the lock. Telling it re-establishes
agreement because

* the handler's revision and intent are still those of the context as long as the
  debugger is registered (`JobIsCurrent`): only the lock changes the intent, but for
  `delete_context`, which takes the registrations with it;
* its watermark is not ahead (`CommandsAreNeverStale`): marks are revisions of a
  context that exists, and a new debugger has none (`OpeningIsNowhere`);
* no target owns the id (`IntentIsNeverRefused`): the debuggers were asked before,
  under the same lock (`AskedOwnsNothing`), or were seeded before they could be given
  a logpoint (`SeededOwnsNothing`); ids that are not asked about cannot be logpoints
  (`TargetsOwnLogIds`).

The death of an actor empties its debugger (`EndsEffect`), so a stopped debugger
disagrees with nobody. `LogpointsKept` is the action property
`LogpointsAreTheTargets`, from the same invariant.

`ContextStoreProofs` holds for every set of breakpoints, specifications, requests and
observers and every length of the history. Its `IInv` adds to the four safety properties

* `AppliedAreCompleted`: a request that took effect did so once, and its id is known, also
  after a restart, since `DiskHoldsIntent` has the ids on disk;
* `BasesAreCurrent`: what a client has read is still the intent, unless an intent newer
  than its revision has reached the disk; so an equal revision means an equal intent,
  which `RevisionNamesOneState` says only of the moment a request is applied;
* `Gapless`: the history ends with the present revision and leaves out none since its
  first, so that an answer is complete whenever that first one is not beyond the cursor.

The part of `SupervisionProofs` on pause leases holds for every finite set of handlers.
`DemandCountsLeases` counts holders, so each action that changes hands is one holder more
or less (`OneMoreHolder`, `OneHolderLess`). `NeverLeftArmed` needs to know what is on its
way: `OffIsComing` says that if pausing is on when all frames are applied (`Ending`), and
no client asked for it, a lease is alive or a task is on its way that turns it off;
`SendersAwait` that a frame that reports to a handler is the one that handler waits for.

The part on idle supervision: a clock counts exactly the operations whose guards are on it
(`GuardsAreCounted`), guards are of clocks that were made (`GuardsAreOfMadeClocks`), the
opener of a connecting connection holds its clock (`OpenersHoldGuards`), a connected one
has a clock (`TrackedAreOpen`), and the age of a clock that nobody holds is at most the
time since its connection was used or found blocked (`AgesAreUnused`). `WhatEndsIsIdle`
follows for all timeouts, the infinite one included: where the supervisor does not look,
neither the clock nor `unused` starts again.

`ChildSessionsProofs` holds for all limits and every set of children, in four parts.

* What is kept for a child is bounded, for every number of pages. A route that is gone
  has no requests (`UnroutedHasNoCalls`), and messages in a sink are of children of the
  endpoint (`MessagesAreOfChildren`).
* What a client gets is contiguous, for every number of pages. The events of a child form
  a line: what was got, what is in hand, what waits for a listener, the queue of the route
  and the wire, each part leading (`Carries`) from the event where the part before it
  ends. `InLine` says that the wire leads to the browser's latest event, that the parts in
  the route lead to the wire while the route is `Alive`, for what does not fit makes it
  fail, and that what the client got is unbroken in any case. A detached route keeps
  nothing for a listener (`Kept`); as long as the child has an owner, no pause comes after
  a listener in its queue, and nothing was handed to anybody before there was one
  (`Opened`), so that no session gets a part of the line from before a pause and one from
  after it.
* The client gets events only while it was told of the child (`PageInv`): a listener, in
  the route or in its queue, is of a page session that was told (`InvListeners`), since
  `Activate` comes after `Notify`; and a detachment that is being told has no owner
  (`InvAnnounced`).
* Nothing is told detached twice. The messages about a child are in the order of the
  browser, and newer than all that a page session, its event task or a watcher know of
  (`InvOrder`). `Once` relates the two tasks that may tell a detachment: at most one of
  them has it in hand, it was not told before, and if it was told or the watcher has it,
  the browser's own detachment, wherever it is between the browser and the event task
  (`ToCome`), will find the route marked.

The last two are stated for an endpoint with one page session (`OnePage`), as is the
property of the run. With two page sessions, which share the routes, the owners and the
marks, TLC finds both violated: the second one activates the route before the first is
told, and is then closed; the second one takes the mark that the first one, which the
watcher had told, should have found with the browser's detachment.

`CaptureStoreProofs` holds for every set of calls and deletions and all bounds.
`ReservationsMatchWork` needs an owner for each storage (`StorageIsOwn`), a call at work for
each pending reservation (`PendingHasCall`), and deletions that reach only completed
captures (`DeletesCompleted`); its second half follows the order of the debugger's
commands: the command that takes a snapshot comes before the ones that discard it
(`CaptureComesFirst`), and while the target is connected the call of such a command has not
let go of its name (`SnapshotHasCall`, `DebuggerOfConnect`). `NamesAreGivenOnce` compares
the counter in memory and on disk with the names generated so far (`Numbered`), over
failed writes and crashes.

That payloads stay where something refers to them (`RetainedPayloadIsKept`,
`CatalogStaysLoadable`) rests on a second invariant, `Stored`, which `IInv` supports and
which says for each storage id who has it and how far its payload is:

* no two of the reservations, the entries and the storages to be purged are of one storage
  (`StorageIsApart`), and each was given out before (`StorageIsGiven`);
* the call that owns the storage of a reservation made it, and `Progress` says what it has
  brought about: from the step after the capture on, the capture the debugger holds under
  its name is its own, then the staging file has it, then the final one. This needs that a
  command still queued belongs to the owner of its storage, and that a snapshot is taken
  for the reservation of its name (`CommandsFit`);
* a completed reservation has its payload (`CompletedHavePayload`). One that is being
  deleted has exactly one deletion at work on it, and has its payload until that deletion
  has removed it and not forgotten it yet (`DeletionsFit`); a deletion that is dropped there
  is the exception that `lost` records.

The files of a storage are then touched only by its owner before completion, by its
deletion, or by a purge or a restart that nothing in the catalog refers to, and `Stored`
holds for any number of calls, kinds and deletions. `CatalogIsLoadable` itself is false of
the code, so the theorem on the catalog, `OnlyRacesSpoilCatalog`, says by which steps alone
an entry may come to be without its payload: a heap call removes what another one has
published (`RemovesPublished`, finding 3), or a call publishes what a deletion has removed
(`PublishesErased`, section 5). It needs `EntriesSettled`: the call that brought the
payload of an entry is done with it, or about to look whether its reservation is kept.
`EntriesLast` is then shown for each action, commits and restarts included. The theorem
has no hypothesis on the calls. The proofs assume that the set of
calls is finite, since `MaxStorage` counts those that are about to reserve.

`DebuggerDriverProofs` holds for every set of scripts, breakpoints, contents and positions,
every view and mapping of a source, and every record of bounds. The reducer is a pure
function, so the proof follows its operators from the inside out, and each level is a
relation between the state an operator is given and the state it returns: operators on
sources and assessments leave the physical breakpoints alone (`Assessed`), binding and
releasing change owners, bindings and what is asked for them (`Rebinds`), a
reconciliation keeps something of each breakpoint or finds that it belongs nowhere
(`Reconciles`), an input (`Follows`) and a completion (`Answers`) do what those do. A
loop over keys is a table of its intermediate states, one for each set of keys visited
(`OneByOne`), and what every step of a loop keeps is kept by the loop
(by induction over the subsets of a finite set, from the well-foundedness of `<`). `IInv` is

* `Sound`: the reducer's state is `Consistent` with the effects still in the queue. A
  breakpoint is bound exactly where it owns (`Bound`); what is being installed or removed
  has its effect pending, and what is installed has an owner (`Asked`); a queued effect
  about a physical breakpoint is the one its status asks for, and is there once (`Owed`).
  Without the last part an installation that completes would find its breakpoint
  removed, and `BrowserHoldsTheOwned` would not follow;
* `Recorded`: the events on their way lead from the execution the reducer shows to the
  one the browser is in (`Explains`), so that a resumed event meets a pause however many
  events are queued between them;
* `TaskTyped`: the types of the task's own locals, among them that a batch in progress
  and its rollback are of specifications of this behaviour.

`StaysHeld` is proved of each step from `IInv`: after every input, and after every step of
a drain, a breakpoint whose generation and scripts are the same keeps something it holds or
`BelongsNowhere` (`Stays`).

`DebuggerReconciliationProofs` proves, from the same assumptions, that the reducer's
incremental reconciliations come to the full one: `RestDecides` and `RestIsReconciled`. The
code reconciles a breakpoint in full only when it is set; afterwards each input looks at
the script it is about (`apply_parsed_script`, `reconcile_built_script`, the completion of
a mapping) and asks again only for what the change of the selection calls for. The two
properties are about states at rest, and nothing follows from a state at rest about the
next one. What each step keeps is `Quiet(state)`, which was checked with TLC on the
instance of `debugger_target` before it was proved:

* `SourcesAsked`: a script whose source is on its way has its fetch or its build pending,
  and a pending one for the current version of a script finds the source where it left it;
  so a completion is either stale or about what the script waits for;
* and for every breakpoint (`Reconciled`):
  * `Mapping`: the mappings it waits for are pending, of its present generation, and are
    exactly what its `mapping` assessments wait for; assessments are of the current
    version, and only built scripts are mapped;
  * `Judged`: its index says of each script what the script itself says (`Indexed`), and
    the assessment of the script is the one that the selection of that index calls for
    (`MatchedBy`). A script on its way is excepted: its content may be missing from the
    index, and it may be left waiting, unless it was selected meanwhile;
  * `Wanted`: every script that may hold its source was asked for;
  * `Placed`: it is bound wherever its assessments say it belongs and, once all is decided
    and installed there, nowhere else.

The heart is `ReconcileBuiltScriptQuiets`. A script that was built changes the index for
itself alone, but by that the selection may change from none, waiting or ambiguous to
unique or back, for scripts that no input is about. `ChangedFits` and `UnchangedMatched`
show that the scripts the code then assesses are all whose assessment is no longer right.
`ParsedOneQuiets` is the same for a new script, which adds to the friendly candidates only
what waits. Each assessment is one step of a relation (`AssessesAt`) between the states
before and after it, composed over the loop; what an input does to other breakpoints, or
to bindings alone, keeps what this one knows (`Knows`, `Leaves`), and pauses and frames
touch no breakpoint at all (`Untouched`) but for the sources they ask for. A failed build
is where the exception of `QuietIsDecided` comes from.

At rest no script is on its way, so the exceptions are void: the index is that of all
scripts (`RestedIndex`), each is assessed by its selection (`RestedJudged`), the bindings
are the desired ones (`RestedBindings`), and each step of `reconcile_breakpoint` writes
what is there (`RestedReconciled`).

Only model-checked:

* liveness and the fair lifecycle (reasoning with fairness and `ENABLED` is out of reach of
  the installed provers): `LossIsNoticed`, `ImplementsFairLifecycle`, `ObserverIsNotified`,
  `ArmedNeedsDemand`, `LockIsReleased`, `AttachmentFinishes`, `ReservationsSettle`,
  `IdleConnectionEnds` and `FailureIsTold`.

Every other property of a passing run is a theorem. Two have the hypothesis named above,
one page session, without which they are false: `EventsWithinAttachment` and
`DetachIsToldOnce`.

## 5. What the code does not keep

Four runs show that the code does not do what its documentation says:

1. **Attempts repeat** (`context_engine.rs:747`). `delete_connection` followed by
   `put_connection` restarts version and generation. A connect of the deleted entry
   that returns late is then accepted as the new entry's and publishes a runtime of
   the old recipe. `PublishedForCurrentAttempt` therefore promises the recipe only
   within one incarnation.
2. **A lease without pausing** (`connection/providers/mod.rs:138`). Two concurrent
   arms may both see a demand of two, and a late disarm may follow an arm.
3. **A published capture is removed** (`heap_profiler.rs:279`). The publication of a heap
   snapshot fails, which keeps its reservation and payload for a repeated call. If that
   call publishes it before the first looks whether the reservation is still kept, the
   first finds none and removes the payload that the catalog now refers to. The next start
   refuses the state file. This step is `RemovesPublished`, one of the two that
   `CatalogStaysLoadable` excepts.
4. **A dead session stays attached** (`virtual_browser_root.rs:1163`). The watcher of a
   route runs before its child is announced. If the route fails in between, the detach is
   told before the attach, and the browser's own detach is swallowed as already told.

These were met as well. The properties named are in the modules and hold with the
exception given; they are in no run:

* `LeaseIsOnPublishedRuntime`: the generation does not change on a disconnect, so a pause
  lease armed across one is stored although the runtime is gone (`context.rs:589`).
* `NoSilentGap`: revisions that were not durable are handed out again after a restart; a
  cursor from before it is not recognised (`context.rs:175`).
* `EffectsComplete`: a refused install ends the drain and leaves its breakpoint
  `installing`, with bindings `pendingInstall`, for ever; another breakpoint that maps to
  the position joins it and is reported as set without a request
  (`debugger_driver.rs:433`). An unconditional breakpoint where a conditional one is
  installed is always refused: only conditional ones are tried at another offset.
* `ReusedIdIsAccepted`: the client's mux opens no channel id twice, so the second
  attachment of a native id to one client is refused, whatever ended the first. (Raw CDP
  sessions are not affected: they share a route, and may "attach again even if the native
  endpoint reuses the same session ID", `docs/walkthroughs/debugging-vscode-processes.md:272`.)
  In `child_sessions` a second attachment is therefore one that is announced and refused.
* `DetachIsToldOnce` with two page sessions on one endpoint: the one that did not own the
  child is told twice. The rollback of an attachment that is refused tells a detach of a
  child whose attach was not told, and after the endpoint was disposed the synthetic flag
  is gone; neither is covered by the property.
And these limit what a property of a run says:

* `IdleDisconnectIsDue` counts only the blockers the supervisor found. "[O]ther blockers are
  checked once per second and restart the clock while present"
  (`docs/architecture/context-identity.md:76`), but under an infinite timeout, which is the
  default, the supervisor returns before it looks at them (`idle.rs:238`): a target may be
  paused for an hour, and a timeout that is set right after it resumed may end the
  connection at once.
* `CatalogStaysLoadable` follows from the order of the code, which is not the order of the
  documentation. `delete_capture` persists the removal of an entry first, whatever its kind,
  and removes the file afterwards (`capture.rs:95`); when the file cannot be removed, the
  entry is gone and the file waits for the next startup cleanup. For heap snapshots
  `docs/architecture/cli-design.md:688` says the contrary: "`capture delete` removes immutable
  heap storage before persisting catalog removal. Filesystem failures are explicit and
  retain the catalog entry". In that order a crash, or a failed write, between the two steps
  would leave an entry without its file.
* `PublishesErased` is the second exception of `CatalogStaysLoadable`. The publication of a
  capture failed and its payload is retained; a repeated call loads it to publish it
  (`promote_completed_capture`). Before it commits, a deletion marks the reservation,
  removes the file and is dropped (`capture.rs:102`), which lifts the mark again: the
  reservation looks complete, and the call publishes an entry without a payload. The next
  start refuses the state file. One capture call, its repetition and two faults suffice. The
  same dropped deletion is the exception of `RetainedPayloadIsKept` (`lost`).

Known and excluded where it would hide the rest: a runtime opened for a context that
was deleted meanwhile is dropped with its transport open (`context.rs:390`). And a
debugger that has stopped, and stays registered until its target or connection goes, ends
`put_breakpoint_spec` and `delete_breakpoint` (`context.rs:807`, `:872`) after the intent
is persisted; the debuggers behind it are not told until the next put or delete.
`AppliedWhenSettled` therefore excludes what `failed` and `skipped` record.

## 6. Not modelled

`PROJECT.json` lists every component with the reason. Most of the repository's lines have
no state that two steps could disagree about: generated protocol types (a quarter of all
lines), the command line and its rendering, the TUI and the VS Code extension, codecs and
formats, and data transformations (source maps, formatting, search, heap graphs, layouts,
pixels). Operating system scans and process handshakes are calls whose outcome is chosen.

Of the code that has such state, these are not modelled: the merging of resource graphs,
the relay and the proxies, the discovery record and lock by which one daemon is started,
the registry of channels inside `linkrpc`, children of children, endpoints opened by
`attach_child`, and the stealing of a target between two connections that show it.

## 7. Plan

In order of importance:

1. Target attachment as a composition of `ConnectionService` and `BreakpointIntent`, and
   an abstract debugger that `BreakpointIntent` assumes and `DebuggerDriver` implements.
2. `ResourceGraph` (snapshots with source ownership), the relay's attachment counts and
   the discovery lock of the daemon.
3. For the liveness properties the safety half of the argument: what stays possible until
   it is done, and a measure that each step lowers. The fairness half stays with TLC.
