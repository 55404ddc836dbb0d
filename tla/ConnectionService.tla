-------------------------- MODULE ConnectionService --------------------------
(***************************************************************************)
(* How the daemon runs the connections of one context: the RPC handlers    *)
(* that configure, connect, disconnect and delete them, the pause lease of *)
(* set_pause_future_children, and the task that supervises every runtime   *)
(* (service/debugger_service.rs, debugger_service/{context,idle}.rs).      *)
(*                                                                         *)
(* Handlers hold the state lock between two awaits and never across one, so*)
(* a handler is a sequence of atomic steps: one action per locked section  *)
(* and one per await that changes something (opening or closing a runtime).*)
(* Handlers run as tokio tasks and interleave freely between the sections. *)
(*                                                                         *)
(* A runtime is an Arc<ConnectionRuntime>; its identity, which the code    *)
(* compares with Arc::ptr_eq, is an element of Runtimes that is never used *)
(* twice.  Persistence, revisions and request ids are in ContextStore; a   *)
(* failed persist restores the whole state and is a stutter here.          *)
(***************************************************************************)
EXTENDS ContextEngine

CONSTANTS
    Runtimes,        \* identities of runtimes that can be opened
    NoRuntime,       \* no runtime in a map slot
    Calls,           \* RPC handler tasks that can be in flight at once
    NoGoal,          \* a handler that returned, a runtime never asked for
    MaxVersion,      \* bound on configuration versions
    MaxGeneration,   \* bound on connection generations
    MaxIncarnation   \* bound on how often a connection id is created

ASSUME NoRuntimeAssumption == NoRuntime \notin Runtimes
ASSUME BoundsAssumption ==
    MaxVersion \in Nat /\ MaxGeneration \in Nat /\ MaxIncarnation \in Nat

VARIABLES
    contextExists,   \* state.contexts has the context
    connections,     \* its ContextState.connections
    runtimes,        \* state.runtimes: the runtime published for a connection
    leases,          \* state.pause_children_leases: runtime whose lease is held
    transport,       \* CDP transport (and provider process) of each runtime
    supervisor,      \* supervise_runtime task of each runtime
    origin,          \* the connect goal each runtime was opened for
    call,            \* handler tasks in flight
    incarnation,     \* history: how often each connection id was created
    stopping         \* shutdown was called; the process is about to exit

vars == <<contextExists, connections, runtimes, leases, transport, supervisor,
          origin, call, incarnation, stopping>>

-----------------------------------------------------------------------------
RuntimeSlot == Runtimes \cup {NoRuntime}

\* What a handler was started for: the connection, the recipe it captured and
\* the attempt the reducer issued.
Goal ==
    [connection    : Connections,
     configuration : Configurations \cup {NoConfiguration},
     attempt       : ConnectionAttempt,
     incarnation   : Nat]

CallPcs == {"idle",
            "opening",       \* connect: connect_runtime is awaited
            "opened",        \* connect: it returned a runtime
            "refused",       \* connect: it returned an error
            "discarding",    \* connect: closing a runtime it may not publish
            "disconnecting", \* disconnect: closing the runtime it removed
            "closed",        \* disconnect: that runtime is closed
            "arming",        \* set_pause_future_children: capability.arm()
            "clearing"}      \* delete_context, shutdown: closing what they removed

\* The locals a handler keeps across its awaits.
CallState == [pc : CallPcs, goal : Goal \cup {NoGoal}, held : SUBSET Runtimes]

IdleCall == [pc |-> "idle", goal |-> NoGoal, held |-> {}]

GoalFor(conns, c) ==
    [connection |-> c, configuration |-> conns[c].configuration,
     attempt |-> AttemptOf(conns, c), incarnation |-> incarnation[c]]

At(p, pc) == call[p].pc = pc

Start(p, pc, goal, held) ==
    /\ At(p, "idle")
    /\ call' = [call EXCEPT ![p] = [pc |-> pc, goal |-> goal, held |-> held]]

Goto(p, pc) == call' = [call EXCEPT ![p].pc = pc]

Return(p) == call' = [call EXCEPT ![p] = IdleCall]

\* The runtimes in state.runtimes.
Registered == {runtimes[c] : c \in Connections} \ {NoRuntime}

\* Every variable keeps its type: no handler reaches its next section without
\* the locals that section uses, and no status is one the API does not know.
TypeOK ==
    /\ contextExists \in BOOLEAN
    /\ connections \in [Connections -> ConnectionState]
    /\ runtimes \in [Connections -> RuntimeSlot]
    /\ leases \in [Connections -> RuntimeSlot]
    /\ transport \in [Runtimes -> {"unopened", "open", "lost", "closed"}]
    /\ supervisor \in [Runtimes -> {"none", "watching", "closing", "done"}]
    /\ origin \in [Runtimes -> Goal \cup {NoGoal}]
    /\ call \in [Calls -> CallState]
    /\ incarnation \in [Connections -> Nat]
    /\ stopping \in BOOLEAN

Init ==
    /\ contextExists = FALSE
    /\ connections = NoConnections
    /\ runtimes = [c \in Connections |-> NoRuntime]
    /\ leases = [c \in Connections |-> NoRuntime]
    /\ transport = [r \in Runtimes |-> "unopened"]
    /\ supervisor = [r \in Runtimes |-> "none"]
    /\ origin = [r \in Runtimes |-> NoGoal]
    /\ call = [p \in Calls |-> IdleCall]
    /\ incarnation = [c \in Connections |-> 0]
    /\ stopping = FALSE

-----------------------------------------------------------------------------
(***************************************************************************)
(* Configuration: one locked section each.                                 *)
(***************************************************************************)
PutContext ==
    /\ contextExists' = TRUE
    /\ UNCHANGED <<connections, runtimes, leases, transport, supervisor,
                   origin, call, incarnation, stopping>>

ConfigureConnection(c, configuration) ==
    /\ contextExists
    /\ MayPutConnection(connections, c)
    /\ connections[c].version < MaxVersion
    /\ Exists(connections, c) \/ incarnation[c] < MaxIncarnation
    /\ connections' = PutConnection(connections, c, configuration)
    /\ incarnation' = IF Exists(connections, c) THEN incarnation
                      ELSE [incarnation EXCEPT ![c] = @ + 1]
    /\ UNCHANGED <<contextExists, runtimes, leases, transport, supervisor,
                   origin, call, stopping>>

\* Fault: the lease of a deleted connection is kept.
DeleteConnectionKeepingLease(c) ==
    /\ contextExists
    /\ MayRemoveConnection(connections, c)
    /\ connections' = RemoveConnection(connections, c)
    /\ UNCHANGED <<contextExists, runtimes, leases, transport, supervisor,
                   origin, call, incarnation, stopping>>

DeleteConnection(c) ==
    /\ contextExists
    /\ MayRemoveConnection(connections, c)
    /\ connections' = RemoveConnection(connections, c)
    /\ leases' = [leases EXCEPT ![c] = NoRuntime]
    /\ UNCHANGED <<contextExists, runtimes, transport, supervisor, origin,
                   call, incarnation, stopping>>

(***************************************************************************)
(* delete_context removes the durable scope and every runtime slot in one  *)
(* section, then closes the removed runtimes one by one.  The task spawned *)
(* by shutdown takes the slots only: statuses stay as they are, and nothing*)
(* refuses the requests that arrive before the process exits.              *)
(***************************************************************************)
DeleteContext(p) ==
    /\ contextExists
    /\ Start(p, "clearing", NoGoal, Registered)
    /\ contextExists' = FALSE
    /\ connections' = NoConnections
    /\ runtimes' = [c \in Connections |-> NoRuntime]
    /\ leases' = [c \in Connections |-> NoRuntime]
    /\ UNCHANGED <<transport, supervisor, origin, incarnation, stopping>>

Shutdown(p) ==
    /\ Start(p, "clearing", NoGoal, Registered)
    /\ runtimes' = [c \in Connections |-> NoRuntime]
    /\ leases' = [c \in Connections |-> NoRuntime]
    /\ stopping' = TRUE
    /\ UNCHANGED <<contextExists, connections, transport, supervisor, origin,
                   incarnation>>

ClearingCloses(p) ==
    /\ At(p, "clearing")
    /\ \E r \in call[p].held :
         /\ transport' = [transport EXCEPT ![r] = "closed"]
         /\ call' = [call EXCEPT ![p].held = @ \ {r}]
    /\ UNCHANGED <<contextExists, connections, runtimes, leases, supervisor,
                   origin, incarnation, stopping>>

ClearingReturns(p) ==
    /\ At(p, "clearing")
    /\ call[p].held = {}
    /\ Return(p)
    /\ UNCHANGED <<contextExists, connections, runtimes, leases, transport,
                   supervisor, origin, incarnation, stopping>>

-----------------------------------------------------------------------------
(***************************************************************************)
(* connect_connection.  The first section issues the attempt; the runtime  *)
(* is opened without the lock; the second section publishes or discards it.*)
(***************************************************************************)
ConnectBegins(p, c) ==
    /\ contextExists
    /\ MayConnect(connections, c)
    /\ connections[c].generation < MaxGeneration
    /\ connections' = ConnectConnection(connections, c)
    /\ Start(p, "opening", GoalFor(connections', c), {})
    /\ UNCHANGED <<contextExists, runtimes, leases, transport, supervisor,
                   origin, incarnation, stopping>>

ConnectOpens(p) ==
    /\ At(p, "opening")
    /\ \E r \in Runtimes :
         /\ transport[r] = "unopened"
         /\ transport' = [transport EXCEPT ![r] = "open"]
         /\ origin' = [origin EXCEPT ![r] = call[p].goal]
         /\ call' = [call EXCEPT ![p].pc = "opened", ![p].held = {r}]
    /\ UNCHANGED <<contextExists, connections, runtimes, leases, supervisor,
                   incarnation, stopping>>

ConnectIsRefused(p) ==
    /\ At(p, "opening")
    /\ Goto(p, "refused")
    /\ UNCHANGED <<contextExists, connections, runtimes, leases, transport,
                   supervisor, origin, incarnation, stopping>>

AttemptIsPending(p, status) ==
    IsPending(connections, call[p].goal.connection, call[p].goal.attempt,
              status)

\* The early return on a missing context closes nothing: an opened runtime is
\* dropped here with its transport open.
ConnectFindsNoContext(p) ==
    /\ At(p, "opened") \/ At(p, "refused")
    /\ ~contextExists
    /\ Return(p)
    /\ UNCHANGED <<contextExists, connections, runtimes, leases, transport,
                   supervisor, origin, incarnation, stopping>>

\* Fault: a stale connect returns its error without closing the runtime.
ConnectIsStaleWithoutClose(p) ==
    /\ contextExists
    /\ At(p, "opened") \/ At(p, "refused")
    /\ ~AttemptIsPending(p, "connecting")
    /\ Return(p)
    /\ UNCHANGED <<contextExists, connections, runtimes, leases, transport,
                   supervisor, origin, incarnation, stopping>>

ConnectIsStale(p) ==
    /\ contextExists
    /\ \/ At(p, "opened") /\ Goto(p, "discarding")
       \/ At(p, "refused") /\ Return(p)
    /\ ~AttemptIsPending(p, "connecting")
    /\ UNCHANGED <<contextExists, connections, runtimes, leases, transport,
                   supervisor, origin, incarnation, stopping>>

ConnectPublishes(p) ==
    /\ At(p, "opened")
    /\ contextExists
    /\ AttemptIsPending(p, "connecting")
    /\ LET c == call[p].goal.connection IN
         /\ connections' = ConnectionOpened(connections, c)
         /\ \E r \in call[p].held :
              /\ runtimes' = [runtimes EXCEPT ![c] = r]
              /\ supervisor' = [supervisor EXCEPT ![r] = "watching"]
    /\ Return(p)
    /\ UNCHANGED <<contextExists, leases, transport, origin, incarnation,
                   stopping>>

\* stage_connection_resource_graph may refuse the new targets.
ConnectCannotStage(p) ==
    /\ At(p, "opened")
    /\ contextExists
    /\ AttemptIsPending(p, "connecting")
    /\ connections' = ConnectionOpenFailed(connections, call[p].goal.connection)
    /\ Goto(p, "discarding")
    /\ UNCHANGED <<contextExists, runtimes, leases, transport, supervisor,
                   origin, incarnation, stopping>>

\* Fault: a refused connection reports the error and leaves the status.
ConnectFailsSilently(p) ==
    /\ At(p, "refused")
    /\ contextExists
    /\ AttemptIsPending(p, "connecting")
    /\ Return(p)
    /\ UNCHANGED <<contextExists, connections, runtimes, leases, transport,
                   supervisor, origin, incarnation, stopping>>

ConnectFails(p) ==
    /\ At(p, "refused")
    /\ contextExists
    /\ AttemptIsPending(p, "connecting")
    /\ connections' = ConnectionOpenFailed(connections, call[p].goal.connection)
    /\ runtimes' = [runtimes EXCEPT ![call[p].goal.connection] = NoRuntime]
    /\ Return(p)
    /\ UNCHANGED <<contextExists, leases, transport, supervisor, origin,
                   incarnation, stopping>>

ConnectDiscards(p) ==
    /\ At(p, "discarding")
    /\ transport' = [r \in Runtimes |->
                        IF r \in call[p].held THEN "closed" ELSE transport[r]]
    /\ Return(p)
    /\ UNCHANGED <<contextExists, connections, runtimes, leases, supervisor,
                   origin, incarnation, stopping>>

-----------------------------------------------------------------------------
(***************************************************************************)
(* disconnect_connection_internal, for a client or for the idle supervisor *)
(* (whose extra guard only restricts when it may begin).                   *)
(***************************************************************************)
\* Fault: the runtime stays published while the handler closes it.
DisconnectBeginsPublished(p, c) ==
    /\ contextExists
    /\ MayDisconnect(connections, c)
    /\ Start(p, "disconnecting", GoalFor(connections, c),
             {runtimes[c]} \ {NoRuntime})
    /\ connections' = DisconnectConnection(connections, c)
    /\ leases' = [leases EXCEPT ![c] = NoRuntime]
    /\ UNCHANGED <<contextExists, runtimes, transport, supervisor, origin,
                   incarnation, stopping>>

DisconnectBegins(p, c) ==
    /\ contextExists
    /\ MayDisconnect(connections, c)
    /\ Start(p, "disconnecting", GoalFor(connections, c),
             {runtimes[c]} \ {NoRuntime})
    /\ connections' = DisconnectConnection(connections, c)
    /\ runtimes' = [runtimes EXCEPT ![c] = NoRuntime]
    /\ leases' = [leases EXCEPT ![c] = NoRuntime]
    /\ UNCHANGED <<contextExists, transport, supervisor, origin, incarnation,
                   stopping>>

DisconnectCloses(p) ==
    /\ At(p, "disconnecting")
    /\ transport' = [r \in Runtimes |->
                        IF r \in call[p].held THEN "closed" ELSE transport[r]]
    /\ call' = [call EXCEPT ![p].pc = "closed", ![p].held = {}]
    /\ UNCHANGED <<contextExists, connections, runtimes, leases, supervisor,
                   origin, incarnation, stopping>>

\* Fault: the handler returns without completing the disconnect.
DisconnectReturnsSilently(p) ==
    /\ At(p, "closed")
    /\ Return(p)
    /\ UNCHANGED <<contextExists, connections, runtimes, leases, transport,
                   supervisor, origin, incarnation, stopping>>

\* A missing context or a stale completion is only an error to the caller.
DisconnectReturns(p) ==
    /\ At(p, "closed")
    /\ connections' =
         IF contextExists /\ AttemptIsPending(p, "disconnecting")
         THEN ConnectionClosed(connections, call[p].goal.connection)
         ELSE connections
    /\ Return(p)
    /\ UNCHANGED <<contextExists, runtimes, leases, transport, supervisor,
                   origin, incarnation, stopping>>

-----------------------------------------------------------------------------
(***************************************************************************)
(* set_pause_future_children.  The capability is found in the resource     *)
(* graph, which is staged and retracted in the sections that insert and    *)
(* remove the runtime slot.                                                *)
(***************************************************************************)
PauseBegins(p, c) ==
    /\ contextExists
    /\ leases[c] = NoRuntime
    /\ runtimes[c] # NoRuntime
    /\ Start(p, "arming", GoalFor(connections, c), {runtimes[c]})
    /\ UNCHANGED <<contextExists, connections, runtimes, leases, transport,
                   supervisor, origin, incarnation, stopping>>

\* still_current compares the generation only.
LeaseIsCurrent(p) ==
    /\ contextExists
    /\ connections[call[p].goal.connection].generation =
         call[p].goal.attempt.generation

PauseReturns(p) ==
    /\ At(p, "arming")
    /\ \/ /\ LeaseIsCurrent(p)
          /\ \E r \in call[p].held :
               leases' = [leases EXCEPT ![call[p].goal.connection] = r]
       \/ leases' = leases     \* arm() failed, or the lease is dropped
    /\ Return(p)
    /\ UNCHANGED <<contextExists, connections, runtimes, transport, supervisor,
                   origin, incarnation, stopping>>

PauseOff(c) ==
    /\ leases' = [leases EXCEPT ![c] = NoRuntime]
    /\ UNCHANGED <<contextExists, connections, runtimes, transport, supervisor,
                   origin, call, incarnation, stopping>>

-----------------------------------------------------------------------------
(***************************************************************************)
(* The transport may end at any time; supervise_runtime waits for that and *)
(* cleans up only if its runtime is still the published one.               *)
(***************************************************************************)
TransportIsLost(r) ==
    /\ transport[r] = "open"
    /\ transport' = [transport EXCEPT ![r] = "lost"]
    /\ UNCHANGED <<contextExists, connections, runtimes, leases, supervisor,
                   origin, call, incarnation, stopping>>

\* The tasks that follow the target events of a published runtime close it when
\* the resource graph rejects an update; they have released the lock by then,
\* and leave the rest to the supervisor.
TargetUpdateIsRejected(r) ==
    /\ supervisor[r] # "none"
    /\ transport[r] \in {"open", "lost"}
    /\ transport' = [transport EXCEPT ![r] = "closed"]
    /\ UNCHANGED <<contextExists, connections, runtimes, leases, supervisor,
                   origin, call, incarnation, stopping>>

\* Fault: the supervisor cleans up whatever runtime is published.
AnyRuntimeIsCurrent(c, r) == TRUE

IsCurrentRuntime(c, r) == runtimes[c] = r

\* Fault: the supervisor waits for close() only, not for the transport to end.
SupervisorWakesOnClose(r) ==
    /\ supervisor[r] = "watching"
    /\ transport[r] = "closed"
    /\ supervisor' = [supervisor EXCEPT ![r] = "closing"]
    /\ UNCHANGED <<contextExists, connections, runtimes, leases, transport,
                   origin, call, incarnation, stopping>>

SupervisorWakes(r) ==
    /\ supervisor[r] = "watching"
    /\ transport[r] \in {"lost", "closed"}
    /\ supervisor' = [supervisor EXCEPT ![r] = "closing"]
    /\ LET c == origin[r].connection IN
         IF IsCurrentRuntime(c, r)
         THEN /\ runtimes' = [runtimes EXCEPT ![c] = NoRuntime]
              /\ leases' = [leases EXCEPT ![c] = NoRuntime]
              /\ connections' = ObserveClosed(connections, c, origin[r].attempt)
         ELSE UNCHANGED <<runtimes, leases, connections>>
    /\ UNCHANGED <<contextExists, transport, origin, call, incarnation,
                   stopping>>

SupervisorCloses(r) ==
    /\ supervisor[r] = "closing"
    /\ supervisor' = [supervisor EXCEPT ![r] = "done"]
    /\ transport' = [transport EXCEPT ![r] = "closed"]
    /\ UNCHANGED <<contextExists, connections, runtimes, leases, origin, call,
                   incarnation, stopping>>

-----------------------------------------------------------------------------
Request ==
    \/ PutContext
    \/ \E c \in Connections, configuration \in Configurations :
         ConfigureConnection(c, configuration)
    \/ \E c \in Connections : DeleteConnection(c) \/ PauseOff(c)
    \/ \E p \in Calls : DeleteContext(p) \/ Shutdown(p)
    \/ \E p \in Calls, c \in Connections :
         ConnectBegins(p, c) \/ DisconnectBegins(p, c) \/ PauseBegins(p, c)

\* What a handler that has begun does next; it never waits for a client.
HandlerStep(p) ==
    \/ ClearingCloses(p) \/ ClearingReturns(p)
    \/ ConnectOpens(p) \/ ConnectIsRefused(p) \/ ConnectFindsNoContext(p)
    \/ ConnectIsStale(p) \/ ConnectPublishes(p) \/ ConnectCannotStage(p)
    \/ ConnectFails(p) \/ ConnectDiscards(p)
    \/ DisconnectCloses(p) \/ DisconnectReturns(p)
    \/ PauseReturns(p)

SupervisorStep(r) == SupervisorWakes(r) \/ SupervisorCloses(r)

Next ==
    \/ Request
    \/ \E p \in Calls : HandlerStep(p)
    \/ \E r \in Runtimes :
         TransportIsLost(r) \/ TargetUpdateIsRejected(r) \/ SupervisorStep(r)

Spec == Init /\ [][Next]_vars

\* Handlers and supervisors are tokio tasks: once runnable they are scheduled.
\* Opening a runtime ends with a runtime or an error (every provider start and
\* handshake has a timeout), closing one always returns.
FairSpec ==
    /\ Spec
    /\ \A p \in Calls : WF_vars(HandlerStep(p))
    /\ \A r \in Runtimes : WF_vars(SupervisorStep(r))
-----------------------------------------------------------------------------
(***************************************************************************)
(* Safety.                                                                 *)
(***************************************************************************)

\* A runtime is published exactly while its connection is connected, although
\* the status and state.runtimes are written by four different tasks: the
\* connect and disconnect handlers, delete_context and supervise_runtime.  Only
\* the shutdown of the daemon takes runtimes from connected connections.
PublishedIffConnected ==
    \A c \in Connections :
        /\ runtimes[c] # NoRuntime => connections[c].status = "connected"
        /\ connections[c].status = "connected" =>
             runtimes[c] # NoRuntime \/ stopping

\* A published runtime belongs to the connection's current attempt and, unless
\* the id was deleted and created again while it was opened, was opened with
\* the current recipe: late completions of replaced attempts are discarded.
PublishedForCurrentAttempt ==
    \A c \in Connections : runtimes[c] # NoRuntime =>
        LET goal == origin[runtimes[c]] IN
            /\ goal.connection = c
            /\ goal.attempt = AttemptOf(connections, c)
            /\ goal.incarnation = incarnation[c] =>
                 goal.configuration = connections[c].configuration

Closing(p) ==
    call[p].pc \in {"opened", "discarding", "disconnecting", "clearing"}

\* A runtime that a handler opened and did not publish yet, or is closing, is
\* not in state.runtimes: no operation finds one that a handler has given up,
\* and no two tasks both decide what becomes of it.
HeldIsUnpublished ==
    \A p \in Calls, c \in Connections :
        Closing(p) => runtimes[c] \notin call[p].held

Owned(r) ==
    \/ r \in Registered
    \/ \E p \in Calls : Closing(p) /\ r \in call[p].held

\* An open transport is published or held by a handler that will publish or
\* close it, as long as the entry it was opened for was not deleted meanwhile:
\* no interleaving of connect, disconnect, loss and reconfiguration leaks one.
OpenTransportIsOwned ==
    \A r \in Runtimes : transport[r] = "open" =>
        \/ Owned(r)
        \/ LET goal == origin[r] IN
             \/ ~Exists(connections, goal.connection)
             \/ goal.incarnation # incarnation[goal.connection]

\* A pause lease never outlives the connection entry, also when the entry is
\* deleted while the lease is being armed.
LeaseOfExistingConnection ==
    \A c \in Connections : leases[c] # NoRuntime => Exists(connections, c)

\* A runtime leaves state.runtimes only because its own connection is being
\* disconnected or deleted, its own transport ended or the daemon stops; in
\* particular
\* the supervisor of an earlier runtime never removes its successor, and a
\* slot never changes from one runtime to another in one step.
OnlyOwnerUnpublishes ==
    [][\A c \in Connections :
         runtimes[c] # NoRuntime /\ runtimes'[c] # runtimes[c] =>
             /\ runtimes'[c] = NoRuntime
             /\ \/ transport[runtimes[c]] # "open"
                \/ connections'[c].status = "disconnecting"
                \/ ~contextExists'
                \/ stopping']_vars

(***************************************************************************)
(* Liveness, under FairSpec.                                               *)
(***************************************************************************)

\* A connection does not stay connecting or disconnecting for ever: the handler
\* that put it there, or a later one, resolves it.
TransientStatusEnds ==
    \A c \in Connections :
        /\ connections[c].status = "connecting" ~>
               connections[c].status # "connecting"
        /\ connections[c].status = "disconnecting" ~>
               connections[c].status # "disconnecting"

\* A published runtime whose transport ended, or was closed under it, is
\* unpublished and closed.
LossIsNoticed ==
    \A r \in Runtimes :
        r \in Registered /\ transport[r] # "open" ~>
            r \notin Registered /\ transport[r] = "closed"

(***************************************************************************)
(* What the documentation says and the code does not keep.                 *)
(***************************************************************************)

\* debugger-data-model.md 18 (4): a completion is validated against the
\* connection it belongs to.  Attempts are (version, generation) pairs, which
\* repeat after delete_connection and put_connection.
PublishedUsesCurrentConfiguration ==
    \A c \in Connections : runtimes[c] # NoRuntime =>
        origin[runtimes[c]].configuration = connections[c].configuration

\* "connection changed while pause-on-start was being armed" is an error, so a
\* stored lease should be one of the published runtime.
LeaseIsOnPublishedRuntime ==
    \A c \in Connections : leases[c] # NoRuntime => leases[c] = runtimes[c]
(***************************************************************************)
(* The abstract lifecycle, with the phases read off the status.            *)
(***************************************************************************)
PhaseOf(status) ==
    CASE status = "absent"                      -> "absent"
      [] status \in {"disconnected", "failed"}  -> "idle"
      [] status = "connecting"                  -> "opening"
      [] status = "connected"                   -> "live"
      [] status = "disconnecting"               -> "closing"

Lifecycle == INSTANCE ConnectionLifecycle WITH
    phase <- [c \in Connections |-> PhaseOf(connections[c].status)],
    link  <- runtimes,
    used  <- {r \in Runtimes : supervisor[r] # "none"},
    stopped <- stopping

\* The daemon implements the lifecycle: whatever the handlers interleave, each
\* connection only takes documented transitions, a published runtime is always
\* a new one, and it is unpublished in the step that leaves connected.
ImplementsLifecycle == Lifecycle!LifecycleSpec

\* Under FairSpec the daemon also keeps the promise that opening and closing
\* end, in the abstract terms: no scheduling of handlers starves a connection.
ImplementsFairLifecycle == Lifecycle!FairLifecycleSpec
=============================================================================
