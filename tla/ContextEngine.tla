---------------------------- MODULE ContextEngine ----------------------------
(***************************************************************************)
(* The connection part of the context reducer (service/context_engine.rs). *)
(* reduce_context is a pure function from a context and one input to the   *)
(* next context; here every input it accepts is a pair of operators over   *)
(* the map of connections: the condition under which the reducer returns   *)
(* Ok with a change, and the map it then returns.  When the condition is   *)
(* false the reducer returns an error or the unchanged context.            *)
(*                                                                         *)
(* A map entry that is absent from the BTreeMap is the record NoConnection,*)
(* whose counters are 0: `map_or(1, |c| c.configuration_version + 1)` and  *)
(* `map_or(0, |c| c.generation)` then need no case distinction.  Idle      *)
(* timeouts, display names and formatting rules are payload and left out.  *)
(***************************************************************************)
EXTENDS Naturals

CONSTANTS
    Connections,      \* connection ids of one context
    Configurations,   \* connection recipes (DirectCdp, Chrome, Node, ...)
    NoConfiguration   \* the recipe of a connection that does not exist

ASSUME NoConfigurationAssumption == NoConfiguration \notin Configurations

ActiveStatuses == {"connecting", "disconnecting", "connected"}

ConnectionStatus == ActiveStatuses \cup {"disconnected", "failed"}

\* A completion or observation names the attempt it belongs to.
ConnectionAttempt == [version : Nat, generation : Nat]

ConnectionState ==
    [configuration : Configurations \cup {NoConfiguration},
     version       : Nat,
     generation    : Nat,
     status        : ConnectionStatus \cup {"absent"}]

NoConnection ==
    [configuration |-> NoConfiguration, version |-> 0, generation |-> 0,
     status |-> "absent"]

NoConnections == [c \in Connections |-> NoConnection]

-----------------------------------------------------------------------------
Exists(conns, c) == conns[c].status # "absent"

IsActive(conns, c) == conns[c].status \in ActiveStatuses

AttemptOf(conns, c) ==
    [version |-> conns[c].version, generation |-> conns[c].generation]

WithStatus(conns, c, status) == [conns EXCEPT ![c].status = status]

(***************************************************************************)
(* User commands.                                                          *)
(***************************************************************************)
\* Fault: an active connection may be replaced.
MayPutAlways(conns, c) == TRUE

MayPutConnection(conns, c) == ~IsActive(conns, c)

\* Replacing a recipe starts a new configuration version and keeps the
\* generation, so the attempts of one entry never repeat.
PutConnection(conns, c, configuration) ==
    [conns EXCEPT ![c] =
        [configuration |-> configuration, version |-> @.version + 1,
         generation |-> @.generation, status |-> "disconnected"]]

MayRemoveConnection(conns, c) == Exists(conns, c) /\ ~IsActive(conns, c)

RemoveConnection(conns, c) == [conns EXCEPT ![c] = NoConnection]

MayConnect(conns, c) == Exists(conns, c) /\ ~IsActive(conns, c)

ConnectConnection(conns, c) ==
    [conns EXCEPT ![c].generation = @ + 1, ![c].status = "connecting"]

\* Disconnected is returned unchanged, Disconnecting is an error.
MayDisconnect(conns, c) ==
    conns[c].status \in {"connecting", "connected", "failed"}

\* Fault: a status the API does not know.
DisconnectToUnknownStatus(conns, c) == WithStatus(conns, c, "closing")

DisconnectConnection(conns, c) == WithStatus(conns, c, "disconnecting")

(***************************************************************************)
(* Effect completions (require_pending_status) and runtime observations.   *)
(***************************************************************************)
\* Fault: the status alone decides, as if require_pending_status forgot the attempt.
IsPendingForAnyAttempt(conns, c, attempt, status) ==
    conns[c].status = status

IsPending(conns, c, attempt, status) ==
    /\ AttemptOf(conns, c) = attempt
    /\ conns[c].status = status

ConnectionOpened(conns, c)     == WithStatus(conns, c, "connected")
ConnectionOpenFailed(conns, c) == WithStatus(conns, c, "failed")
ConnectionClosed(conns, c)     == WithStatus(conns, c, "disconnected")

\* The ConnectionClosed observation: a stale one leaves the context unchanged.
ObserveClosed(conns, c, attempt) ==
    IF IsPending(conns, c, attempt, "connected")
    THEN WithStatus(conns, c, "failed")
    ELSE conns
=============================================================================
