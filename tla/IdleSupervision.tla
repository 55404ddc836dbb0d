--------------------------- MODULE IdleSupervision ----------------------------
(***************************************************************************)
(* Automatic disconnection of idle connections of one context              *)
(* (service/debugger_service/idle.rs).                                     *)
(*                                                                         *)
(* Every connect makes a new activity clock, which counts the operations   *)
(* that hold a guard on it and knows when it was last used.  A task looks  *)
(* at all connections once per second and disconnects those that are due,  *)
(* one after the other; between its look and a disconnect, operations      *)
(* begin, policies change and connections are replaced.                    *)
(*                                                                         *)
(* Time is the age of a clock, counted up to the longest timeout.          *)
(***************************************************************************)
EXTENDS Integers, FiniteSets, FiniteSetsExt

CONSTANTS
    Connections,   \* the connections of the context
    Varied,        \* bound: those that reconnect and get timeouts of their own
    Operations,    \* calls that use connections
    Nobody,        \* no operation
    Timeouts,      \* the timeouts that may be configured; 0 is "inf"
    MaxConnects    \* bound: how often the varied connections connect, others once

ASSUME IdleAssumption ==
    /\ Timeouts \subseteq Nat
    /\ \E longest \in Timeouts : \A t \in Timeouts : t <= longest
    /\ MaxConnects \in Nat \ {0}
    /\ Varied \subseteq Connections
    /\ IsFiniteSet(Operations) /\ Nobody \notin Operations

VARIABLES
    status,       \* ConnectionState.status
    default,      \* ContextState.idle_timeout
    override,     \* ConnectionState.idle_timeout
    incarnation,  \* how often each connection began to connect
    tracked,      \* state.connection_activity has a clock of this incarnation
    clock,        \* ActivityClock of each incarnation
    opener,       \* the connect_connection call of each incarnation, by connection
    guards,       \* ActivityGuard of each operation: the clocks it holds
    blocked,      \* a paused or recording debugger, or a proxy, of the connection
    relayed,      \* a relay of the context is open
    closer,       \* who waits for the runtime of a connection to close
    candidates,   \* the connections the supervisor found expired
    unused        \* history: time since a connection was used or found blocked

vars == <<status, default, override, incarnation, tracked, clock, opener, guards, blocked,
          relayed, closer, candidates, unused>>
policyVars == <<default, override>>
useVars == <<incarnation, opener, guards>>
blockVars == <<blocked, relayed>>

Infinite == 0
Inherit == -1
Never == Max(Timeouts \cup {1})
Incarnations == 1..MaxConnects
NewClock == [age |-> 0, operations |-> 0]
\* The clock a connect makes and holds.
HeldClock == [age |-> 0, operations |-> 1]

Init ==
    /\ status = [c \in Connections |-> "disconnected"]
    /\ default \in Timeouts
    /\ override = [c \in Connections |-> Inherit]
    /\ incarnation = [c \in Connections |-> 0]
    /\ tracked = [c \in Connections |-> FALSE]
    /\ clock = [c \in Connections |-> [i \in Incarnations |-> NewClock]]
    /\ opener = [c \in Connections |-> Nobody]
    /\ guards = [o \in Operations |-> {}]
    /\ blocked = [c \in Connections |-> FALSE]
    /\ relayed = FALSE
    /\ closer = [c \in Connections |-> "none"]
    /\ candidates = {}
    /\ unused = [c \in Connections |-> 0]

(***************************************************************************)
(* Operations hold the clocks of the connections they address              *)
(***************************************************************************)
\* The clocks of these connections that exist now.
Clocks(S) == {<<c, incarnation[c]>> : c \in {d \in S : tracked[d]}}

\* ActivityGuard::new and its drop: both are a use of the connection.
Used(held, change) ==
    [c \in Connections |-> [i \in Incarnations |->
        IF <<c, i>> \in held
        THEN [age |-> 0, operations |-> clock[c][i].operations + change]
        ELSE clock[c][i]]]

UnusedSince(S) == [c \in Connections |-> IF c \in S THEN 0 ELSE unused[c]]

Current(held) == {c \in Connections : <<c, incarnation[c]>> \in held}

\* connection_activity and context_activity.
Begin(o, S) ==
    /\ guards[o] = {}
    /\ Clocks(S) # {}
    /\ guards' = [guards EXCEPT ![o] = Clocks(S)]
    /\ clock' = Used(Clocks(S), 1)
    /\ unused' = UnusedSince(Current(Clocks(S)))
    /\ UNCHANGED <<status, policyVars, incarnation, tracked, opener, blockVars, closer,
                   candidates>>

End(o) ==
    /\ guards[o] # {}
    /\ \A c \in Connections : status[c] = "connecting" => opener[c] # o
    /\ guards' = [guards EXCEPT ![o] = {}]
    /\ clock' = Used(guards[o], -1)
    /\ unused' = UnusedSince(Current(guards[o]))
    /\ UNCHANGED <<status, policyVars, incarnation, tracked, opener, blockVars, closer,
                   candidates>>

(***************************************************************************)
(* The connection                                                          *)
(***************************************************************************)
\* connect_connection, first section: a clock that the handler itself holds.
Connect(o, c) ==
    /\ status[c] = "disconnected"
    /\ guards[o] = {}
    /\ incarnation[c] < (IF c \in Varied THEN MaxConnects ELSE 1)
    /\ status' = [status EXCEPT ![c] = "connecting"]
    /\ incarnation' = [incarnation EXCEPT ![c] = @ + 1]
    /\ tracked' = [tracked EXCEPT ![c] = TRUE]
    /\ clock' = [clock EXCEPT ![c][incarnation[c] + 1] = HeldClock]
    /\ opener' = [opener EXCEPT ![c] = o]
    /\ guards' = [guards EXCEPT ![o] = {<<c, incarnation[c] + 1>>}]
    /\ unused' = [unused EXCEPT ![c] = 0]
    /\ UNCHANGED <<policyVars, blockVars, closer, candidates>>

\* Its second section; a connection that was disconnected meanwhile stays so.
\* The guard is dropped when the handler ends, not before this section.
Opened(c) ==
    /\ status[c] = "connecting"
    /\ \/ /\ status' = [status EXCEPT ![c] = "connected"]
          /\ UNCHANGED tracked
       \/ /\ status' = [status EXCEPT ![c] = "disconnected"]
          /\ tracked' = [tracked EXCEPT ![c] = FALSE]
    /\ UNCHANGED <<policyVars, useVars, clock, blockVars, closer, candidates, unused>>

\* disconnect_connection_internal, the section that gives the connection up.
GiveUp(c, by) ==
    /\ status' = [status EXCEPT ![c] = "disconnecting"]
    /\ tracked' = [tracked EXCEPT ![c] = FALSE]
    /\ blocked' = [blocked EXCEPT ![c] = FALSE]
    /\ closer' = [closer EXCEPT ![c] = by]

Disconnect(c) ==
    /\ status[c] \in {"connecting", "connected"}
    /\ GiveUp(c, "caller")
    /\ UNCHANGED <<policyVars, useVars, clock, relayed, candidates, unused>>

Closed(c) ==
    /\ status[c] = "disconnecting"
    /\ status' = [status EXCEPT ![c] = "disconnected"]
    /\ closer' = [closer EXCEPT ![c] = "none"]
    /\ UNCHANGED <<policyVars, useVars, tracked, clock, blockVars, candidates, unused>>

\* supervise_runtime: the runtime closes by itself.
Lost(c) ==
    /\ status[c] = "connected"
    /\ status' = [status EXCEPT ![c] = "disconnected"]
    /\ tracked' = [tracked EXCEPT ![c] = FALSE]
    /\ blocked' = [blocked EXCEPT ![c] = FALSE]
    /\ UNCHANGED <<policyVars, useVars, clock, relayed, closer, candidates, unused>>

\* set_context_idle_timeout and set_connection_idle_timeout are no use of a connection.
SetPolicy ==
    /\ \/ /\ default' \in Timeouts
          /\ UNCHANGED override
       \/ /\ \E c \in Varied, t \in Timeouts \cup {Inherit} :
                override' = [override EXCEPT ![c] = t]
          /\ UNCHANGED default
    /\ UNCHANGED <<status, useVars, tracked, clock, blockVars, closer, candidates,
                   unused>>

\* A debugger of the connection pauses, records or serves a raw request, or a
\* proxy is open, and then not any more; the same for a relay of the context.
Block(c) ==
    /\ status[c] = "connected"
    /\ blocked' = [blocked EXCEPT ![c] = ~@]
    /\ UNCHANGED <<status, policyVars, useVars, tracked, clock, relayed, closer,
                   candidates, unused>>

Relay ==
    /\ relayed' = ~relayed
    /\ UNCHANGED <<status, policyVars, useVars, tracked, clock, blocked, closer,
                   candidates, unused>>

(***************************************************************************)
(* The supervisor                                                          *)
(***************************************************************************)
Timeout(c) == IF override[c] # Inherit THEN override[c] ELSE default

\* Whether idle_connection_expired gets as far as to look at the blockers.
Examined(c) == status[c] = "connected" /\ Timeout(c) # Infinite /\ tracked[c]

Blocked(c) == blocked[c] \/ relayed

Clock(c) == clock[c][incarnation[c]]

\* idle_connection_expired: its answer, and its use of the clock of a blocked connection.
Expired(c) ==
    /\ Examined(c)
    /\ ~Blocked(c)
    /\ Clock(c).operations = 0
    /\ Clock(c).age >= Timeout(c)

\* Fault: to look at a connection is to use it.
RefreshedByLook(S) ==
    [c \in Connections |-> [i \in Incarnations |->
        IF c \in S /\ i = incarnation[c] /\ Examined(c)
        THEN [clock[c][i] EXCEPT !.age = 0]
        ELSE clock[c][i]]]

Refreshed(S) ==
    [c \in Connections |-> [i \in Incarnations |->
        IF c \in S /\ i = incarnation[c] /\ Examined(c) /\ Blocked(c)
        THEN [clock[c][i] EXCEPT !.age = 0]
        ELSE clock[c][i]]]

\* Once per second, when it is done with the expired ones of the last time.
Tick ==
    /\ candidates = {}
    /\ "supervisor" \notin {closer[c] : c \in Connections}
    /\ candidates' = {c \in Connections : Expired(c)}
    /\ clock' = Refreshed(Connections)
    /\ unused' = UnusedSince({c \in Connections : Examined(c) /\ Blocked(c)})
    /\ UNCHANGED <<status, policyVars, useVars, tracked, blockVars, closer>>

\* Fault: the connection is disconnected as it was found.
DisconnectFound(c) ==
    /\ c \in candidates
    /\ "supervisor" \notin {closer[d] : d \in Connections}
    /\ candidates' = candidates \ {c}
    /\ IF status[c] = "connected"
       THEN GiveUp(c, "supervisor")
       ELSE UNCHANGED <<status, tracked, blocked, closer>>
    /\ UNCHANGED <<policyVars, useVars, clock, relayed, unused>>

\* disconnect_connection_internal with idle_only: the connection is looked at
\* again in the section that gives it up.
DisconnectExpired(c) ==
    /\ c \in candidates
    /\ "supervisor" \notin {closer[d] : d \in Connections}
    /\ candidates' = candidates \ {c}
    /\ clock' = Refreshed({c})
    /\ IF Expired(c)
       THEN GiveUp(c, "supervisor")
       ELSE UNCHANGED <<status, tracked, blocked, closer>>
    /\ UNCHANGED <<policyVars, useVars, relayed, unused>>

Pass ==
    /\ \E c \in Connections : tracked[c] /\ Min({unused[c], Clock(c).age}) < Never
    /\ clock' = [c \in Connections |-> [i \in Incarnations |->
                    IF i = incarnation[c] /\ tracked[c]
                    THEN [clock[c][i] EXCEPT !.age = Min({@ + 1, Never})]
                    ELSE clock[c][i]]]
    /\ unused' = [c \in Connections |-> Min({unused[c] + 1, Never})]
    /\ UNCHANGED <<status, policyVars, useVars, tracked, blockVars, closer, candidates>>

Next ==
    \/ \E o \in Operations : \/ \E c \in Connections : Begin(o, {c}) \/ Connect(o, c)
                             \/ Begin(o, Connections)
                             \/ End(o)
    \/ \E c \in Connections : Opened(c) \/ Disconnect(c) \/ Closed(c) \/ Lost(c) \/ Block(c)
                              \/ DisconnectExpired(c)
    \/ SetPolicy \/ Relay \/ Tick \/ Pass

\* Time passes, the supervisor runs, and a runtime that is asked to close does.
Fairness ==
    /\ WF_vars(Pass)
    /\ WF_vars(Tick)
    /\ \A c \in Connections : WF_vars(DisconnectExpired(c)) /\ WF_vars(Closed(c))

Spec == Init /\ [][Next]_vars /\ Fairness

(***************************************************************************)
(* Properties                                                              *)
(***************************************************************************)
IdleTypeOK ==
    /\ status \in [Connections -> {"disconnected", "connecting", "connected", "disconnecting"}]
    /\ default \in Timeouts
    /\ override \in [Connections -> Timeouts \cup {Inherit}]
    /\ incarnation \in [Connections -> 0..MaxConnects]
    /\ tracked \in [Connections -> BOOLEAN]
    /\ clock \in [Connections -> [Incarnations ->
                     [age : 0..Never, operations : 0..Cardinality(Operations)]]]
    /\ opener \in [Connections -> Operations \cup {Nobody}]
    /\ guards \in [Operations -> SUBSET (Connections \X Incarnations)]
    /\ blocked \in [Connections -> BOOLEAN]
    /\ closer \in [Connections -> {"none", "caller", "supervisor"}]
    /\ candidates \subseteq Connections
    /\ \A c \in Connections : status[c] = "connected" => tracked[c]

\* A connection is only disconnected as idle when for its timeout no operation
\* used it, none does now, and the supervisor did not find it blocked.  (It does
\* not look for blockers while the timeout is infinite: time under "inf" counts
\* as unused although a target was paused.)
IdleDisconnectIsDue ==
    [][\A c \in Connections :
          closer[c] = "none" /\ closer'[c] = "supervisor" =>
             /\ unused[c] >= Timeout(c)
             /\ Timeout(c) # Infinite
             /\ ~Blocked(c)
             /\ \A o \in Operations : <<c, incarnation[c]>> \notin guards[o]]_vars

\* A connection that stays unused, unblocked and under a timeout does not stay
\* connected.
IdleConnectionEnds ==
    \A c \in Connections :
       ~<>[](/\ Examined(c)
             /\ ~Blocked(c)
             /\ \A o \in Operations : <<c, incarnation[c]>> \notin guards[o])
===============================================================================
