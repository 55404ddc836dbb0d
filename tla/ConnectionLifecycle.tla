------------------------- MODULE ConnectionLifecycle -------------------------
(***************************************************************************)
(* What the daemon promises about the connections of a context, with no    *)
(* handlers, locks or stale completions: each connection has a phase and a *)
(* link to at most one runtime.  A link is made only while opening, to a   *)
(* runtime that was never linked before, exists exactly while the          *)
(* connection is live, until the daemon stops, and once broken is never    *)
(* restored.                                                               *)
(* ConnectionService implements this module.                               *)
(***************************************************************************)
CONSTANTS Connections, Runtimes, NoRuntime

VARIABLES
    phase,   \* absent, idle, opening, live or closing
    link,    \* the runtime a live connection uses
    used,    \* runtimes that were ever linked
    stopped  \* the daemon is stopping

abstractVars == <<phase, link, used, stopped>>

Phases == {"absent", "idle", "opening", "live", "closing"}

LifecycleInit ==
    /\ phase = [c \in Connections |-> "absent"]
    /\ link = [c \in Connections |-> NoRuntime]
    /\ used = {}
    /\ stopped = FALSE

Enter(c, new) == phase' = [phase EXCEPT ![c] = new]

Unlink(c) == link' = [link EXCEPT ![c] = NoRuntime]

\* A connection with nothing in progress is created, replaced or removed.
Configure(c) ==
    /\ phase[c] \in {"absent", "idle"}
    /\ Enter(c, "idle")
    /\ UNCHANGED <<link, used, stopped>>

Remove(c) ==
    /\ phase[c] = "idle"
    /\ Enter(c, "absent")
    /\ UNCHANGED <<link, used, stopped>>

Open(c) ==
    /\ phase[c] = "idle"
    /\ Enter(c, "opening")
    /\ UNCHANGED <<link, used, stopped>>

GoLive(c) ==
    /\ phase[c] = "opening"
    /\ Enter(c, "live")
    /\ \E r \in Runtimes \ used :
         /\ link' = [link EXCEPT ![c] = r]
         /\ used' = used \cup {r}
    /\ UNCHANGED stopped

OpenFails(c) ==
    /\ phase[c] = "opening"
    /\ Enter(c, "idle")
    /\ UNCHANGED <<link, used, stopped>>

\* The transport of a live connection ended.
Lose(c) ==
    /\ phase[c] = "live"
    /\ Enter(c, "idle")
    /\ Unlink(c)
    /\ UNCHANGED <<used, stopped>>

\* A failed connection may be disconnected as well, which clears its error.
Close(c) ==
    /\ phase[c] \in {"idle", "opening", "live"}
    /\ Enter(c, "closing")
    /\ Unlink(c)
    /\ UNCHANGED <<used, stopped>>

Closed(c) ==
    /\ phase[c] = "closing"
    /\ Enter(c, "idle")
    /\ UNCHANGED <<link, used, stopped>>

RemoveAll ==
    /\ phase' = [c \in Connections |-> "absent"]
    /\ link' = [c \in Connections |-> NoRuntime]
    /\ UNCHANGED <<used, stopped>>

\* Stopping breaks every link and leaves the phases.
Stop ==
    /\ stopped' = TRUE
    /\ link' = [c \in Connections |-> NoRuntime]
    /\ UNCHANGED <<phase, used>>

LifecycleStep(c) ==
    \/ Configure(c) \/ Remove(c) \/ Open(c) \/ GoLive(c) \/ OpenFails(c)
    \/ Lose(c) \/ Close(c) \/ Closed(c)

LifecycleNext == RemoveAll \/ Stop \/ \E c \in Connections : LifecycleStep(c)

LifecycleSpec == LifecycleInit /\ [][LifecycleNext]_abstractVars

\* Opening and closing always end.
FairLifecycleSpec ==
    /\ LifecycleSpec
    /\ \A c \in Connections :
         /\ WF_abstractVars(GoLive(c) \/ OpenFails(c))
         /\ WF_abstractVars(Closed(c))
=============================================================================
