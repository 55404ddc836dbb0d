--------------------------- MODULE PauseChildrenLease ---------------------------
(***************************************************************************)
(* The pause lease of one connection below set_pause_future_children: the  *)
(* reference count of PauseChildrenLeaseRegistry, arm() and the task that  *)
(* the last drop spawns, and the control socket of the renderer bridge that*)
(* turns pausing on and off.  One runtime with a virtual browser root and  *)
(* an installed bridge; ConnectionService has the life of the runtime.     *)
(* (connection/discovery/mod.rs, connection/providers/mod.rs,              *)
(* connection/transport/electron_renderer_transport.rs)                    *)
(*                                                                         *)
(* A frame is applied by the bridge in the order of writing.  Its ack wakes*)
(* the writer; a lost or late ack and a closed socket are errors that the  *)
(* callers ignore.                                                         *)
(***************************************************************************)
EXTENDS Naturals, Sequences, FiniteSets

CONSTANTS
    Calls,               \* set_pause_future_children(true) handlers in flight
    NoCall,              \* a frame nobody waits for
    MaxFrames,           \* bound on disarm tasks and frames not yet applied
    MaxClientRequests    \* bound on setAutoAttach requests of CDP clients

ASSUME NoCallAssumption == NoCall \notin Calls
ASSUME CallsAssumption == IsFiniteSet(Calls)
ASSUME FrameBoundAssumption == MaxFrames \in Nat /\ MaxClientRequests \in Nat

VARIABLES
    current,    \* the connection still has the generation of this runtime
    slot,       \* state.pause_children_leases holds a lease of this runtime
    demand,     \* LeaseState.counts of the root resource
    call,       \* where each handler is
    disarming,  \* tasks spawned by demand_changed(0) that did not write yet
    wire,       \* control frames written and not yet applied by the bridge
    bridge,     \* the control socket: open or closed
    armed,      \* waitForDebuggerOnStart in the bridge
    wanted,     \* history: what the last setAutoAttach asked for
    requests    \* history: setAutoAttach requests so far

leaseVars == <<current, slot, demand, call, disarming, wire, bridge, armed, wanted,
               requests>>

-----------------------------------------------------------------------------
CallPcs == {"idle",
            "found",      \* the capability is known, arm() not yet entered
            "acquired",   \* arm: the lease is counted
            "sending",    \* arm: it saw a demand of 1 and turns pausing on
            "sent",       \* arm: the frame is written, the ack is awaited
            "armed"}      \* arm() returned the lease

Frame == [enabled : BOOLEAN, from : Calls \cup {NoCall}]

At(p, pc) == call[p] = pc

Goto(p, pc) == call' = [call EXCEPT ![p] = pc]

HoldsLease(p) == call[p] \in {"acquired", "sending", "sent", "armed"}

Written(enabled, p) == Append(wire, [enabled |-> enabled, from |-> p])

LeaseInit ==
    /\ current = TRUE
    /\ slot = FALSE
    /\ demand = 0
    /\ call = [p \in Calls |-> "idle"]
    /\ disarming = 0
    /\ wire = <<>>
    /\ bridge = "open"
    /\ armed = FALSE
    /\ wanted = FALSE
    /\ requests = 0

-----------------------------------------------------------------------------
(***************************************************************************)
(* Leases.                                                                 *)
(***************************************************************************)
\* Fault: the observer is not notified of the last drop.
ReleaseUnnoticed ==
    /\ demand' = demand - 1
    /\ UNCHANGED disarming

\* Lease::drop; demand_changed(0) spawns a task.
Release ==
    /\ demand' = demand - 1
    /\ disarming' = IF demand = 1 THEN disarming + 1 ELSE disarming

\* The first section: an occupied slot is the early return Ok(true).
ArmBegins(p) ==
    /\ At(p, "idle")
    /\ current
    /\ ~slot
    /\ disarming + Len(wire) < MaxFrames
    /\ Goto(p, "found")
    /\ UNCHANGED <<current, slot, demand, disarming, wire, bridge, armed, wanted,
                   requests>>

\* The runtime may be gone before arm() upgrades its weak reference.
ArmIsUnavailable(p) ==
    /\ At(p, "found")
    /\ ~current
    /\ Goto(p, "idle")
    /\ UNCHANGED <<current, slot, demand, disarming, wire, bridge, armed, wanted,
                   requests>>

ArmAcquires(p) ==
    /\ At(p, "found")
    /\ Goto(p, "acquired")
    /\ demand' = demand + 1
    /\ UNCHANGED <<current, slot, disarming, wire, bridge, armed, wanted, requests>>

\* lease.demand() is read in a critical section of its own.
ArmReadsDemand(p) ==
    /\ At(p, "acquired")
    /\ Goto(p, IF demand = 1 THEN "sending" ELSE "armed")
    /\ UNCHANGED <<current, slot, demand, disarming, wire, bridge, armed, wanted,
                   requests>>

ArmSends(p) ==
    /\ At(p, "sending")
    /\ IF bridge = "open"
       THEN Goto(p, "sent") /\ wire' = Written(TRUE, p)
       ELSE Goto(p, "armed") /\ UNCHANGED wire
    /\ UNCHANGED <<current, slot, demand, disarming, bridge, armed, wanted,
                   requests>>

\* The ack is given up; the frame stays on its way.
ArmTimesOut(p) ==
    /\ At(p, "sent")
    /\ Goto(p, "armed")
    /\ wire' = [i \in DOMAIN wire |->
                  IF wire[i].from = p THEN [wire[i] EXCEPT !.from = NoCall]
                  ELSE wire[i]]
    /\ UNCHANGED <<current, slot, demand, disarming, bridge, armed, wanted,
                   requests>>

\* Fault: the lease that the new one replaces stays counted.
ArmReturnsKeepingBoth(p) ==
    /\ At(p, "armed")
    /\ Goto(p, "idle")
    /\ IF current
       THEN slot' = TRUE /\ UNCHANGED <<demand, disarming>>
       ELSE Release /\ UNCHANGED slot
    /\ UNCHANGED <<current, wire, bridge, armed, wanted, requests>>

\* The second section: a stored lease replaces, and drops, an earlier one.
ArmReturns(p) ==
    /\ At(p, "armed")
    /\ Goto(p, "idle")
    /\ IF current
       THEN /\ slot' = TRUE
            /\ IF slot THEN Release ELSE UNCHANGED <<demand, disarming>>
       ELSE Release /\ UNCHANGED slot
    /\ UNCHANGED <<current, wire, bridge, armed, wanted, requests>>

\* Fault: turning pausing off releases a lease whether or not there is one.
PauseOffAlways ==
    /\ disarming + Len(wire) < MaxFrames
    /\ slot' = FALSE
    /\ Release
    /\ UNCHANGED <<current, call, wire, bridge, armed, wanted, requests>>

PauseOff ==
    /\ slot
    /\ slot' = FALSE
    /\ Release
    /\ UNCHANGED <<current, call, wire, bridge, armed, wanted, requests>>

\* Disconnect, deletion or loss: the generation or the entry is gone.
ConnectionEnds ==
    /\ current
    /\ current' = FALSE
    /\ slot' = FALSE
    /\ IF slot THEN Release ELSE UNCHANGED <<demand, disarming>>
    /\ UNCHANGED <<call, wire, bridge, armed, wanted, requests>>

-----------------------------------------------------------------------------
(***************************************************************************)
(* The control socket.                                                     *)
(***************************************************************************)
\* Fault: the spawned task turns pausing on again.
DisarmKeepsArmed ==
    /\ disarming > 0
    /\ disarming' = disarming - 1
    /\ wire' = IF bridge = "open" THEN Written(TRUE, NoCall) ELSE wire
    /\ UNCHANGED <<current, slot, demand, call, bridge, armed, wanted, requests>>

Disarm ==
    /\ disarming > 0
    /\ disarming' = disarming - 1
    /\ wire' = IF bridge = "open" THEN Written(FALSE, NoCall) ELSE wire
    /\ UNCHANGED <<current, slot, demand, call, bridge, armed, wanted, requests>>

\* Target.setAutoAttach of a CDP client of the virtual root writes the same flag.
ClientSetsAutoAttach(wait) ==
    /\ bridge = "open"
    /\ requests < MaxClientRequests
    /\ requests' = requests + 1
    /\ wanted' = wait
    /\ wire' = Written(wait, NoCall)
    /\ UNCHANGED <<current, slot, demand, call, disarming, bridge, armed>>

BridgeApplies ==
    /\ wire # <<>>
    /\ wire' = Tail(wire)
    /\ armed' = Head(wire).enabled
    /\ call' = [p \in Calls |->
                  IF Head(wire).from = p THEN "armed" ELSE call[p]]
    /\ UNCHANGED <<current, slot, demand, disarming, bridge, wanted, requests>>

\* dispose(), or the end of the process: blocked targets run, acks fail.
BridgeCloses ==
    /\ bridge = "open"
    /\ bridge' = "closed"
    /\ armed' = FALSE
    /\ wire' = <<>>
    /\ call' = [p \in Calls |-> IF At(p, "sent") THEN "armed" ELSE call[p]]
    /\ UNCHANGED <<current, slot, demand, disarming, wanted, requests>>

CallStep(p) ==
    \/ ArmIsUnavailable(p) \/ ArmAcquires(p) \/ ArmReadsDemand(p)
    \/ ArmSends(p) \/ ArmTimesOut(p) \/ ArmReturns(p)

LeaseNext ==
    \/ \E p \in Calls : ArmBegins(p) \/ CallStep(p)
    \/ \E wait \in BOOLEAN : ClientSetsAutoAttach(wait)
    \/ PauseOff \/ ConnectionEnds \/ Disarm \/ BridgeApplies \/ BridgeCloses

LeaseSpec == LeaseInit /\ [][LeaseNext]_leaseVars

\* Handlers and spawned tasks are scheduled; the bridge reads its socket or the
\* socket ends.
FairLeaseSpec ==
    /\ LeaseSpec
    /\ \A p \in Calls : WF_leaseVars(CallStep(p))
    /\ WF_leaseVars(Disarm)
    /\ WF_leaseVars(BridgeApplies)
-----------------------------------------------------------------------------
(***************************************************************************)
(* Properties.                                                             *)
(***************************************************************************)
\* Every variable keeps its type; the demand never goes below zero.
TypeOK ==
    /\ current \in BOOLEAN /\ slot \in BOOLEAN
    /\ demand \in Nat /\ disarming \in Nat
    /\ call \in [Calls -> CallPcs]
    /\ wire \in Seq(Frame)
    /\ bridge \in {"open", "closed"}
    /\ armed \in BOOLEAN /\ wanted \in BOOLEAN
    /\ requests \in 0 .. MaxClientRequests

\* The count is the number of leases alive, in the slot and in handlers: no
\* replacement, failure or disconnect leaks or doubles a reference.
DemandCountsLeases ==
    demand = Cardinality({p \in Calls : HoldsLease(p)}) + (IF slot THEN 1 ELSE 0)

Quiescent ==
    /\ bridge = "open"
    /\ wire = <<>>
    /\ disarming = 0
    /\ \A p \in Calls : At(p, "idle")

\* When everything has settled and nobody asks for pausing, new targets are
\* not blocked: whatever the order in which frames were written, the last one
\* after the last lease turned pausing off.
NeverLeftArmed == Quiescent /\ demand = 0 /\ ~wanted => ~armed

\* Pausing does not stay on without a lease: it is turned off, unless somebody
\* asks for it again or the bridge closes.
ArmedNeedsDemand ==
    (armed /\ demand = 0 /\ ~wanted) ~>
        (~armed \/ demand # 0 \/ wanted)

\* api/capability.rs 210: "Pausing stays armed while any lease is alive".
StoredLeaseIsArmed == Quiescent /\ slot => armed
=============================================================================
