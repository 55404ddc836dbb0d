--------------------------- MODULE ChildSessions ---------------------------
(***************************************************************************)
(* The native child sessions of one target endpoint.  A page session of    *)
(* the virtual browser root forwards the events of its target; an attach   *)
(* event among them opens a session of its own for the child, whose        *)
(* events come over a second, bounded route: mux, route queue, notifier    *)
(* task, client.  A watcher task retires the session when the route fails. *)
(* The same routes answer requests of clients and of raw CDP sessions.     *)
(*   src/packages/dbgjs/src/service/virtual_browser_root.rs                *)
(*   src/packages/dbgjs/src/connection/transport/session_transport.rs      *)
(***************************************************************************)
EXTENDS Naturals, Sequences, FiniteSets, TLC

CONSTANTS
    Pages,       \* page sessions opened on the endpoint
    Children,    \* native session ids of its child targets
    None,        \* no page, no event, no message
    QueueLimit,  \* RAW_NOTIFICATION_LIMIT
    CallLimit,   \* RAW_UNRESOLVED_CALL_LIMIT
    RouteLimit,  \* RAW_ROUTE_LIMIT
    MaxAttach,   \* bound on the attachments that use one native id
    MaxEvents    \* bound on the events of one child

ASSUME LimitsAssumption ==
    /\ {QueueLimit, CallLimit, RouteLimit} \subseteq Nat \ {0}
    /\ {MaxAttach, MaxEvents} \subseteq Nat

ASSUME NoneAssumption == None \notin Pages \cup [number : Nat, event : Nat]

VARIABLES
    native,      \* browser: attached?, attachments and events so far
    wire,        \* events of a child on their way to its channel task
    sink,        \* events of the target on their way to each forwarder
    route,       \* raw_routes of the endpoint's mux, one record per id
    owner,       \* child_routes: the page session a child belongs to
    client,      \* the child's channel on the client's mux
    watcher,     \* failure_task of each child
    forwarder,   \* event task of each page session
    open,        \* page sessions that are attached
    told,        \* history: attach and detach events sent to each page session
    got,         \* history: child events that reached the client
    calls,       \* requests of each child's linkrpc channel without a response:
                 \* of raw sessions, of clients, and those nobody waits for
    disposed     \* the endpoint was closed

browser == <<native, wire>>
tasks == <<watcher, forwarder>>
sessions == <<owner, client, open>>
vars == <<browser, sink, route, sessions, tasks, told, got, calls, disposed>>

-----------------------------------------------------------------------------
(* Raw routes                                                              *)

NoRoute == [exists |-> FALSE, failed |-> FALSE, queue |-> <<>>,
            listener |-> FALSE, pending |-> <<>>, detached |-> FALSE,
            held |-> None, running |-> FALSE, active |-> FALSE,
            unresolved |-> 0, synthetic |-> FALSE]

\* Fault: a full queue drops the entry.
SentOrDropped(r, item) ==
    IF r.failed \/ Len(r.queue) = QueueLimit THEN r
    ELSE [r EXCEPT !.queue = Append(@, item)]

\* try_send on the route's queue: a full queue fails the route.
Sent(r, item) ==
    IF r.failed THEN r
    ELSE IF Len(r.queue) = QueueLimit THEN [r EXCEPT !.failed = TRUE]
    ELSE [r EXCEPT !.queue = Append(@, item)]

\* Handed to a route that may have been dropped: raw_routes.get(id).
SentTo(c, item) ==
    IF route[c].exists THEN [route EXCEPT ![c] = Sent(@, item)] ELSE route

Routes == {c \in Children : route[c].exists}

Ensurable(c) ==
    /\ ~disposed
    /\ IF route[c].exists THEN ~route[c].failed
                          ELSE Cardinality(Routes) < RouteLimit

Ensured(c) ==
    IF Ensurable(c) /\ ~route[c].exists
    THEN [route EXCEPT ![c] = [NoRoute EXCEPT !.exists = TRUE,
                                              !.running = TRUE]]
    ELSE route

-----------------------------------------------------------------------------
(* The browser                                                             *)

Live(c) == native[c].on

\* Every subscriber of the endpoint gets the event: one per page session.
Published(kind, c) ==
    [p \in Pages |-> IF p \in open
                     THEN Append(sink[p], [kind |-> kind, child |-> c,
                                           number |-> native'[c].count])
                     ELSE sink[p]]

NativeAttach(c) ==
    /\ ~Live(c) /\ ~disposed
    /\ native[c].count < MaxAttach
    /\ native' = [native EXCEPT ![c] = [native[c] EXCEPT !.on = TRUE, !.count = @ + 1]]
    /\ sink' = Published("attached", c)
    /\ UNCHANGED <<wire, route, sessions, tasks, told, got, calls, disposed>>

\* The child goes away, by itself or on Target.detachFromTarget.
Detaches(c) ==
    IF Live(c)
    THEN /\ native' = [native EXCEPT ![c].on = FALSE]
         /\ sink' = Published("detached", c)
    ELSE UNCHANGED <<native, sink>>

NativeDetach(c) ==
    /\ Live(c) /\ Detaches(c)
    /\ UNCHANGED <<wire, route, sessions, tasks, told, got, calls, disposed>>

NativeEvent(c) ==
    /\ Live(c)
    /\ native[c].events < MaxEvents
    /\ native' = [native EXCEPT ![c].events = @ + 1]
    /\ wire' = [wire EXCEPT ![c] = Append(@,
                   [number |-> native[c].count, event |-> native'[c].events])]
    /\ UNCHANGED <<sink, route, sessions, tasks, told, got, calls, disposed>>

-----------------------------------------------------------------------------
(* The channel task and the notifier task of a route                       *)

\* The mux drops an event for a channel it does not have.
RouteEvent(c) ==
    /\ wire[c] # <<>>
    /\ wire' = [wire EXCEPT ![c] = Tail(@)]
    /\ route' = SentTo(c, Head(wire[c]))
    /\ UNCHANGED <<native, sink, sessions, tasks, told, got, calls, disposed>>

Listen == [kind |-> "listen"]
Pause == [kind |-> "pause"]

\* What the notifier does with the next entry of its queue.
Heard(r, item) ==
    CASE item = Listen -> [r EXCEPT !.listener = TRUE, !.detached = FALSE]
      [] item = Pause -> [r EXCEPT !.listener = FALSE, !.detached = TRUE,
                                   !.pending = <<>>]
      [] item \notin {Listen, Pause} ->
            IF r.listener THEN [r EXCEPT !.held = item]
            ELSE IF r.detached THEN r
            ELSE IF Len(r.pending) = QueueLimit
                 THEN [r EXCEPT !.failed = TRUE, !.running = FALSE]
            ELSE [r EXCEPT !.pending = Append(@, item)]

Notifier(c) == route[c].running /\ ~route[c].failed /\ route[c].held = None

TakeNotification(c) ==
    /\ Notifier(c) /\ route[c].queue # <<>>
    /\ ~(route[c].listener /\ route[c].pending # <<>>)
    /\ route' = [route EXCEPT ![c] = Heard([route[c] EXCEPT !.queue = Tail(@)],
                                            Head(route[c].queue))]
    /\ UNCHANGED <<browser, sink, sessions, tasks, told, got, calls, disposed>>

\* A new listener first gets what was kept for it.
TakePending(c) ==
    /\ Notifier(c) /\ route[c].listener /\ route[c].pending # <<>>
    /\ route' = [route EXCEPT ![c] = [route[c] EXCEPT !.held = Head(route[c].pending),
                                                      !.pending = Tail(@)]]
    /\ UNCHANGED <<browser, sink, sessions, tasks, told, got, calls, disposed>>

\* Fault: the listener keeps the channel of the attachment it was made for.
ForwardAnyway(c) ==
    /\ route[c].held # None
    /\ got' = [got EXCEPT ![c] = Append(@, route[c].held)]
    /\ route' = [route EXCEPT ![c].held = None]
    /\ UNCHANGED <<browser, sink, sessions, tasks, told, calls, disposed>>

\* NativeChildHandler passes the event to the child's client channel.
Forward(c) ==
    /\ route[c].held # None
    /\ got' = IF owner[c] # None /\ client[c] = "open"
              THEN [got EXCEPT ![c] = Append(@, route[c].held)] ELSE got
    /\ route' = [route EXCEPT ![c].held = None]
    /\ UNCHANGED <<browser, sink, sessions, tasks, told, calls, disposed>>

Kinds == {"raw", "client"}
Waiting(c) == calls[c]["raw"] + calls[c]["client"]

\* The notifier sees the failure and drops the listener it may be blocked
\* in; a removed route is dropped, and its tasks with it, once no call uses it.
NotifierStops(c) ==
    /\ route[c].running
    /\ route[c].failed \/ (~route[c].exists /\ Waiting(c) = 0)
    /\ route' = [route EXCEPT ![c].running = FALSE, ![c].held = None]
    /\ UNCHANGED <<browser, sink, sessions, tasks, told, got, calls, disposed>>

-----------------------------------------------------------------------------
(* The event task of a page session                                        *)

Idle == [at |-> "idle", msg |-> None]

At(p, step, msg) == [forwarder EXCEPT ![p] = [at |-> step, msg |-> msg]]

NotWatched == [at |-> "none", page |-> None, number |-> 0]

Takes(p) ==
    /\ p \in open /\ forwarder[p] = Idle /\ sink[p] # <<>>
    /\ sink' = [sink EXCEPT ![p] = Tail(@)]

RouteAttached(p) ==
    /\ Takes(p)
    /\ LET msg == Head(sink[p])
           c == msg.child
       IN /\ msg.kind = "attached"
          /\ IF owner[c] # None
             THEN /\ forwarder' = At(p, "notify", msg)
                  /\ UNCHANGED <<route, owner, client, watcher>>
             ELSE IF Ensurable(c) /\ client[c] = "unused"
             THEN /\ route' = Ensured(c)
                  /\ owner' = [owner EXCEPT ![c] = p]
                  /\ client' = [client EXCEPT ![c] = "open"]
                  /\ watcher' = [watcher EXCEPT ![c] =
                        [at |-> "watching", page |-> p, number |-> msg.number]]
                  /\ forwarder' = At(p, "notify", msg)
             \* the mux never opens a channel id twice
             ELSE /\ route' = Ensured(c)
                  /\ forwarder' = At(p, "refuse", msg)
                  /\ UNCHANGED <<owner, client, watcher>>
    /\ UNCHANGED <<browser, open, told, got, calls, disposed>>

Retired(c) == IF client[c] = "open" THEN "retired" ELSE client[c]

\* A detach that the watcher has already told is not forwarded.
RouteDetached(p) ==
    /\ Takes(p)
    /\ LET msg == Head(sink[p])
           c == msg.child
           synthetic == route[c].exists /\ route[c].synthetic
       IN /\ msg.kind = "detached"
          /\ route' = [SentTo(c, Pause) EXCEPT ![c].synthetic = FALSE]
          /\ IF owner[c] = None THEN UNCHANGED <<owner, client, watcher>>
             ELSE /\ owner' = [owner EXCEPT ![c] = None]
                  /\ client' = [client EXCEPT ![c] = Retired(c)]
                  /\ watcher' = [watcher EXCEPT ![c] = NotWatched]
          /\ forwarder' = IF synthetic THEN forwarder ELSE At(p, "notify", msg)
    /\ UNCHANGED <<browser, open, told, got, calls, disposed>>

\* Target.detachFromTarget may be answered by an error or time out.
AskedToDetach(c) ==
    \/ Detaches(c)
    \/ UNCHANGED <<native, sink>>

RefuseAttached(p) ==
    /\ forwarder[p].at = "refuse"
    /\ AskedToDetach(forwarder[p].msg.child)
    /\ forwarder' = At(p, "notify", [forwarder[p].msg EXCEPT !.kind = "detached"])
    /\ UNCHANGED <<wire, route, sessions, watcher, told, got, calls, disposed>>

Tell(p, c, kind, number) ==
    told' = IF p \in open
            THEN [told EXCEPT ![p][c] = Append(@, [kind |-> kind, number |-> number])]
            ELSE told

Notify(p) ==
    /\ forwarder[p].at = "notify"
    /\ LET msg == forwarder[p].msg
       IN /\ Tell(p, msg.child, msg.kind, msg.number)
          /\ forwarder' = IF msg.kind = "attached" THEN At(p, "activate", msg)
                          ELSE [forwarder EXCEPT ![p] = Idle]
    /\ UNCHANGED <<browser, sink, route, sessions, watcher, got, calls, disposed>>

Activate(p) ==
    /\ forwarder[p].at = "activate"
    /\ LET c == forwarder[p].msg.child
       IN route' = IF owner[c] = None THEN route ELSE SentTo(c, Listen)
    /\ forwarder' = [forwarder EXCEPT ![p] = Idle]
    /\ UNCHANGED <<browser, sink, sessions, watcher, told, got, calls, disposed>>

-----------------------------------------------------------------------------
(* The watcher of a child                                                  *)

Watches(c, step) == [watcher EXCEPT ![c].at = step]

\* Fault: the detach to come is not marked as told.
WatcherRemovesUnmarked(c) ==
    /\ watcher[c].at = "watching" /\ route[c].failed
    /\ owner' = [owner EXCEPT ![c] = None]
    /\ watcher' = Watches(c, "retire")
    /\ UNCHANGED <<browser, sink, route, client, open, forwarder, told, got,
                   calls, disposed>>

WatcherRemoves(c) ==
    /\ watcher[c].at = "watching" /\ route[c].failed
    /\ owner' = [owner EXCEPT ![c] = None]
    /\ route' = IF route[c].exists THEN [route EXCEPT ![c].synthetic = TRUE]
                                   ELSE route
    /\ watcher' = Watches(c, "retire")
    /\ UNCHANGED <<browser, sink, client, open, forwarder, told, got, calls,
                   disposed>>

\* Fault: the page session is not told.
WatcherRetiresOnly(c) ==
    /\ watcher[c].at = "retire"
    /\ client' = [client EXCEPT ![c] = Retired(c)]
    /\ watcher' = Watches(c, "detach")
    /\ UNCHANGED <<browser, sink, route, owner, open, forwarder, told, got,
                   calls, disposed>>

WatcherRetires(c) ==
    /\ watcher[c].at = "retire"
    /\ client' = [client EXCEPT ![c] = Retired(c)]
    /\ watcher' = Watches(c, "tell")
    /\ UNCHANGED <<browser, sink, route, owner, open, forwarder, told, got,
                   calls, disposed>>

WatcherTells(c) ==
    /\ watcher[c].at = "tell"
    /\ Tell(watcher[c].page, c, "detached", watcher[c].number)
    /\ watcher' = Watches(c, "detach")
    /\ UNCHANGED <<browser, sink, route, sessions, forwarder, got, calls, disposed>>

WatcherDetaches(c) ==
    /\ watcher[c].at = "detach"
    /\ AskedToDetach(c)
    /\ watcher' = [watcher EXCEPT ![c] = NotWatched]
    /\ UNCHANGED <<wire, route, sessions, forwarder, told, got, calls, disposed>>

-----------------------------------------------------------------------------
(* Page sessions and the endpoint                                          *)

\* The client detaches its session or the endpoint closed under it; the
\* child routes that belong to the session go with it.
DetachPage(p) ==
    /\ p \in open
    /\ open' = open \ {p}
    /\ LET mine == {c \in Children : owner[c] = p}
       IN /\ owner' = [c \in Children |-> IF c \in mine THEN None ELSE owner[c]]
          /\ client' = [c \in Children |->
                           IF c \in mine THEN Retired(c) ELSE client[c]]
          /\ watcher' = [c \in Children |->
                            IF c \in mine THEN NotWatched ELSE watcher[c]]
    /\ forwarder' = [forwarder EXCEPT ![p] = Idle]
    /\ sink' = [sink EXCEPT ![p] = <<>>]
    /\ UNCHANGED <<browser, route, told, got, calls, disposed>>

\* TargetEndpoint::close or the end of its transport.
Dispose ==
    /\ ~disposed /\ disposed' = TRUE
    /\ native' = [c \in Children |-> [native[c] EXCEPT !.on = FALSE]]
    /\ wire' = [c \in Children |-> <<>>]
    /\ route' = [c \in Children |-> [route[c] EXCEPT !.exists = FALSE]]
    /\ UNCHANGED <<sink, sessions, tasks, told, got, calls>>

-----------------------------------------------------------------------------
(* Requests                                                                *)

OpenRaw(c) ==
    /\ Ensurable(c) /\ ~route[c].active
    /\ route' = [Ensured(c) EXCEPT ![c].active = TRUE]
    /\ UNCHANGED <<browser, sink, sessions, tasks, told, got, calls, disposed>>

\* Every request of the session that is under way is answered at once.
CloseRaw(c) ==
    /\ route[c].active
    /\ route' = [route EXCEPT ![c].active = FALSE]
    /\ calls' = [calls EXCEPT ![c] = [calls[c] EXCEPT !["late"] = @ + calls[c]["raw"],
                                                      !["raw"] = 0]]
    /\ UNCHANGED <<browser, sink, sessions, tasks, told, got, disposed>>

\* The client has the id of the session from its attach event.
Known(c) == \E p \in Pages : told[p][c] # <<>>

\* RawSessionRoute::request: one more call than the budget fails the route.
Request(c, kind) ==
    /\ IF kind = "raw" THEN route[c].active ELSE client[c] = "open" /\ Known(c)
    /\ route[c].exists /\ ~route[c].failed
    /\ IF route[c].unresolved >= CallLimit
       THEN /\ route' = [route EXCEPT ![c].failed = TRUE]
            /\ UNCHANGED calls
       ELSE /\ route' = [route EXCEPT ![c].unresolved = @ + 1]
            /\ calls' = [calls EXCEPT ![c] = [calls[c] EXCEPT ![kind] = @ + 1]]
    /\ UNCHANGED <<browser, sink, sessions, tasks, told, got, disposed>>

Answer(c, kind) ==
    /\ calls[c][kind] > 0 /\ ~route[c].failed /\ ~disposed
    /\ calls' = [calls EXCEPT ![c] = [calls[c] EXCEPT ![kind] = @ - 1]]
    /\ route' = [route EXCEPT ![c].unresolved = @ - 1]
    /\ UNCHANGED <<browser, sink, sessions, tasks, told, got, disposed>>

\* A response that nobody waits for only frees the entry of the channel.
LateAnswer(c) ==
    /\ calls[c]["late"] > 0 /\ ~disposed
    /\ calls' = [calls EXCEPT ![c] = [calls[c] EXCEPT !["late"] = @ - 1]]
    /\ UNCHANGED <<browser, sink, route, sessions, tasks, told, got, disposed>>

\* Fault: a call that is given up frees its place in the budget.
GivesUpItsPlace(c, kind) ==
    /\ calls[c][kind] > 0
    /\ calls' = [calls EXCEPT ![c] = [calls[c] EXCEPT ![kind] = @ - 1, !["late"] = @ + 1]]
    /\ route' = [route EXCEPT ![c].unresolved = @ - 1]
    /\ UNCHANGED <<browser, sink, sessions, tasks, told, got, disposed>>

\* The time is up, the future is dropped, or the route failed or was
\* disposed: the caller has its answer and the budget keeps the call.
GivesUp(c, kind) ==
    /\ calls[c][kind] > 0
    /\ calls' = [calls EXCEPT ![c] = [calls[c] EXCEPT ![kind] = @ - 1, !["late"] = @ + 1]]
    /\ UNCHANGED <<browser, sink, route, sessions, tasks, told, got, disposed>>

-----------------------------------------------------------------------------

Init ==
    /\ native = [c \in Children |-> [on |-> FALSE, count |-> 0, events |-> 0]]
    /\ wire = [c \in Children |-> <<>>]
    /\ sink = [p \in Pages |-> <<>>]
    /\ route = [c \in Children |-> NoRoute]
    /\ owner = [c \in Children |-> None]
    /\ client = [c \in Children |-> "unused"]
    /\ watcher = [c \in Children |-> NotWatched]
    /\ forwarder = [p \in Pages |-> Idle]
    /\ open = Pages
    /\ told = [p \in Pages |-> [c \in Children |-> <<>>]]
    /\ got = [c \in Children |-> <<>>]
    /\ calls = [c \in Children |-> [kind \in Kinds \cup {"late"} |-> 0]]
    /\ disposed = FALSE

Browser(c) == NativeAttach(c) \/ NativeDetach(c) \/ NativeEvent(c)

NotifierStep(c) ==
    TakeNotification(c) \/ TakePending(c) \/ Forward(c) \/ NotifierStops(c)

WatcherStep(c) ==
    \/ WatcherRemoves(c) \/ WatcherRetires(c)
    \/ WatcherTells(c) \/ WatcherDetaches(c)

ForwarderStep(p) ==
    \/ RouteAttached(p) \/ RouteDetached(p)
    \/ RefuseAttached(p) \/ Notify(p) \/ Activate(p)

Next ==
    \/ \E c \in Children :
          \/ Browser(c) \/ RouteEvent(c) \/ NotifierStep(c) \/ WatcherStep(c)
          \/ OpenRaw(c) \/ CloseRaw(c) \/ LateAnswer(c)
          \/ \E kind \in Kinds : Request(c, kind) \/ Answer(c, kind) \/ GivesUp(c, kind)
    \/ \E p \in Pages : ForwarderStep(p) \/ DetachPage(p)
    \/ Dispose

(* Tasks of the daemon run and timers fire; browser and clients are free.  *)
Fairness ==
    /\ \A c \in Children : /\ WF_vars(RouteEvent(c))
                           /\ WF_vars(NotifierStep(c))
                           /\ WF_vars(WatcherStep(c))
                           /\ \A kind \in Kinds : WF_vars(GivesUp(c, kind))
    /\ \A p \in Pages : WF_vars(ForwarderStep(p))

Spec == Init /\ [][Next]_vars /\ Fairness

-----------------------------------------------------------------------------
(* Properties                                                              *)

Events == [number : 1..MaxAttach, event : 1..MaxEvents]
Messages == [kind : {"attached", "detached"}, child : Children,
             number : 1..MaxAttach]

(* Each session, route and task is in one of the states of its type.       *)
ChildTypeOK ==
    /\ \A c \in Children :
          /\ native[c] \in [on : BOOLEAN, count : 0..MaxAttach,
                            events : 0..MaxEvents]
          /\ wire[c] \in Seq(Events) /\ got[c] \in Seq(Events)
          /\ route[c].queue \in Seq(Events \cup {Listen, Pause})
          /\ route[c].pending \in Seq(Events)
          /\ route[c].held \in Events \cup {None}
          /\ owner[c] \in Pages \cup {None}
          /\ client[c] \in {"unused", "open", "retired"}
          /\ calls[c] \in [Kinds \cup {"late"} -> 0..CallLimit]
          /\ watcher[c].at \in {"none", "watching", "retire", "tell", "detach"}
    /\ \A p \in Pages :
          /\ sink[p] \in Seq(Messages)
          /\ forwarder[p] = Idle \/ forwarder[p].msg \in Messages

(* What the client gets of an attachment has no hole: an event that the    *)
(* bounded queues cannot take fails the route and everything behind it,    *)
(* it is never dropped between two events that arrive.                     *)
EventsAreContiguous ==
    \A c \in Children : \A i \in 1..Len(got[c]) - 1 :
        LET e == got[c][i]
            f == got[c][i + 1]
        IN IF e.number = f.number THEN f.event = e.event + 1
                                  ELSE e.number < f.number

Last(s) == s[Len(s)]
ToldAttached(p, c) == told[p][c] # <<>> /\ Last(told[p][c]).kind = "attached"
Told(p, c, kind, number) ==
    {i \in DOMAIN told[p][c] : told[p][c][i] = [kind |-> kind, number |-> number]}

(* A child's event reaches the client only while a page session has been   *)
(* told that the child is attached and not yet that it is detached.        *)
EventsWithinAttachment ==
    [][\A c \in Children : got[c]' # got[c] =>
          \E p \in open : ToldAttached(p, c)]_vars

(* A detach that the watcher synthesized is not told again when the        *)
(* browser reports it: no attachment the client was told of is reported    *)
(* detached twice to a page session that is the only one of its endpoint.  *)
DetachIsToldOnce ==
    ~disposed => \A p \in Pages, c \in Children, n \in 1..MaxAttach :
        Told(p, c, "attached", n) # {} =>
            Cardinality(Told(p, c, "detached", n)) <= 1

(* What the daemon keeps for a child is bounded.  Its linkrpc channel never *)
(* holds more requests without a response than the budget of the route,    *)
(* whatever times out or is cancelled, and neither queue of notifications  *)
(* is longer than its limit: what arrives when one is full fails the route *)
(* (RawSessionRoute::request, send_notification).                          *)
RouteIsBounded ==
    \A c \in Children :
        /\ Waiting(c) + calls[c]["late"] <= route[c].unresolved
        /\ route[c].unresolved <= CallLimit
        /\ Len(route[c].queue) <= QueueLimit
        /\ Len(route[c].pending) <= QueueLimit

(* A route that fails under an attached child is told to the page session  *)
(* as a detach, unless that session ends first.                            *)
FailureIsTold ==
    \A p \in Pages, c \in Children :
        (owner[c] = p /\ route[c].failed) ~>
            (p \notin open \/ \E n \in 1..MaxAttach : Told(p, c, "detached", n) # {})

Quiet(p) ==
    /\ forwarder[p] = Idle /\ sink[p] = <<>>
    /\ \A c \in Children : watcher[c].at \in {"none", "watching"}

(* When nothing is on its way, a child that the page session was last told *)
(* is attached has a session: a failed child is reported detached instead  *)
(* of silently losing its lifecycle events (README.md:527).                *)
AttachedHasSession ==
    \A p \in open, c \in Children :
        Quiet(p) /\ ToldAttached(p, c) /\ ~disposed => owner[c] # None

(* A native id is refused only by a route that failed, a full mux or a     *)
(* closed endpoint, and may be used for another attachment.  Not kept: the *)
(* mux of the client opens no channel id twice.                            *)
ReusedIdIsAccepted ==
    [][\A p \in Pages :
          (forwarder[p].at # "refuse" /\ forwarder[p]'.at = "refuse") =>
              ~Ensurable(forwarder[p]'.msg.child)]_vars
=============================================================================
