------------------------- MODULE ChildSessionsProofs -------------------------
(***************************************************************************)
(* Proofs about the child sessions of a target, for every set of children  *)
(* and for all limits.  For any number of page sessions: what the daemon   *)
(* keeps is bounded, and what a client gets of a child has no hole.  For a *)
(* target with one page session (OnePage, as TLC's run has it): a child's  *)
(* events reach a client that was told of the child, and no detachment is  *)
(* told twice.  The last two fail with a second page session, which shares *)
(* the routes and the detach mark of the first one.                        *)
(***************************************************************************)
EXTENDS ChildSessions, TLAPS, FiniteSetTheorems

Numbered == [number : Nat, event : Nat]

Route == [exists : BOOLEAN, failed : BOOLEAN,
          queue : Seq(Numbered \cup {Listen, Pause}),
          listener : BOOLEAN, pending : Seq(Numbered), detached : BOOLEAN,
          held : Numbered \cup {None}, running : BOOLEAN, active : BOOLEAN,
          unresolved : Nat, synthetic : BOOLEAN]

Typed ==
    /\ native \in [Children -> [on : BOOLEAN, count : Nat, events : Nat]]
    /\ wire \in [Children -> Seq(Numbered)]
    /\ route \in [Children -> Route]
    /\ calls \in [Children -> [Kinds \cup {"late"} -> Nat]]
    /\ disposed \in BOOLEAN

\* Only the end of the endpoint removes a route, and then none is made again:
\* a route that is made anew has no calls to account for.
UnroutedHasNoCalls ==
    \A c \in Children : ~disposed /\ ~route[c].exists =>
        calls[c]["raw"] = 0 /\ calls[c]["client"] = 0 /\ calls[c]["late"] = 0

IInv == Typed /\ UnroutedHasNoCalls /\ RouteIsBounded

Message == [kind : {"attached", "detached"}, child : Children, number : Nat]

MessagesAreOfChildren ==
    /\ sink \in [Pages -> Seq(Message)]
    /\ forwarder \in [Pages -> {Idle} \cup [at : {"notify", "activate", "refuse"}, msg : Message]]

\* The initial states satisfy IInv.
LEMMA Initially == Init => IInv
<1> SUFFICES ASSUME Init PROVE IInv
  OBVIOUS
<1>1. /\ QueueLimit \in Nat /\ CallLimit \in Nat /\ QueueLimit # 0
      /\ Len(<<>>) = 0
  BY LimitsAssumption DEF LimitsAssumption
<1>2. NoRoute \in Route
  <2>1. <<>> \in Seq(Numbered \cup {Listen, Pause}) /\ <<>> \in Seq(Numbered)
    OBVIOUS
  <2>2. 0 \in Nat /\ None \in Numbered \cup {None}
    OBVIOUS
  <2> QED BY <2>1, <2>2 DEF NoRoute, Route
<1>3. Typed
  <2>1. native \in [Children -> [on : BOOLEAN, count : Nat, events : Nat]]
    BY DEF Init
  <2>2. wire \in [Children -> Seq(Numbered)]
    <3>1. <<>> \in Seq(Numbered)
      OBVIOUS
    <3> QED BY <3>1 DEF Init
  <2>3. route \in [Children -> Route]
    BY <1>2 DEF Init
  <2>4. calls \in [Children -> [Kinds \cup {"late"} -> Nat]]
    BY DEF Init
  <2> QED BY <2>1, <2>2, <2>3, <2>4 DEF Init, Typed
<1>4. UnroutedHasNoCalls
  BY DEF Init, UnroutedHasNoCalls, Kinds
<1>5. RouteIsBounded
  <2> SUFFICES ASSUME NEW c \in Children
               PROVE /\ Waiting(c) + calls[c]["late"] <= route[c].unresolved
                     /\ route[c].unresolved <= CallLimit
                     /\ Len(route[c].queue) <= QueueLimit
                     /\ Len(route[c].pending) <= QueueLimit
    BY DEF RouteIsBounded
  <2>1. calls[c] = [kind \in Kinds \cup {"late"} |-> 0] /\ route[c] = NoRoute
    BY DEF Init
  <2> QED BY <1>1, <2>1 DEF NoRoute, Waiting, Kinds
<1> QED BY <1>3, <1>4, <1>5 DEF IInv

-----------------------------------------------------------------------------
(* Operators on routes                                                     *)

Bounded(r) == Len(r.queue) <= QueueLimit /\ Len(r.pending) <= QueueLimit

\* What an operator on routes leaves of the calls a route accounts for.
SameCalls(r, s) == s.unresolved = r.unresolved /\ s.exists = r.exists

\* A message put on the queue of a route stays within its limit, or the route fails.
LEMMA SentIsBounded ==
  ASSUME NEW r \in Route, NEW item \in Numbered \cup {Listen, Pause}, Bounded(r)
  PROVE  Sent(r, item) \in Route /\ Bounded(Sent(r, item)) /\ SameCalls(r, Sent(r, item))
<1>1. Len(r.queue) \in Nat /\ QueueLimit \in Nat
  BY LimitsAssumption DEF LimitsAssumption, Route
<1>2. CASE r.failed
  BY <1>2 DEF Sent, SameCalls
<1>3. CASE ~r.failed /\ Len(r.queue) = QueueLimit
  <2>1. Sent(r, item) = [r EXCEPT !.failed = TRUE]
    BY <1>3 DEF Sent
  <2>2. Sent(r, item) \in Route
    BY <2>1 DEF Route
  <2>3. SameCalls(r, Sent(r, item))
    BY <2>1 DEF Route, SameCalls
  <2>4. Sent(r, item).queue = r.queue /\ Sent(r, item).pending = r.pending
    BY <2>1 DEF Route
  <2> QED BY <2>2, <2>3, <2>4 DEF Bounded
<1>4. CASE ~r.failed /\ Len(r.queue) # QueueLimit
  <2>1. Sent(r, item) = [r EXCEPT !.queue = Append(@, item)]
    BY <1>4 DEF Sent
  <2>2. /\ Append(r.queue, item) \in Seq(Numbered \cup {Listen, Pause})
        /\ Len(Append(r.queue, item)) = Len(r.queue) + 1
    BY DEF Route
  <2>3. Sent(r, item) \in Route
    BY <2>1, <2>2 DEF Route
  <2>4. SameCalls(r, Sent(r, item))
    BY <2>1 DEF Route, SameCalls
  <2>5. /\ Sent(r, item).queue = Append(r.queue, item)
        /\ Sent(r, item).pending = r.pending
    BY <2>1 DEF Route
  <2>6. Bounded(Sent(r, item))
    BY <1>1, <1>4, <2>2, <2>5 DEF Bounded
  <2> QED BY <2>3, <2>4, <2>6
<1> QED BY <1>2, <1>3, <1>4

\* What the notifier does with an item keeps what waits for a listener within the limit.
LEMMA HeardIsBounded ==
  ASSUME NEW r \in Route, NEW item \in Numbered \cup {Listen, Pause}, Bounded(r)
  PROVE  Heard(r, item) \in Route /\ Bounded(Heard(r, item)) /\ SameCalls(r, Heard(r, item))
<1>1. Len(r.pending) \in Nat /\ QueueLimit \in Nat
  BY LimitsAssumption DEF LimitsAssumption, Route
<1>5. Pause # Listen
  <2>1. Pause.kind = "pause" /\ Listen.kind = "listen" /\ "pause" # "listen"
    BY DEF Listen, Pause
  <2> QED BY <2>1
<1>2. CASE item = Listen
  <2>1. Heard(r, item) = [r EXCEPT !.listener = TRUE, !.detached = FALSE]
    <3>1. item # Pause /\ item \in {Listen, Pause}
      BY <1>2, <1>5
    <3> HIDE <1>2
    <3> QED BY <1>2, <3>1 DEF Heard
  <2>2. Heard(r, item) \in Route
    BY <2>1 DEF Route
  <2>3. SameCalls(r, Heard(r, item))
    BY <2>1 DEF Route, SameCalls
  <2>4. Heard(r, item).queue = r.queue /\ Heard(r, item).pending = r.pending
    BY <2>1 DEF Route
  <2> QED BY <2>2, <2>3, <2>4 DEF Bounded
<1>3. CASE item = Pause
  <2>1. item # Listen
    BY <1>3, <1>5
  <2>2. Heard(r, item) = [r EXCEPT !.listener = FALSE, !.detached = TRUE, !.pending = <<>>]
    BY <1>3, <2>1 DEF Heard
  <2>3. <<>> \in Seq(Numbered) /\ Len(<<>>) = 0
    OBVIOUS
  <2>4. Heard(r, item) \in Route
    BY <2>2, <2>3 DEF Route
  <2>5. SameCalls(r, Heard(r, item))
    BY <2>2 DEF Route, SameCalls
  <2>6. Heard(r, item).queue = r.queue /\ Heard(r, item).pending = <<>>
    BY <2>2 DEF Route
  <2>7. Bounded(Heard(r, item))
    BY <1>1, <2>3, <2>6 DEF Bounded
  <2> QED BY <2>4, <2>5, <2>7
<1>4. CASE item \notin {Listen, Pause}
  <2>1. item \in Numbered
    BY <1>4
  <2>2. Heard(r, item) = IF r.listener THEN [r EXCEPT !.held = item]
                         ELSE IF r.detached THEN r
                         ELSE IF Len(r.pending) = QueueLimit
                              THEN [r EXCEPT !.failed = TRUE, !.running = FALSE]
                         ELSE [r EXCEPT !.pending = Append(@, item)]
    BY <1>4 DEF Heard
  <2>3. CASE r.listener
    <3>1. Heard(r, item) = [r EXCEPT !.held = item]
      BY <2>2, <2>3
    <3>2. Heard(r, item) \in Route
      BY <2>1, <3>1 DEF Route
    <3>3. SameCalls(r, Heard(r, item))
      BY <3>1 DEF Route, SameCalls
    <3>4. Heard(r, item).queue = r.queue /\ Heard(r, item).pending = r.pending
      BY <3>1 DEF Route
    <3> QED BY <3>2, <3>3, <3>4 DEF Bounded
  <2>4. CASE ~r.listener /\ r.detached
    BY <2>2, <2>4 DEF SameCalls
  <2>5. CASE ~r.listener /\ ~r.detached /\ Len(r.pending) = QueueLimit
    <3>1. Heard(r, item) = [r EXCEPT !.failed = TRUE, !.running = FALSE]
      BY <2>2, <2>5
    <3>2. Heard(r, item) \in Route
      BY <3>1 DEF Route
    <3>3. SameCalls(r, Heard(r, item))
      BY <3>1 DEF Route, SameCalls
    <3>4. Heard(r, item).queue = r.queue /\ Heard(r, item).pending = r.pending
      BY <3>1 DEF Route
    <3> QED BY <3>2, <3>3, <3>4 DEF Bounded
  <2>6. CASE ~r.listener /\ ~r.detached /\ Len(r.pending) # QueueLimit
    <3>1. Heard(r, item) = [r EXCEPT !.pending = Append(@, item)]
      BY <2>2, <2>6
    <3>2. /\ Append(r.pending, item) \in Seq(Numbered)
          /\ Len(Append(r.pending, item)) = Len(r.pending) + 1
      BY <2>1 DEF Route
    <3>3. Heard(r, item) \in Route
      BY <3>1, <3>2 DEF Route
    <3>4. SameCalls(r, Heard(r, item))
      BY <3>1 DEF Route, SameCalls
    <3>5. /\ Heard(r, item).queue = r.queue
          /\ Heard(r, item).pending = Append(r.pending, item)
      BY <3>1 DEF Route
    <3>6. Bounded(Heard(r, item))
      BY <1>1, <2>6, <3>2, <3>5 DEF Bounded
    <3> QED BY <3>3, <3>4, <3>6
  <2> QED BY <2>3, <2>4, <2>5, <2>6
<1> QED BY <1>2, <1>3, <1>4
-----------------------------------------------------------------------------
(* Steps                                                                   *)

\* A route that is made anew.
Fresh(c) == /\ ~disposed /\ ~route[c].exists
            /\ route'[c].exists /\ route'[c].unresolved = 0

\* What a step shows when it changes children and routes but no request.
LEMMA RoutesKept ==
  ASSUME IInv, calls' = calls, disposed' = disposed,
         native' \in [Children -> [on : BOOLEAN, count : Nat, events : Nat]],
         wire' \in [Children -> Seq(Numbered)],
         route' \in [Children -> Route],
         \A c \in Children : /\ Bounded(route'[c])
                             /\ SameCalls(route[c], route'[c]) \/ Fresh(c)
  PROVE  IInv'
<1>1. Typed'
  BY DEF IInv, Typed
<1>2. UnroutedHasNoCalls'
  BY DEF IInv, UnroutedHasNoCalls, SameCalls, Fresh
<1>3. RouteIsBounded'
  <2> SUFFICES ASSUME NEW c \in Children
               PROVE /\ Waiting(c) + calls[c]["late"] <= route'[c].unresolved
                     /\ route'[c].unresolved <= CallLimit
                     /\ Len(route'[c].queue) <= QueueLimit
                     /\ Len(route'[c].pending) <= QueueLimit
    BY DEF RouteIsBounded, Waiting
  <2>1. CASE SameCalls(route[c], route'[c])
    BY <2>1 DEF IInv, RouteIsBounded, SameCalls, Bounded
  <2>2. CASE Fresh(c)
    <3>1. calls[c]["raw"] = 0 /\ calls[c]["client"] = 0 /\ calls[c]["late"] = 0
      BY <2>2 DEF Fresh, IInv, UnroutedHasNoCalls
    <3>2. CallLimit \in Nat
      BY LimitsAssumption DEF LimitsAssumption
    <3> QED BY <2>2, <3>1, <3>2 DEF Fresh, Bounded, Waiting
  <2> QED BY <2>1, <2>2
<1> QED BY <1>1, <1>2, <1>3 DEF IInv

\* A route of the invariant is typed and bounded.
LEMMA RouteIsTyped ==
  ASSUME IInv, NEW c \in Children
  PROVE  route[c] \in Route /\ Bounded(route[c])
BY DEF IInv, Typed, RouteIsBounded, Bounded

\* An entry that is handed to the route of a child.
LEMMA SentToKeeps ==
  ASSUME IInv, NEW c \in Children, NEW item \in Numbered \cup {Listen, Pause}
  PROVE  /\ SentTo(c, item) \in [Children -> Route]
         /\ \A d \in Children : /\ Bounded(SentTo(c, item)[d])
                                /\ SameCalls(route[d], SentTo(c, item)[d])
<1>1. /\ Sent(route[c], item) \in Route
      /\ Bounded(Sent(route[c], item))
      /\ SameCalls(route[c], Sent(route[c], item))
  BY RouteIsTyped, SentIsBounded
<1>2. \A d \in Children : Bounded(route[d]) /\ SameCalls(route[d], route[d])
  BY RouteIsTyped DEF SameCalls
<1>3. route \in [Children -> Route]
  BY DEF IInv, Typed
<1> QED BY <1>1, <1>2, <1>3 DEF SentTo

\* Making sure that a child has a route.
LEMMA EnsuredKeeps ==
  ASSUME IInv, NEW c \in Children
  PROVE  /\ Ensured(c) \in [Children -> Route]
         /\ \A d \in Children :
               /\ Bounded(Ensured(c)[d])
               /\ \/ SameCalls(route[d], Ensured(c)[d])
                  \/ /\ ~disposed /\ ~route[d].exists
                     /\ Ensured(c)[d].exists /\ Ensured(c)[d].unresolved = 0
<1>1. \A d \in Children : Bounded(route[d]) /\ SameCalls(route[d], route[d])
  BY RouteIsTyped DEF SameCalls
<1>2. route \in [Children -> Route]
  BY DEF IInv, Typed
<1>3. CASE Ensurable(c) /\ ~route[c].exists
  <2> DEFINE r == [NoRoute EXCEPT !.exists = TRUE, !.running = TRUE]
  <2>1. <<>> \in Seq(Numbered \cup {Listen, Pause}) /\ <<>> \in Seq(Numbered)
        /\ Len(<<>>) = 0 /\ 0 \in Nat /\ None \in Numbered \cup {None}
    OBVIOUS
  <2>2. r \in Route
    BY <2>1 DEF Route, NoRoute
  <2>3. r.exists /\ r.unresolved = 0 /\ r.queue = <<>> /\ r.pending = <<>>
    BY DEF NoRoute
  <2>4. Bounded(r)
    BY <2>1, <2>3, LimitsAssumption DEF Bounded, LimitsAssumption
  <2>5. Ensured(c) = [route EXCEPT ![c] = r] /\ ~disposed
    BY <1>3 DEF Ensured, Ensurable
  <2> HIDE DEF r
  <2> QED BY <1>1, <1>2, <1>3, <2>2, <2>3, <2>4, <2>5
<1>4. CASE ~(Ensurable(c) /\ ~route[c].exists)
  <2>1. Ensured(c) = route
    BY <1>4 DEF Ensured
  <2> QED BY <1>1, <1>2, <2>1
<1> QED BY <1>3, <1>4

\* A step that changes no route.
LEMMA NoRouteChanges ==
  ASSUME IInv, UNCHANGED <<route, calls, disposed>>,
         native' \in [Children -> [on : BOOLEAN, count : Nat, events : Nat]],
         wire' \in [Children -> Seq(Numbered)]
  PROVE  IInv'
<1>1. route' \in [Children -> Route]
  BY DEF IInv, Typed
<1>2. \A c \in Children : Bounded(route'[c]) /\ SameCalls(route[c], route'[c])
  BY RouteIsTyped DEF SameCalls
<1> QED BY <1>1, <1>2, RoutesKept

\* A step that changes one route and none of the calls it accounts for.
LEMMA OneRouteChanges ==
  ASSUME IInv, UNCHANGED <<native, wire, calls, disposed>>,
         NEW c \in Children, NEW r \in Route, Bounded(r), SameCalls(route[c], r),
         route' = [route EXCEPT ![c] = r]
  PROVE  IInv'
<1>1. route' \in [Children -> Route]
  BY DEF IInv, Typed
<1>2. \A d \in Children : Bounded(route'[d]) /\ SameCalls(route[d], route'[d])
  BY RouteIsTyped DEF SameCalls, IInv, Typed
<1>3. /\ native' \in [Children -> [on : BOOLEAN, count : Nat, events : Nat]]
      /\ wire' \in [Children -> Seq(Numbered)]
  BY DEF IInv, Typed
<1> QED BY <1>1, <1>2, <1>3, RoutesKept

\* Asking the browser to detach a child keeps its record typed.
LEMMA DetachesKeepsType ==
  ASSUME IInv, NEW c \in Children, AskedToDetach(c)
  PROVE  native' \in [Children -> [on : BOOLEAN, count : Nat, events : Nat]]
<1>1. native \in [Children -> [on : BOOLEAN, count : Nat, events : Nat]]
  BY DEF IInv, Typed
<1>2. native' = native \/ native' = [native EXCEPT ![c].on = FALSE]
  BY DEF AskedToDetach, Detaches
<1> QED BY <1>1, <1>2

-----------------------------------------------------------------------------
(* The browser, the tasks of a route and the event task of a page session  *)

\* The browser attaches, detaches, or sends an event of a child.
LEMMA BrowserKeeps ==
  ASSUME IInv, NEW c \in Children, Browser(c)
  PROVE  IInv'
<1>1. /\ native \in [Children -> [on : BOOLEAN, count : Nat, events : Nat]]
      /\ wire \in [Children -> Seq(Numbered)]
  BY DEF IInv, Typed
<1>2. CASE NativeAttach(c)
  <2>1. native[c].count + 1 \in Nat
    BY <1>1
  <2>2. native' = [native EXCEPT ![c] = [native[c] EXCEPT !.on = TRUE, !.count = native[c].count + 1]]
    BY <1>2 DEF NativeAttach
  <2>3. native' \in [Children -> [on : BOOLEAN, count : Nat, events : Nat]]
    <3>1. [native[c] EXCEPT !.on = TRUE, !.count = native[c].count + 1]
             \in [on : BOOLEAN, count : Nat, events : Nat]
      BY <1>1, <2>1
    <3> QED BY <1>1, <2>2, <3>1
  <2> QED BY <1>1, <1>2, <2>3, NoRouteChanges DEF NativeAttach
<1>3. CASE NativeDetach(c)
  <2>1. native' \in [Children -> [on : BOOLEAN, count : Nat, events : Nat]]
    BY <1>3, DetachesKeepsType DEF NativeDetach, AskedToDetach
  <2> QED BY <1>1, <1>3, <2>1, NoRouteChanges DEF NativeDetach
<1>4. CASE NativeEvent(c)
  <2>1. native[c].events + 1 \in Nat /\ native[c].count \in Nat
    BY <1>1
  <2>2. native' = [native EXCEPT ![c].events = native[c].events + 1]
    BY <1>4 DEF NativeEvent
  <2>3. native' \in [Children -> [on : BOOLEAN, count : Nat, events : Nat]]
    <3>1. [native[c] EXCEPT !.events = native[c].events + 1]
             \in [on : BOOLEAN, count : Nat, events : Nat]
      BY <1>1, <2>1
    <3>2. native' = [native EXCEPT ![c] = [native[c] EXCEPT !.events = native[c].events + 1]]
      BY <1>1, <2>2
    <3> QED BY <1>1, <3>1, <3>2
  <2>4. [number |-> native[c].count, event |-> native'[c].events] \in Numbered
    BY <2>1, <2>2, <1>1 DEF Numbered
  <2>5. wire' \in [Children -> Seq(Numbered)]
    BY <1>1, <1>4, <2>4 DEF NativeEvent
  <2> QED BY <1>4, <2>3, <2>5, NoRouteChanges DEF NativeEvent
<1> QED BY <1>2, <1>3, <1>4 DEF Browser

\* The reader of the transport hands an event to the route of its session.
LEMMA RouteEventKeeps ==
  ASSUME IInv, NEW c \in Children, RouteEvent(c)
  PROVE  IInv'
<1>1. /\ native \in [Children -> [on : BOOLEAN, count : Nat, events : Nat]]
      /\ wire \in [Children -> Seq(Numbered)]
  BY DEF IInv, Typed
<1>2. Head(wire[c]) \in Numbered /\ Tail(wire[c]) \in Seq(Numbered)
  BY <1>1 DEF RouteEvent
<1>3. wire' \in [Children -> Seq(Numbered)] /\ native' = native
  BY <1>1, <1>2 DEF RouteEvent
<1>4. route' = SentTo(c, Head(wire[c]))
  BY DEF RouteEvent
<1>5. /\ route' \in [Children -> Route]
      /\ \A d \in Children : Bounded(route'[d]) /\ SameCalls(route[d], route'[d])
  BY <1>2, <1>4, SentToKeeps
<1> QED BY <1>1, <1>3, <1>5, RoutesKept DEF RouteEvent

\* The notifier task of a route moves an item, or ends.
LEMMA NotifierStepKeeps ==
  ASSUME IInv, NEW c \in Children, NotifierStep(c)
  PROVE  IInv'
<1>1. /\ route[c] \in Route /\ Bounded(route[c])
      /\ Len(route[c].queue) \in Nat /\ Len(route[c].pending) \in Nat
      /\ QueueLimit \in Nat
  BY RouteIsTyped, LimitsAssumption DEF Route, LimitsAssumption
<1>2. route \in [Children -> Route]
  BY DEF IInv, Typed
<1>3. CASE TakeNotification(c)
  <2> DEFINE taken == [route[c] EXCEPT !.queue = Tail(route[c].queue)]
             item == Head(route[c].queue)
  <2>1. /\ item \in Numbered \cup {Listen, Pause}
        /\ Tail(route[c].queue) \in Seq(Numbered \cup {Listen, Pause})
        /\ Len(Tail(route[c].queue)) = Len(route[c].queue) - 1
    BY <1>1, <1>3 DEF TakeNotification, Route
  <2>2. taken \in Route
    BY <1>1, <2>1 DEF Route
  <2>3. SameCalls(route[c], taken)
    BY <1>1 DEF SameCalls, Route
  <2>4. Bounded(taken)
    <3>1. taken.queue = Tail(route[c].queue) /\ taken.pending = route[c].pending
      BY <1>1 DEF Route
    <3> QED BY <1>1, <2>1, <3>1 DEF Bounded
  <2>5. route' = [route EXCEPT ![c] = Heard(taken, item)]
    BY <1>3 DEF TakeNotification
  <2> HIDE DEF taken, item
  <2>6. /\ Heard(taken, item) \in Route
        /\ Bounded(Heard(taken, item))
        /\ SameCalls(taken, Heard(taken, item))
    BY <2>1, <2>2, <2>4, HeardIsBounded
  <2>7. SameCalls(route[c], Heard(taken, item))
    BY <2>3, <2>6 DEF SameCalls
  <2> QED BY <1>3, <2>5, <2>6, <2>7, OneRouteChanges DEF TakeNotification, browser
<1>4. CASE TakePending(c)
  <2> DEFINE r == [route[c] EXCEPT !.held = Head(route[c].pending),
                                   !.pending = Tail(route[c].pending)]
  <2>1. /\ Head(route[c].pending) \in Numbered
        /\ Tail(route[c].pending) \in Seq(Numbered)
        /\ Len(Tail(route[c].pending)) = Len(route[c].pending) - 1
    BY <1>1, <1>4 DEF TakePending, Route
  <2>2. r \in Route
    BY <1>1, <2>1 DEF Route
  <2>3. SameCalls(route[c], r)
    BY <1>1 DEF SameCalls, Route
  <2>4. Bounded(r)
    <3>1. r.queue = route[c].queue /\ r.pending = Tail(route[c].pending)
      BY <1>1 DEF Route
    <3> QED BY <1>1, <2>1, <3>1 DEF Bounded
  <2>5. route' = [route EXCEPT ![c] = r]
    BY <1>4 DEF TakePending
  <2> HIDE DEF r
  <2> QED BY <1>4, <2>2, <2>3, <2>4, <2>5, OneRouteChanges DEF TakePending, browser
<1>5. CASE Forward(c)
  <2> DEFINE r == [route[c] EXCEPT !.held = None]
  <2>1. r \in Route /\ SameCalls(route[c], r)
    BY <1>1 DEF Route, SameCalls
  <2>2. Bounded(r)
    <3>1. r.queue = route[c].queue /\ r.pending = route[c].pending
      BY <1>1 DEF Route
    <3> QED BY <1>1, <3>1 DEF Bounded
  <2>3. route' = [route EXCEPT ![c] = r]
    BY <1>2, <1>5 DEF Forward
  <2> HIDE DEF r
  <2> QED BY <1>5, <2>1, <2>2, <2>3, OneRouteChanges DEF Forward, browser
<1>6. CASE NotifierStops(c)
  <2> DEFINE r == [route[c] EXCEPT !.running = FALSE, !.held = None]
  <2>1. r \in Route /\ SameCalls(route[c], r)
    BY <1>1 DEF Route, SameCalls
  <2>2. Bounded(r)
    <3>1. r.queue = route[c].queue /\ r.pending = route[c].pending
      BY <1>1 DEF Route
    <3> QED BY <1>1, <3>1 DEF Bounded
  <2>3. route' = [route EXCEPT ![c] = r]
    BY <1>2, <1>6 DEF NotifierStops
  <2> HIDE DEF r
  <2> QED BY <1>6, <2>1, <2>2, <2>3, OneRouteChanges DEF NotifierStops, browser
<1> QED BY <1>3, <1>4, <1>5, <1>6 DEF NotifierStep

\* The event task of a page takes one message of its sink.
LEMMA ForwarderStepKeeps ==
  ASSUME IInv, MessagesAreOfChildren, NEW p \in Pages, ForwarderStep(p)
  PROVE  IInv'
<1>1. /\ native \in [Children -> [on : BOOLEAN, count : Nat, events : Nat]]
      /\ wire \in [Children -> Seq(Numbered)]
      /\ route \in [Children -> Route]
  BY DEF IInv, Typed
<1>2. \A d \in Children : Bounded(route[d]) /\ SameCalls(route[d], route[d])
  BY RouteIsTyped DEF SameCalls
<1>3. CASE RouteAttached(p)
  <2> DEFINE c == Head(sink[p]).child
  <2>1. c \in Children
    <3>1. Head(sink[p]) \in Message
      BY <1>3 DEF RouteAttached, Takes, MessagesAreOfChildren
    <3> QED BY <3>1 DEF Message
  <2>2. route' = route \/ route' = Ensured(c)
    BY <1>3 DEF RouteAttached
  <2>3. UNCHANGED <<native, wire, calls, disposed>>
    BY <1>3 DEF RouteAttached, browser
  <2> HIDE DEF c
  <2>4. CASE route' = route
    BY <1>1, <2>3, <2>4, NoRouteChanges
  <2>5. CASE route' = Ensured(c)
    <3>1. /\ route' \in [Children -> Route]
          /\ \A d \in Children : /\ Bounded(route'[d])
                                 /\ SameCalls(route[d], route'[d]) \/ Fresh(d)
      BY <2>1, <2>5, EnsuredKeeps DEF Fresh
    <3> QED BY <1>1, <2>3, <3>1, RoutesKept
  <2> QED BY <2>2, <2>4, <2>5
<1>4. CASE RouteDetached(p)
  <2> DEFINE c == Head(sink[p]).child
             sent == SentTo(c, Pause)
             r == [sent[c] EXCEPT !.synthetic = FALSE]
  <2>1. c \in Children
    <3>1. Head(sink[p]) \in Message
      BY <1>4 DEF RouteDetached, Takes, MessagesAreOfChildren
    <3> QED BY <3>1 DEF Message
  <2>2. route' = [sent EXCEPT ![c].synthetic = FALSE]
    BY <1>4 DEF RouteDetached
  <2>3. UNCHANGED <<native, wire, calls, disposed>>
    BY <1>4 DEF RouteDetached, browser
  <2> HIDE DEF c
  <2>4. /\ sent \in [Children -> Route]
        /\ \A d \in Children : Bounded(sent[d]) /\ SameCalls(route[d], sent[d])
    BY <2>1, SentToKeeps
  <2> HIDE DEF sent
  <2>5. r \in Route /\ SameCalls(sent[c], r)
    BY <2>1, <2>4 DEF Route, SameCalls
  <2>6. Bounded(r)
    <3>1. r.queue = sent[c].queue /\ r.pending = sent[c].pending
      BY <2>1, <2>4 DEF Route
    <3> QED BY <2>1, <2>4, <3>1 DEF Bounded
  <2>7. SameCalls(route[c], r)
    BY <2>1, <2>4, <2>5 DEF SameCalls
  <2>8. route' = [sent EXCEPT ![c] = r]
    BY <2>2
  <2> HIDE DEF r
  <2>9. /\ route' \in [Children -> Route]
        /\ \A d \in Children : Bounded(route'[d]) /\ SameCalls(route[d], route'[d])
    BY <2>1, <2>4, <2>5, <2>6, <2>7, <2>8
  <2> QED BY <1>1, <2>3, <2>9, RoutesKept
<1>5. CASE RefuseAttached(p)
  <2>1. forwarder[p].msg.child \in Children
    <3>1. forwarder[p] # Idle
      <4>1. Idle.at = "idle" /\ forwarder[p].at = "refuse" /\ "idle" # "refuse"
        BY <1>5 DEF RefuseAttached, Idle
      <4> QED BY <4>1
    <3> QED BY <3>1 DEF MessagesAreOfChildren, Message
  <2>2. native' \in [Children -> [on : BOOLEAN, count : Nat, events : Nat]]
    BY <1>5, <2>1, DetachesKeepsType DEF RefuseAttached
  <2> QED BY <1>1, <1>5, <2>2, NoRouteChanges DEF RefuseAttached
<1>6. CASE Notify(p)
  BY <1>1, <1>6, NoRouteChanges DEF Notify, browser
<1>7. CASE Activate(p)
  <2> DEFINE c == forwarder[p].msg.child
  <2>1. c \in Children
    <3>1. forwarder[p] # Idle
      <4>1. Idle.at = "idle" /\ forwarder[p].at = "activate" /\ "idle" # "activate"
        BY <1>7 DEF Activate, Idle
      <4> QED BY <4>1
    <3> QED BY <3>1 DEF MessagesAreOfChildren, Message
  <2>2. route' = route \/ route' = SentTo(c, Listen)
    BY <1>7 DEF Activate
  <2>3. UNCHANGED <<native, wire, calls, disposed>>
    BY <1>7 DEF Activate, browser
  <2> HIDE DEF c
  <2>4. /\ route' \in [Children -> Route]
        /\ \A d \in Children : Bounded(route'[d]) /\ SameCalls(route[d], route'[d])
    BY <1>1, <1>2, <2>1, <2>2, SentToKeeps
  <2> QED BY <1>1, <2>3, <2>4, RoutesKept
<1> QED BY <1>3, <1>4, <1>5, <1>6, <1>7 DEF ForwarderStep

\* The watcher of a route sees that it has ended.
LEMMA WatcherStepKeeps ==
  ASSUME IInv, NEW c \in Children, WatcherStep(c)
  PROVE  IInv'
<1>1. /\ native \in [Children -> [on : BOOLEAN, count : Nat, events : Nat]]
      /\ wire \in [Children -> Seq(Numbered)]
      /\ route \in [Children -> Route]
  BY DEF IInv, Typed
<1>2. route[c] \in Route /\ Bounded(route[c]) /\ SameCalls(route[c], route[c])
  BY RouteIsTyped DEF SameCalls
<1>3. CASE WatcherRemoves(c)
  <2> DEFINE r == [route[c] EXCEPT !.synthetic = TRUE]
  <2>1. r \in Route /\ SameCalls(route[c], r)
    BY <1>2 DEF Route, SameCalls
  <2>2. Bounded(r)
    <3>1. r.queue = route[c].queue /\ r.pending = route[c].pending
      BY <1>2 DEF Route
    <3> QED BY <1>2, <3>1 DEF Bounded
  <2>3. route' = [route EXCEPT ![c] = r] \/ route' = route
    BY <1>3 DEF WatcherRemoves
  <2>4. UNCHANGED <<native, wire, calls, disposed>>
    BY <1>3 DEF WatcherRemoves, browser
  <2> HIDE DEF r
  <2> QED BY <1>1, <2>1, <2>2, <2>3, <2>4, OneRouteChanges, NoRouteChanges
<1>4. CASE WatcherRetires(c)
  BY <1>1, <1>4, NoRouteChanges DEF WatcherRetires, browser
<1>5. CASE WatcherTells(c)
  BY <1>1, <1>5, NoRouteChanges DEF WatcherTells, browser
<1>6. CASE WatcherDetaches(c)
  <2>1. native' \in [Children -> [on : BOOLEAN, count : Nat, events : Nat]]
    BY <1>6, DetachesKeepsType DEF WatcherDetaches
  <2> QED BY <1>1, <1>6, <2>1, NoRouteChanges DEF WatcherDetaches
<1> QED BY <1>3, <1>4, <1>5, <1>6 DEF WatcherStep

-----------------------------------------------------------------------------
(* Page sessions, the endpoint and requests                                *)

\* A page session is detached, or the endpoint closes.
LEMMA PageAndEndpointKeep ==
  ASSUME IInv, (\E p \in Pages : DetachPage(p)) \/ Dispose
  PROVE  IInv'
<1>1. /\ native \in [Children -> [on : BOOLEAN, count : Nat, events : Nat]]
      /\ wire \in [Children -> Seq(Numbered)]
      /\ route \in [Children -> Route]
      /\ calls \in [Children -> [Kinds \cup {"late"} -> Nat]]
  BY DEF IInv, Typed
<1>2. ASSUME NEW p \in Pages, DetachPage(p) PROVE IInv'
  BY <1>1, <1>2, NoRouteChanges DEF DetachPage, browser
<1>3. CASE Dispose
  <2>1. disposed' = TRUE /\ calls' = calls
    BY <1>3 DEF Dispose
  <2>2. native' \in [Children -> [on : BOOLEAN, count : Nat, events : Nat]]
    <3>1. \A c \in Children : [native[c] EXCEPT !.on = FALSE]
                                  \in [on : BOOLEAN, count : Nat, events : Nat]
      BY <1>1
    <3> QED BY <1>3, <3>1 DEF Dispose
  <2>3. wire' \in [Children -> Seq(Numbered)]
    <3>1. <<>> \in Seq(Numbered)
      OBVIOUS
    <3> QED BY <1>3, <3>1 DEF Dispose
  <2>4. \A c \in Children : /\ [route[c] EXCEPT !.exists = FALSE] \in Route
                            /\ [route[c] EXCEPT !.exists = FALSE].unresolved = route[c].unresolved
                            /\ [route[c] EXCEPT !.exists = FALSE].queue = route[c].queue
                            /\ [route[c] EXCEPT !.exists = FALSE].pending = route[c].pending
    BY <1>1 DEF Route
  <2>5. route' = [c \in Children |-> [route[c] EXCEPT !.exists = FALSE]]
    BY <1>3 DEF Dispose
  <2>6. /\ route' \in [Children -> Route]
        /\ \A c \in Children : /\ route'[c].unresolved = route[c].unresolved
                               /\ route'[c].queue = route[c].queue
                               /\ route'[c].pending = route[c].pending
    BY <2>4, <2>5
  <2>7. Typed'
    BY <1>1, <2>1, <2>2, <2>3, <2>6 DEF Typed
  <2>8. UnroutedHasNoCalls'
    BY <2>1 DEF UnroutedHasNoCalls
  <2>9. RouteIsBounded'
    BY <2>1, <2>6 DEF IInv, RouteIsBounded, Waiting
  <2> QED BY <2>7, <2>8, <2>9 DEF IInv
<1> QED BY <1>2, <1>3

\* A step that changes the calls of one child and what its route accounts for.
LEMMA CallsChange ==
  ASSUME IInv, UNCHANGED <<native, wire, disposed>>, NEW c \in Children,
         NEW r \in Route, r.queue = route[c].queue, r.pending = route[c].pending,
         route' = [route EXCEPT ![c] = r],
         NEW k \in [Kinds \cup {"late"} -> Nat], calls' = [calls EXCEPT ![c] = k],
         ~disposed /\ ~r.exists => k["raw"] = 0 /\ k["client"] = 0 /\ k["late"] = 0,
         k["raw"] + k["client"] + k["late"] <= r.unresolved, r.unresolved <= CallLimit
  PROVE  IInv'
<1>1. /\ route \in [Children -> Route]
      /\ calls \in [Children -> [Kinds \cup {"late"} -> Nat]]
  BY DEF IInv, Typed
<1>2. Typed'
  BY <1>1 DEF IInv, Typed
<1>3. UnroutedHasNoCalls'
  BY <1>1 DEF IInv, UnroutedHasNoCalls
<1>4. RouteIsBounded'
  <2> SUFFICES ASSUME NEW d \in Children
               PROVE /\ calls'[d]["raw"] + calls'[d]["client"] + calls'[d]["late"] <= route'[d].unresolved
                     /\ route'[d].unresolved <= CallLimit
                     /\ Len(route'[d].queue) <= QueueLimit
                     /\ Len(route'[d].pending) <= QueueLimit
    BY DEF RouteIsBounded, Waiting
  <2>1. /\ calls[d]["raw"] + calls[d]["client"] + calls[d]["late"] <= route[d].unresolved
        /\ route[d].unresolved <= CallLimit
        /\ Len(route[d].queue) <= QueueLimit
        /\ Len(route[d].pending) <= QueueLimit
    BY DEF IInv, RouteIsBounded, Waiting
  <2>2. CASE d = c
    BY <1>1, <2>1, <2>2
  <2>3. CASE d # c
    BY <1>1, <2>1, <2>3
  <2> QED BY <2>2, <2>3
<1> QED BY <1>2, <1>3, <1>4 DEF IInv

\* Routes are opened and closed, and requests on them sent, answered or given up.
LEMMA RequestsKeep ==
  ASSUME IInv, NEW c \in Children,
         \/ OpenRaw(c) \/ CloseRaw(c) \/ LateAnswer(c)
         \/ \E kind \in Kinds : Request(c, kind) \/ Answer(c, kind) \/ GivesUp(c, kind)
  PROVE  IInv'
<1>1. /\ native \in [Children -> [on : BOOLEAN, count : Nat, events : Nat]]
      /\ wire \in [Children -> Seq(Numbered)]
      /\ route \in [Children -> Route]
      /\ calls \in [Children -> [Kinds \cup {"late"} -> Nat]]
      /\ CallLimit \in Nat
  BY LimitsAssumption DEF IInv, Typed, LimitsAssumption
<1>2. /\ route[c] \in Route /\ route[c].unresolved \in Nat
      /\ calls[c] \in [Kinds \cup {"late"} -> Nat]
      /\ calls[c]["raw"] + calls[c]["client"] + calls[c]["late"] <= route[c].unresolved
      /\ route[c].unresolved <= CallLimit
      /\ ~disposed /\ ~route[c].exists =>
            calls[c]["raw"] = 0 /\ calls[c]["client"] = 0 /\ calls[c]["late"] = 0
  BY <1>1 DEF IInv, RouteIsBounded, UnroutedHasNoCalls, Waiting, Route
<1>3. calls[c]["raw"] \in Nat /\ calls[c]["client"] \in Nat /\ calls[c]["late"] \in Nat
  BY <1>2 DEF Kinds
<1>4. CASE OpenRaw(c)
  <2> DEFINE sure == Ensured(c)
             r == [sure[c] EXCEPT !.active = TRUE]
  <2>1. /\ sure \in [Children -> Route]
        /\ \A d \in Children :
              /\ Bounded(sure[d])
              /\ \/ SameCalls(route[d], sure[d])
                 \/ /\ ~disposed /\ ~route[d].exists
                    /\ sure[d].exists /\ sure[d].unresolved = 0
    BY EnsuredKeeps
  <2>2. route' = [sure EXCEPT ![c].active = TRUE]
    BY <1>4 DEF OpenRaw
  <2> HIDE DEF sure
  <2>3. r \in Route /\ SameCalls(sure[c], r)
    BY <2>1 DEF Route, SameCalls
  <2>4. Bounded(r)
    <3>1. r.queue = sure[c].queue /\ r.pending = sure[c].pending
      BY <2>1 DEF Route
    <3> QED BY <2>1, <3>1 DEF Bounded
  <2>5. route' = [sure EXCEPT ![c] = r]
    BY <2>2
  <2> HIDE DEF r
  <2>6. /\ route' \in [Children -> Route]
        /\ \A d \in Children : /\ Bounded(route'[d])
                               /\ SameCalls(route[d], route'[d]) \/ Fresh(d)
    BY <2>1, <2>3, <2>4, <2>5 DEF SameCalls, Fresh
  <2> QED BY <1>1, <1>4, <2>6, RoutesKept DEF OpenRaw, browser
<1>5. CASE CloseRaw(c)
  <2> DEFINE r == [route[c] EXCEPT !.active = FALSE]
             k == [calls[c] EXCEPT !["late"] = calls[c]["late"] + calls[c]["raw"], !["raw"] = 0]
  <2>1. /\ r \in Route /\ r.queue = route[c].queue /\ r.pending = route[c].pending
        /\ r.unresolved = route[c].unresolved /\ r.exists = route[c].exists
    BY <1>2 DEF Route
  <2>2. /\ k \in [Kinds \cup {"late"} -> Nat]
        /\ k["raw"] = 0 /\ k["client"] = calls[c]["client"] /\ k["late"] = calls[c]["late"] + calls[c]["raw"]
    BY <1>2, <1>3 DEF Kinds
  <2>3. route' = [route EXCEPT ![c] = r]
    BY <1>1, <1>5 DEF CloseRaw
  <2>4. calls' = [calls EXCEPT ![c] = k]
    BY <1>5 DEF CloseRaw
  <2>5. k["raw"] + k["client"] + k["late"] <= r.unresolved
    BY <1>2, <1>3, <2>1, <2>2
  <2>6. ~disposed /\ ~r.exists => k["raw"] = 0 /\ k["client"] = 0 /\ k["late"] = 0
    BY <1>2, <2>1, <2>2
  <2>7. UNCHANGED <<native, wire, disposed>>
    BY <1>5 DEF CloseRaw, browser
  <2> HIDE DEF r, k
  <2> QED BY <1>2, <2>1, <2>2, <2>3, <2>4, <2>5, <2>6, <2>7, CallsChange
<1>6. CASE LateAnswer(c)
  <2> DEFINE k == [calls[c] EXCEPT !["late"] = calls[c]["late"] - 1]
  <2>1. calls[c]["late"] > 0
    BY <1>6 DEF LateAnswer
  <2>2. /\ k \in [Kinds \cup {"late"} -> Nat]
        /\ k["raw"] = calls[c]["raw"] /\ k["client"] = calls[c]["client"] /\ k["late"] = calls[c]["late"] - 1
    BY <1>2, <1>3, <2>1
  <2>3. route' = [route EXCEPT ![c] = route[c]]
    BY <1>1, <1>6 DEF LateAnswer
  <2>4. calls' = [calls EXCEPT ![c] = k]
    BY <1>6 DEF LateAnswer
  <2>5. k["raw"] + k["client"] + k["late"] <= route[c].unresolved
    BY <1>2, <1>3, <2>2
  <2>6. ~disposed /\ ~route[c].exists => k["raw"] = 0 /\ k["client"] = 0 /\ k["late"] = 0
    BY <1>2, <2>1
  <2>7. UNCHANGED <<native, wire, disposed>>
    BY <1>6 DEF LateAnswer, browser
  <2> HIDE DEF k
  <2> QED BY <1>2, <2>2, <2>3, <2>4, <2>5, <2>6, <2>7, CallsChange
<1>7. ASSUME NEW kind \in Kinds, Request(c, kind) PROVE IInv'
  <2>1. CASE route[c].unresolved >= CallLimit
    <3> DEFINE r == [route[c] EXCEPT !.failed = TRUE]
    <3>1. r \in Route /\ SameCalls(route[c], r)
      BY <1>2 DEF Route, SameCalls
    <3>2. Bounded(r)
      <4>1. r.queue = route[c].queue /\ r.pending = route[c].pending
        BY <1>2 DEF Route
      <4> QED BY <4>1, RouteIsTyped DEF Bounded
    <3>3. route' = [route EXCEPT ![c] = r] /\ calls' = calls
      BY <1>1, <1>7, <2>1 DEF Request
    <3> HIDE DEF r
    <3> QED BY <1>7, <3>1, <3>2, <3>3, OneRouteChanges DEF Request, browser
  <2>2. CASE ~(route[c].unresolved >= CallLimit)
    <3> DEFINE r == [route[c] EXCEPT !.unresolved = route[c].unresolved + 1]
               k == [calls[c] EXCEPT ![kind] = calls[c][kind] + 1]
    <3>1. route[c].unresolved + 1 \in Nat /\ route[c].unresolved + 1 <= CallLimit
      BY <1>1, <1>2, <2>2
    <3>2. /\ r \in Route /\ r.queue = route[c].queue /\ r.pending = route[c].pending
          /\ r.unresolved = route[c].unresolved + 1 /\ r.exists = route[c].exists
      BY <1>2, <3>1 DEF Route
    <3>3. /\ k \in [Kinds \cup {"late"} -> Nat]
          /\ k["raw"] + k["client"] + k["late"] = calls[c]["raw"] + calls[c]["client"] + calls[c]["late"] + 1
      <4>1. CASE kind = "raw"
        BY <1>2, <1>3, <4>1
      <4>2. CASE kind = "client"
        BY <1>2, <1>3, <4>2
      <4> QED BY <4>1, <4>2 DEF Kinds
    <3>4. route' = [route EXCEPT ![c] = r] /\ route[c].exists
      BY <1>1, <1>7, <2>2 DEF Request
    <3>5. calls' = [calls EXCEPT ![c] = k]
      BY <1>7, <2>2 DEF Request
    <3>7. k["raw"] + k["client"] + k["late"] <= r.unresolved
      BY <1>2, <1>3, <3>2, <3>3
    <3>8. UNCHANGED <<native, wire, disposed>>
      BY <1>7 DEF Request, browser
    <3> HIDE DEF r, k
    <3> QED BY <3>1, <3>2, <3>3, <3>4, <3>5, <3>7, <3>8, CallsChange
  <2> QED BY <2>1, <2>2
<1>8. ASSUME NEW kind \in Kinds, Answer(c, kind) PROVE IInv'
  <2> DEFINE r == [route[c] EXCEPT !.unresolved = route[c].unresolved - 1]
             k == [calls[c] EXCEPT ![kind] = calls[c][kind] - 1]
  <2>1. /\ kind = "raw" => calls[c]["raw"] > 0
        /\ kind # "raw" => calls[c]["client"] > 0
    BY <1>8 DEF Answer, Kinds
  <2>2. route[c].unresolved - 1 \in Nat
    BY <1>2, <1>3, <2>1
  <2>3. /\ r \in Route /\ r.queue = route[c].queue /\ r.pending = route[c].pending
        /\ r.unresolved = route[c].unresolved - 1 /\ r.exists = route[c].exists
    BY <1>2, <2>2 DEF Route
  <2>4. /\ k \in [Kinds \cup {"late"} -> Nat]
        /\ k["raw"] + k["client"] + k["late"] = calls[c]["raw"] + calls[c]["client"] + calls[c]["late"] - 1
    <3>1. CASE kind = "raw"
      BY <1>2, <1>3, <2>1, <3>1
    <3>2. CASE kind = "client"
      BY <1>2, <1>3, <2>1, <3>2
    <3> QED BY <3>1, <3>2 DEF Kinds
  <2>5. route' = [route EXCEPT ![c] = r]
    BY <1>1, <1>8 DEF Answer
  <2>6. calls' = [calls EXCEPT ![c] = k]
    BY <1>8 DEF Answer
  <2>8. k["raw"] + k["client"] + k["late"] <= r.unresolved /\ r.unresolved <= CallLimit
    BY <1>1, <1>2, <1>3, <2>3, <2>4 DEF Kinds
  <2>9. ~disposed /\ ~r.exists => k["raw"] = 0 /\ k["client"] = 0 /\ k["late"] = 0
    BY <1>2, <2>1, <2>3
  <2>10. UNCHANGED <<native, wire, disposed>>
    BY <1>8 DEF Answer, browser
  <2> HIDE DEF r, k
  <2> QED BY <2>3, <2>4, <2>5, <2>6, <2>8, <2>9, <2>10, CallsChange
<1>9. ASSUME NEW kind \in Kinds, GivesUp(c, kind) PROVE IInv'
  <2> DEFINE k == [calls[c] EXCEPT ![kind] = calls[c][kind] - 1, !["late"] = calls[c]["late"] + 1]
  <2>1. /\ kind = "raw" => calls[c]["raw"] > 0
        /\ kind # "raw" => calls[c]["client"] > 0
    BY <1>9 DEF GivesUp, Kinds
  <2>2. /\ k \in [Kinds \cup {"late"} -> Nat]
        /\ k["raw"] + k["client"] + k["late"] = calls[c]["raw"] + calls[c]["client"] + calls[c]["late"]
    <3>1. CASE kind = "raw"
      <4>1. /\ k["raw"] = calls[c]["raw"] - 1 /\ k["client"] = calls[c]["client"]
            /\ k["late"] = calls[c]["late"] + 1 /\ k \in [Kinds \cup {"late"} -> Nat]
        BY <1>2, <1>3, <2>1, <3>1 DEF Kinds
      <4> QED BY <1>3, <4>1
    <3>2. CASE kind = "client"
      <4>1. /\ k["raw"] = calls[c]["raw"] /\ k["client"] = calls[c]["client"] - 1
            /\ k["late"] = calls[c]["late"] + 1 /\ k \in [Kinds \cup {"late"} -> Nat]
        BY <1>2, <1>3, <2>1, <3>2 DEF Kinds
      <4> QED BY <1>3, <4>1
    <3> QED BY <3>1, <3>2 DEF Kinds
  <2>3. route' = [route EXCEPT ![c] = route[c]]
    BY <1>1, <1>9 DEF GivesUp
  <2>4. calls' = [calls EXCEPT ![c] = k]
    <3>1. "late" # kind
      BY DEF Kinds
    <3> QED BY <1>9, <3>1 DEF GivesUp
  <2>5. k["raw"] + k["client"] + k["late"] <= route[c].unresolved
    BY <1>2, <1>3, <2>2
  <2>6. ~disposed /\ ~route[c].exists => k["raw"] = 0 /\ k["client"] = 0 /\ k["late"] = 0
    BY <1>2, <2>1
  <2>7. UNCHANGED <<native, wire, disposed>>
    BY <1>9 DEF GivesUp, browser
  <2> HIDE DEF k
  <2> QED BY <1>2, <2>2, <2>3, <2>4, <2>5, <2>6, <2>7, CallsChange
<1> QED BY <1>4, <1>5, <1>6, <1>7, <1>8, <1>9

-----------------------------------------------------------------------------
(* Messages about children                                                 *)

\* Publishing an attachment or a detachment keeps the sinks typed.
LEMMA DetachesPublishes ==
  ASSUME IInv', MessagesAreOfChildren, NEW c \in Children, NEW kind \in {"attached", "detached"},
         sink' = sink \/ sink' = Published(kind, c)
  PROVE  sink' \in [Pages -> Seq(Message)]
<1>1. native'[c].count \in Nat
  BY DEF IInv, Typed
<1>2. [kind |-> kind, child |-> c, number |-> native'[c].count] \in Message
  BY <1>1 DEF Message
<1>3. \A p \in Pages :
         /\ sink[p] \in Seq(Message)
         /\ Append(sink[p], [kind |-> kind, child |-> c, number |-> native'[c].count]) \in Seq(Message)
  BY <1>2 DEF MessagesAreOfChildren
<1>4. Published(kind, c) \in [Pages -> Seq(Message)]
  BY <1>3 DEF Published
<1> QED BY <1>4 DEF MessagesAreOfChildren

\* Initially there is no message.
LEMMA MessagesInitially == Init => MessagesAreOfChildren
<1>1. <<>> \in Seq(Message)
  OBVIOUS
<1> QED BY <1>1 DEF Init, MessagesAreOfChildren

\* Every step keeps the messages of a sink those of its children.
LEMMA MessagesKept ==
  ASSUME IInv', MessagesAreOfChildren, [Next]_vars
  PROVE  MessagesAreOfChildren'
<1> USE DEF MessagesAreOfChildren
<1>1. ASSUME NEW c \in Children, Browser(c) PROVE MessagesAreOfChildren'
  <2>1. \E kind \in {"attached", "detached"} : sink' = sink \/ sink' = Published(kind, c)
    BY <1>1 DEF Browser, NativeAttach, NativeDetach, NativeEvent, Detaches
  <2>2. sink' \in [Pages -> Seq(Message)]
    BY <2>1, DetachesPublishes
  <2>3. forwarder' = forwarder
    BY <1>1 DEF Browser, NativeAttach, NativeDetach, NativeEvent, tasks
  <2> QED BY <2>2, <2>3
<1>2. ASSUME NEW c \in Children, WatcherStep(c) PROVE MessagesAreOfChildren'
  <2>1. forwarder' = forwarder
    BY <1>2 DEF WatcherStep, WatcherRemoves, WatcherRetires, WatcherTells, WatcherDetaches
  <2>2. \E kind \in {"attached", "detached"} : sink' = sink \/ sink' = Published(kind, c)
    BY <1>2 DEF WatcherStep, WatcherRemoves, WatcherRetires, WatcherTells, WatcherDetaches,
                AskedToDetach, Detaches
  <2>3. sink' \in [Pages -> Seq(Message)]
    BY <2>2, DetachesPublishes
  <2> QED BY <2>1, <2>3
<1>3. ASSUME NEW c \in Children,
             \/ RouteEvent(c) \/ NotifierStep(c)
             \/ OpenRaw(c) \/ CloseRaw(c) \/ LateAnswer(c)
             \/ \E kind \in Kinds : Request(c, kind) \/ Answer(c, kind) \/ GivesUp(c, kind)
      PROVE MessagesAreOfChildren'
  BY <1>3 DEF RouteEvent, NotifierStep, TakeNotification, TakePending, Forward, NotifierStops,
              OpenRaw, CloseRaw, LateAnswer, Request, Answer, GivesUp, tasks
<1>4. ASSUME NEW p \in Pages, ForwarderStep(p) PROVE MessagesAreOfChildren'
  <2>1. CASE RouteAttached(p) \/ RouteDetached(p)
    <3>1. /\ Head(sink[p]) \in Message /\ Tail(sink[p]) \in Seq(Message)
          /\ sink' = [sink EXCEPT ![p] = Tail(@)]
      BY <2>1 DEF RouteAttached, RouteDetached, Takes
    <3>2. \/ forwarder' = forwarder
          \/ \E step \in {"notify", "refuse"} :
                forwarder' = [forwarder EXCEPT ![p] = [at |-> step, msg |-> Head(sink[p])]]
      <4>1. CASE RouteAttached(p)
        BY <4>1 DEF RouteAttached, At
      <4>2. CASE RouteDetached(p)
        BY <4>2 DEF RouteDetached, At
      <4> QED BY <2>1, <4>1, <4>2
    <3> DEFINE Next_(step) == [at |-> step, msg |-> Head(sink[p])]
    <3>3. \A step \in {"notify", "refuse"} :
             Next_(step) \in [at : {"notify", "activate", "refuse"}, msg : Message]
      BY <3>1
    <3>4. sink' \in [Pages -> Seq(Message)]
      BY <3>1
    <3>5. forwarder' \in [Pages -> {Idle} \cup [at : {"notify", "activate", "refuse"}, msg : Message]]
      BY <3>2, <3>3
    <3> QED BY <3>4, <3>5
  <2>2. forwarder[p].at # "idle" => forwarder[p].msg \in Message
    <3>1. Idle.at = "idle"
      BY DEF Idle
    <3>2. forwarder[p] \in {Idle} \cup [at : {"notify", "activate", "refuse"}, msg : Message]
      OBVIOUS
    <3> QED BY <3>1, <3>2
  <2>3. CASE RefuseAttached(p)
    <3> DEFINE msg == [forwarder[p].msg EXCEPT !.kind = "detached"]
               new == [at |-> "notify", msg |-> msg]
    <3>1. forwarder[p].msg \in Message /\ forwarder[p].msg.child \in Children
      <4>1. forwarder[p].at = "refuse" /\ "refuse" # "idle"
        BY <2>3 DEF RefuseAttached
      <4> QED BY <2>2, <4>1 DEF Message
    <3>2. msg \in Message
      BY <3>1 DEF Message
    <3>3. forwarder' = [forwarder EXCEPT ![p] = new]
      BY <2>3 DEF RefuseAttached, At
    <3>4. \E kind \in {"attached", "detached"} :
             sink' = sink \/ sink' = Published(kind, forwarder[p].msg.child)
      BY <2>3 DEF RefuseAttached, AskedToDetach, Detaches
    <3>5. sink' \in [Pages -> Seq(Message)]
      BY <3>1, <3>4, DetachesPublishes
    <3> HIDE DEF msg
    <3>6. new \in [at : {"notify", "activate", "refuse"}, msg : Message]
      BY <3>2
    <3> HIDE DEF new
    <3>7. forwarder' \in [Pages -> {Idle} \cup [at : {"notify", "activate", "refuse"}, msg : Message]]
      BY <3>3, <3>6
    <3> QED BY <3>5, <3>7
  <2>4. CASE Notify(p)
    <3> DEFINE new == [at |-> "activate", msg |-> forwarder[p].msg]
    <3>1. forwarder[p].msg \in Message
      <4>1. forwarder[p].at = "notify" /\ "notify" # "idle"
        BY <2>4 DEF Notify
      <4> QED BY <2>2, <4>1
    <3>2. sink' = sink
      BY <2>4 DEF Notify
    <3>3. \/ forwarder' = [forwarder EXCEPT ![p] = new]
          \/ forwarder' = [forwarder EXCEPT ![p] = Idle]
      BY <2>4 DEF Notify, At
    <3>4. new \in [at : {"notify", "activate", "refuse"}, msg : Message]
      BY <3>1
    <3> HIDE DEF new
    <3> QED BY <3>2, <3>3, <3>4
  <2>5. CASE Activate(p)
    BY <2>5 DEF Activate
  <2> QED BY <1>4, <2>1, <2>3, <2>4, <2>5 DEF ForwarderStep
<1>5. ASSUME NEW p \in Pages, DetachPage(p) PROVE MessagesAreOfChildren'
  <2>1. <<>> \in Seq(Message)
    OBVIOUS
  <2>2. sink' = [sink EXCEPT ![p] = <<>>] /\ forwarder' = [forwarder EXCEPT ![p] = Idle]
    BY <1>5 DEF DetachPage
  <2> QED BY <2>1, <2>2
<1>6. CASE Dispose
  BY <1>6 DEF Dispose, tasks
<1>7. CASE UNCHANGED vars
  BY <1>7 DEF vars, tasks
<1> QED BY <1>1, <1>2, <1>3, <1>4, <1>5, <1>6, <1>7 DEF Next

-----------------------------------------------------------------------------
(* Theorems                                                                *)

\* IInv is inductive.
LEMMA StepKeeps ==
  ASSUME IInv, MessagesAreOfChildren, [Next]_vars
  PROVE  IInv'
<1>1. ASSUME NEW c \in Children, Browser(c) \/ RouteEvent(c) \/ NotifierStep(c) \/ WatcherStep(c)
      PROVE IInv'
  BY <1>1, BrowserKeeps, RouteEventKeeps, NotifierStepKeeps, WatcherStepKeeps
<1>2. ASSUME NEW c \in Children,
             \/ OpenRaw(c) \/ CloseRaw(c) \/ LateAnswer(c)
             \/ \E kind \in Kinds : Request(c, kind) \/ Answer(c, kind) \/ GivesUp(c, kind)
      PROVE IInv'
  BY <1>2, RequestsKeep
<1>3. ASSUME NEW p \in Pages, ForwarderStep(p) \/ DetachPage(p) PROVE IInv'
  BY <1>3, ForwarderStepKeeps, PageAndEndpointKeep
<1>4. CASE Dispose
  BY <1>4, PageAndEndpointKeep
<1>5. CASE UNCHANGED vars
  BY <1>5, NoRouteChanges DEF vars, browser, IInv, Typed
<1> QED BY <1>1, <1>2, <1>3, <1>4, <1>5 DEF Next

(* The types of what the routes work on, the bounds and the accounting of  *)
(* calls hold in every reachable state.                                    *)
THEOREM Invariance == Spec => [](IInv /\ MessagesAreOfChildren)
<1>1. Init => IInv /\ MessagesAreOfChildren
  BY Initially, MessagesInitially
<1>2. IInv /\ MessagesAreOfChildren /\ [Next]_vars => (IInv /\ MessagesAreOfChildren)'
  BY StepKeeps, MessagesKept
<1> QED BY <1>1, <1>2, PTL DEF Spec

(* Whatever the browser, the clients and the timers do, no child makes the *)
(* daemon keep more than CallLimit requests, and QueueLimit notifications  *)
(* in each of the two queues of its route.                                 *)
THEOREM RoutesAreBounded == Spec => []RouteIsBounded
<1>1. IInv => RouteIsBounded
  BY DEF IInv
<1> QED BY <1>1, Invariance, PTL

-----------------------------------------------------------------------------
(* The order of a child's events                                           *)

Items == Numbered \cup {Listen, Pause}

\* Behind the event x comes the item, and y is the event that is last then.
Passes(x, item, y) ==
    \/ item \in {Listen, Pause} /\ y = x
    \/ item \in Numbered /\ y = item /\ item.event = x.event + 1 /\ x.number <= item.number

\* The items of q lead from the event x to the event z without a hole.
Carries(q, x, z) ==
    \E h \in [0..Len(q) -> Numbered] :
        /\ h[0] = x /\ h[Len(q)] = z
        /\ \A i \in 1..Len(q) : Passes(h[i - 1], q[i], h[i])

\* No items lead from an event to itself only.
LEMMA CarriesNothing ==
  ASSUME NEW x \in Numbered, NEW z
  PROVE  Carries(<<>>, x, z) <=> z = x
<1>1. Len(<<>>) = 0 /\ 0..0 = {0} /\ 1..0 = {}
  OBVIOUS
<1>2. [i \in {0} |-> x] \in [{0} -> Numbered]
  OBVIOUS
<1>3. ASSUME z = x PROVE Carries(<<>>, x, z)
  <2> DEFINE h == [i \in 0..Len(<<>>) |-> x]
  <2>1. h \in [0..Len(<<>>) -> Numbered] /\ h[0] = x
    BY <1>1
  <2> HIDE DEF h
  <2> QED BY <1>1, <1>3, <2>1 DEF Carries
<1>4. ASSUME Carries(<<>>, x, z) PROVE z = x
  BY <1>1, <1>4 DEF Carries
<1> QED BY <1>3, <1>4

\* The ends of a sequence of items are events.
LEMMA CarriesEnds ==
  ASSUME NEW q \in Seq(Items), NEW x, NEW z, Carries(q, x, z)
  PROVE  x \in Numbered /\ z \in Numbered
<1>1. Len(q) \in Nat
  OBVIOUS
<1>2. 0 \in 0..Len(q) /\ Len(q) \in 0..Len(q)
  BY <1>1
<1> QED BY <1>2 DEF Carries

\* One item more at the end.
LEMMA CarriesAppended ==
  ASSUME NEW q \in Seq(Items), NEW x, NEW z, Carries(q, x, z),
         NEW item \in Items, NEW y \in Numbered, Passes(z, item, y)
  PROVE  Carries(Append(q, item), x, y)
<1> DEFINE n == Len(q)
           r == Append(q, item)
<1>1. /\ n \in Nat /\ Len(r) = n + 1 /\ r[n + 1] = item
      /\ \A i \in 1..n : r[i] = q[i]
  OBVIOUS
<1>2. PICK h \in [0..n -> Numbered] :
        h[0] = x /\ h[n] = z /\ \A i \in 1..n : Passes(h[i - 1], q[i], h[i])
  BY DEF Carries
<1> HIDE DEF n, r
<1> DEFINE k == [i \in 0..(n + 1) |-> IF i = n + 1 THEN y ELSE h[i]]
<1>3. /\ k \in [0..(n + 1) -> Numbered]
      /\ k[0] = x /\ k[n + 1] = y /\ k[n] = z
      /\ \A i \in 0..n : k[i] = h[i]
  BY <1>1, <1>2
<1>4. ASSUME NEW i \in 1..(n + 1) PROVE Passes(k[i - 1], r[i], k[i])
  <2>1. CASE i = n + 1
    <3>1. i - 1 = n
      BY <1>1, <2>1
    <3> HIDE DEF k
    <3> QED BY <1>1, <1>3, <2>1, <3>1
  <2>2. CASE i # n + 1
    <3>1. i \in 1..n /\ i \in 0..n /\ i - 1 \in 0..n
      BY <1>1, <2>2
    <3> HIDE DEF k
    <3>2. k[i] = h[i] /\ k[i - 1] = h[i - 1] /\ r[i] = q[i]
      BY <1>1, <1>3, <3>1
    <3> QED BY <1>2, <3>1, <3>2
  <2> QED BY <2>1, <2>2
<1>5. Carries(r, x, y)
  <2> HIDE DEF k
  <2> QED BY <1>1, <1>3, <1>4 DEF Carries
<1> QED BY <1>5 DEF r

\* The first item of several.
LEMMA CarriesTail ==
  ASSUME NEW q \in Seq(Items), q # <<>>, NEW x, NEW z, Carries(q, x, z)
  PROVE  \E y \in Numbered : Passes(x, Head(q), y) /\ Carries(Tail(q), y, z)
<1> DEFINE n == Len(q)
           r == Tail(q)
<1>1. /\ n \in Nat /\ n >= 1 /\ Len(r) = n - 1 /\ Head(q) = q[1] /\ n - 1 \in Nat
      /\ \A i \in 1..(n - 1) : r[i] = q[i + 1]
  OBVIOUS
<1>2. PICK h \in [0..n -> Numbered] :
        h[0] = x /\ h[n] = z /\ \A i \in 1..n : Passes(h[i - 1], q[i], h[i])
  BY DEF Carries
<1> HIDE DEF n, r
<1> DEFINE k == [i \in 0..(n - 1) |-> h[i + 1]]
<1>3. \A i \in 0..(n - 1) : i + 1 \in 0..n /\ k[i] = h[i + 1]
  BY <1>1
<1>4. /\ k \in [0..(n - 1) -> Numbered]
      /\ k[0] = h[1] /\ k[n - 1] = z /\ h[1] \in Numbered
  BY <1>1, <1>2, <1>3
<1>5. ASSUME NEW i \in 1..(n - 1) PROVE Passes(k[i - 1], r[i], k[i])
  <2>1. i + 1 \in 1..n /\ i \in 0..(n - 1) /\ i - 1 \in 0..(n - 1) /\ (i - 1) + 1 = i
        /\ (i + 1) - 1 = i
    BY <1>1
  <2>2. k[i] = h[i + 1] /\ k[i - 1] = h[i] /\ r[i] = q[i + 1]
    BY <1>1, <1>3, <2>1
  <2>3. Passes(h[(i + 1) - 1], q[i + 1], h[i + 1])
    BY <1>2, <2>1
  <2> HIDE DEF k
  <2> QED BY <2>1, <2>2, <2>3
<1>6. Carries(r, h[1], z)
  <2> HIDE DEF k
  <2> QED BY <1>1, <1>4, <1>5 DEF Carries
<1>7. Passes(x, Head(q), h[1])
  <2>1. 1 \in 1..n /\ 1 - 1 = 0
    BY <1>1
  <2>2. Passes(h[1 - 1], q[1], h[1])
    BY <1>2, <2>1
  <2> QED BY <1>1, <1>2, <2>1, <2>2
<1> QED BY <1>4, <1>6, <1>7 DEF r

\* Listen and Pause are no events, and events alone are items.
LEMMA ItemsAre ==
  /\ Listen \notin Numbered /\ Pause \notin Numbered /\ Listen # Pause
  /\ Seq(Numbered) \subseteq Seq(Items) /\ Numbered \subseteq Items
  /\ None \notin Numbered
<1>1. Listen # Pause
  <2>1. Pause.kind = "pause" /\ Listen.kind = "listen" /\ "pause" # "listen"
    BY DEF Listen, Pause
  <2> QED BY <2>1
<1>2. Listen \notin Numbered /\ Pause \notin Numbered
  <2>1. DOMAIN Listen = {"kind"} /\ DOMAIN Pause = {"kind"} /\ "number" # "kind"
    BY DEF Listen, Pause
  <2>2. \A e \in Numbered : "number" \in DOMAIN e
    BY DEF Numbered
  <2> QED BY <2>1, <2>2
<1>3. Seq(Numbered) \subseteq Seq(Items)
  BY DEF Items
<1> QED BY <1>1, <1>2, <1>3, NoneAssumption DEF NoneAssumption, Items, Numbered

-----------------------------------------------------------------------------
(* The line from the browser to the client: the wire w, the route r and    *)
(* the events g that were got, of a child with the native record n, the    *)
(* owner o, the client channel k and a watcher at a.                       *)

Has(q, item) == \E i \in DOMAIN q : q[i] = item

\* What the client got and what is handed to it next.
HandOf(r, g) == IF r.held = None THEN g ELSE Append(g, r.held)

Consecutive(s) == \E x, z \in Numbered : Carries(s, x, z)

\* The route leads to the event f.
Reaches(r, g, f) ==
    \E x, p, t \in Numbered :
        Carries(HandOf(r, g), x, p) /\ Carries(r.pending, p, t) /\ Carries(r.queue, t, f)

\* The wire leads from the event f to the browser's latest.
WireFrom(n, w, f, d) ==
    d \/ \E z \in Numbered : /\ z.event = n.events /\ z.number <= n.count
                             /\ Carries(w, f, z)

Unheard(r, g) == ~r.listener /\ r.held = None /\ g = <<>> /\ ~Has(r.queue, Listen)

\* Once a listener is there, no pause is on its way to it; before, nothing
\* was handed to anybody.
Opened(r, g) ==
    /\ \A i, j \in DOMAIN r.queue : i < j => ~(r.queue[i] = Listen /\ r.queue[j] = Pause)
    /\ r.listener => ~Has(r.queue, Pause)
    /\ ~r.listener => g = <<>> /\ r.held = None

Kept(r) == r.detached => r.pending = <<>> /\ ~r.listener

Served(r, o, k, g) ==
    /\ k = "unused" => o = None /\ Unheard(r, g)
    /\ o # None => k = "open" /\ Opened(r, g)

Existing(n, w, r, k, d) ==
    /\ ~d /\ ~r.exists => r = NoRoute
    /\ ~d /\ k # "unused" => r.exists
    /\ d => w = <<>> /\ ~n.on

Watching(o, k, a) ==
    /\ a \in {"retire", "tell", "detach"} => o = None
    /\ a = "watching" => o # None
    /\ k = "unused" => a = "none"

\* The route may still hand events to the client.
Alive(r, o, k) == r.running /\ ~r.failed /\ (k = "unused" \/ o # None)

InLine(n, w, r, o, k, g, d) ==
    /\ \E f \in Numbered : /\ WireFrom(n, w, f, d)
                           /\ Alive(r, o, k) => Reaches(r, g, f)
    /\ Consecutive(g)
    /\ o # None => Consecutive(HandOf(r, g))

Line(n, w, r, o, k, a, g, d) ==
    /\ Served(r, o, k, g) /\ Kept(r) /\ Existing(n, w, r, k, d) /\ Watching(o, k, a)
    /\ InLine(n, w, r, o, k, g, d)

Native == [on : BOOLEAN, count : Nat, events : Nat]

\* A route that is not there has no mark to take away.
LEMMA UnroutedIsUnmarked ==
  /\ NoRoute \in Route /\ NoRoute.synthetic = FALSE
  /\ \A r \in Route : r.synthetic = FALSE => [r EXCEPT !.synthetic = FALSE] = r
<1>1. <<>> \in Seq(Numbered \cup {Listen, Pause}) /\ <<>> \in Seq(Numbered)
  OBVIOUS
<1>2. 0 \in Nat /\ None \in Numbered \cup {None}
  OBVIOUS
<1>3. NoRoute \in Route
  BY <1>1, <1>2 DEF NoRoute, Route
<1>4. \A r \in Route : r.synthetic = FALSE => [r EXCEPT !.synthetic = FALSE] = r
  BY DEF Route
<1> QED BY <1>3, <1>4 DEF NoRoute

\* Nothing in hand and nothing got is in order.
LEMMA NothingInHand ==
  ASSUME NEW r, NEW f \in Numbered, r.held = None
  PROVE  /\ Consecutive(<<>>) /\ Consecutive(HandOf(r, <<>>))
         /\ Carries(HandOf(r, <<>>), f, f)
<1>1. Carries(<<>>, f, f)
  BY CarriesNothing
<1> QED BY <1>1 DEF Consecutive, HandOf

\* The browser attaches, detaches, and forgets no event.
LEMMA NativeChanges ==
  ASSUME NEW n \in Native, NEW w, NEW r, NEW o, NEW k, NEW a, NEW g, NEW d,
         Line(n, w, r, o, k, a, g, d), NEW m \in Native,
         m.events = n.events, m.count >= n.count, d => (m.on => n.on)
  PROVE  Line(m, w, r, o, k, a, g, d)
<1>1. n.count \in Nat /\ m.count \in Nat
  BY DEF Native
<1>2. \A f : WireFrom(n, w, f, d) => WireFrom(m, w, f, d)
  BY <1>1 DEF WireFrom, Numbered
<1>3. InLine(m, w, r, o, k, g, d)
  BY <1>2 DEF Line, InLine
<1>4. Existing(m, w, r, k, d)
  BY DEF Line, Existing
<1> QED BY <1>3, <1>4 DEF Line

\* The browser sends an event.
LEMMA EventIsSent ==
  ASSUME NEW n \in Native, NEW w \in Seq(Numbered), NEW r, NEW o, NEW k, NEW a, NEW g, NEW d,
         Line(n, w, r, o, k, a, g, d), n.on, NEW m \in Native,
         m.events = n.events + 1, m.count = n.count, m.on = n.on,
         NEW e, e = [number |-> n.count, event |-> n.events + 1]
  PROVE  Line(m, Append(w, e), r, o, k, a, g, d)
<1>1. n.count \in Nat /\ n.events \in Nat /\ e \in Numbered /\ e \in Items /\ w \in Seq(Items)
  BY ItemsAre DEF Native, Numbered
<1>2. ~d
  BY DEF Line, Existing
<1>3. ASSUME NEW f \in Numbered, WireFrom(n, w, f, d) PROVE WireFrom(m, Append(w, e), f, d)
  <2>1. PICK z \in Numbered : z.event = n.events /\ z.number <= n.count /\ Carries(w, f, z)
    BY <1>2, <1>3 DEF WireFrom
  <2>2. Passes(z, e, e)
    BY <1>1, <2>1 DEF Passes
  <2>3. Carries(Append(w, e), f, e)
    BY <1>1, <2>1, <2>2, CarriesAppended
  <2>4. e.event = m.events /\ e.number <= m.count
    BY <1>1
  <2> QED BY <1>1, <2>3, <2>4 DEF WireFrom
<1>4. InLine(m, Append(w, e), r, o, k, g, d)
  BY <1>3 DEF Line, InLine
<1>5. Existing(m, Append(w, e), r, k, d)
  BY <1>2 DEF Line, Existing
<1> QED BY <1>4, <1>5 DEF Line

\* What is put on the queue of a route.
LEMMA SentFields ==
  ASSUME NEW r \in Route, NEW item \in Items, NEW s, s = Sent(r, item)
  PROVE  /\ s.exists = r.exists /\ s.listener = r.listener /\ s.held = r.held
         /\ s.pending = r.pending /\ s.detached = r.detached /\ s.running = r.running
         /\ s.synthetic = r.synthetic
         /\ s.queue = r.queue \/ s.queue = Append(r.queue, item)
         /\ ~s.failed => ~r.failed /\ s.queue = Append(r.queue, item)
<1>1. CASE r.failed
  BY <1>1 DEF Sent
<1>2. CASE ~r.failed /\ Len(r.queue) = QueueLimit
  <2>1. s = [r EXCEPT !.failed = TRUE]
    BY <1>2 DEF Sent
  <2> QED BY <2>1 DEF Route
<1>3. CASE ~r.failed /\ Len(r.queue) # QueueLimit
  <2>1. s = [r EXCEPT !.queue = Append(r.queue, item)]
    BY <1>3 DEF Sent
  <2> QED BY <1>3, <2>1 DEF Route
<1> QED BY <1>1, <1>2, <1>3

\* s is the queue q with one item more.
Lengthened(q, item, s) ==
    /\ \A x : Has(s, x) <=> Has(q, x) \/ x = item
    /\ \A i, j \in DOMAIN s : i < j =>
          /\ i \in DOMAIN q /\ s[i] = q[i]
          /\ \/ j \in DOMAIN q /\ s[j] = q[j]
             \/ s[j] = item

\* The queue has one item more.
LEMMA AppendedHas ==
  ASSUME NEW q \in Seq(Items), NEW item \in Items
  PROVE  Lengthened(q, item, Append(q, item))
<1> DEFINE s == Append(q, item)
<1>1. /\ Len(q) \in Nat /\ DOMAIN q = 1..Len(q) /\ DOMAIN s = 1..(Len(q) + 1)
      /\ s[Len(q) + 1] = item /\ \A i \in 1..Len(q) : s[i] = q[i]
  OBVIOUS
<1> HIDE DEF s
<1>2. Len(q) + 1 \in DOMAIN s /\ \A i \in DOMAIN q : i \in DOMAIN s
  BY <1>1
<1>3. \A i \in DOMAIN s : i = Len(q) + 1 \/ i \in DOMAIN q
  BY <1>1
<1>4. \A x : Has(s, x) <=> Has(q, x) \/ x = item
  BY <1>1, <1>2, <1>3 DEF Has
<1>5. \A i, j \in DOMAIN s : i < j =>
          i \in DOMAIN q /\ s[i] = q[i] /\ ((j \in DOMAIN q /\ s[j] = q[j]) \/ s[j] = item)
  BY <1>1
<1> QED BY <1>4, <1>5 DEF s, Lengthened

\* A route whose line has no more to give.
LEMMA DeadLine ==
  ASSUME NEW n, NEW w, NEW r, NEW o, NEW k, NEW a, NEW g, NEW d,
         Line(n, w, r, o, k, a, g, d),
         NEW s, Kept(s), ~d => s.exists,
         NEW l, l # "unused", NEW b, b # "watching"
  PROVE  Line(n, w, s, None, l, b, g, d)
<1>1. Served(s, None, l, g)
  BY DEF Served
<1>2. Existing(n, w, s, l, d)
  BY DEF Line, Existing
<1>3. Watching(None, l, b)
  BY DEF Watching
<1>4. InLine(n, w, s, None, l, g, d)
  BY DEF Line, InLine, Alive
<1> QED BY <1>1, <1>2, <1>3, <1>4 DEF Line

\* s is what the route r becomes when the item is sent to it.
Reached(r, item, s) == s = IF r.exists THEN Sent(r, item) ELSE r

\* An event reaches the route, or is dropped with it.
LEMMA EventIsRouted ==
  ASSUME NEW n \in Native, NEW w \in Seq(Numbered), NEW r \in Route, NEW o, NEW k, NEW a, NEW g,
         NEW d, Line(n, w, r, o, k, a, g, d), w # <<>>,
         NEW s, Reached(r, Head(w), s)
  PROVE  Line(n, Tail(w), s, o, k, a, g, d)
<1> DEFINE e == Head(w)
<1>1. e \in Numbered /\ e \in Items /\ w \in Seq(Items) /\ r.queue \in Seq(Items)
      /\ e # Listen /\ e # Pause
  BY ItemsAre DEF Route, Items
<1>2. ~d
  BY DEF Line, Existing
<1>3. CASE ~r.exists
  <2>1. s = r /\ r = NoRoute
    BY <1>2, <1>3 DEF Line, Existing, Reached
  <2>2. ~Alive(r, o, k)
    BY <2>1 DEF Alive, NoRoute
  <2>3. PICK f \in Numbered : WireFrom(n, w, f, d)
    BY DEF Line, InLine
  <2>4. PICK z \in Numbered : z.event = n.events /\ z.number <= n.count /\ Carries(w, f, z)
    BY <1>2, <2>3 DEF WireFrom
  <2>5. PICK y \in Numbered : Carries(Tail(w), y, z)
    BY <1>1, <2>4, CarriesTail
  <2>6. WireFrom(n, Tail(w), y, d)
    BY <2>4, <2>5 DEF WireFrom
  <2>7. InLine(n, Tail(w), r, o, k, g, d)
    BY <2>2, <2>6 DEF Line, InLine
  <2>8. Existing(n, Tail(w), r, k, d)
    BY <1>2 DEF Line, Existing
  <2> QED BY <2>1, <2>7, <2>8 DEF Line
<1>4. CASE r.exists
  <2>1. s = Sent(r, e)
    BY <1>4 DEF Reached
  <2> HIDE DEF e
  <2>2. /\ s.exists = r.exists /\ s.listener = r.listener /\ s.held = r.held
        /\ s.pending = r.pending /\ s.detached = r.detached /\ s.running = r.running
        /\ s.queue = r.queue \/ s.queue = Append(r.queue, e)
        /\ ~s.failed => ~r.failed /\ s.queue = Append(r.queue, e)
    BY <1>1, <2>1, SentFields
  <2>3. Lengthened(r.queue, e, Append(r.queue, e))
    BY <1>1, AppendedHas
  <2>4. Served(s, o, k, g)
    <3>1. k = "unused" => o = None /\ Unheard(s, g)
      BY <1>1, <2>2, <2>3 DEF Line, Served, Unheard, Lengthened
    <3>2. o # None => k = "open" /\ Opened(s, g)
      <4> SUFFICES ASSUME o # None PROVE k = "open" /\ Opened(s, g)
        OBVIOUS
      <4>1. k = "open" /\ Opened(r, g)
        BY DEF Line, Served
      <4>2. \A i, j \in DOMAIN s.queue : i < j => ~(s.queue[i] = Listen /\ s.queue[j] = Pause)
        <5>1. CASE s.queue = r.queue
          BY <4>1, <5>1 DEF Opened
        <5>2. CASE s.queue = Append(r.queue, e)
          <6>1. Lengthened(r.queue, e, s.queue)
            BY <2>3, <5>2
          <6>2. \A i, j \in DOMAIN r.queue : i < j => ~(r.queue[i] = Listen /\ r.queue[j] = Pause)
            BY <4>1 DEF Opened
          <6>3. ASSUME NEW i \in DOMAIN s.queue, NEW j \in DOMAIN s.queue, i < j,
                       s.queue[i] = Listen, s.queue[j] = Pause
                PROVE FALSE
            <7>1. i \in DOMAIN r.queue /\ s.queue[i] = r.queue[i]
              BY <6>1, <6>3 DEF Lengthened
            <7>2. j \in DOMAIN r.queue /\ s.queue[j] = r.queue[j]
              BY <1>1, <6>1, <6>3 DEF Lengthened
            <7> QED BY <6>2, <6>3, <7>1, <7>2
          <6> QED BY <6>3
        <5> QED BY <2>2, <5>1, <5>2
      <4>3. s.listener => ~Has(s.queue, Pause)
        BY <1>1, <2>2, <2>3, <4>1 DEF Opened, Lengthened
      <4> QED BY <2>2, <4>1, <4>2, <4>3 DEF Opened
    <3> QED BY <3>1, <3>2 DEF Served
  <2>5. Kept(s)
    BY <2>2 DEF Line, Kept
  <2>6. Existing(n, Tail(w), s, k, d)
    BY <1>2, <1>4, <2>2 DEF Line, Existing
  <2>7. HandOf(s, g) = HandOf(r, g)
    BY <2>2 DEF HandOf
  <2>8. InLine(n, Tail(w), s, o, k, g, d)
    <3>1. PICK f \in Numbered : WireFrom(n, w, f, d) /\ (Alive(r, o, k) => Reaches(r, g, f))
      BY DEF Line, InLine
    <3>2. PICK z \in Numbered : z.event = n.events /\ z.number <= n.count /\ Carries(w, f, z)
      BY <1>2, <3>1 DEF WireFrom
    <3>3. PICK y \in Numbered : Passes(f, e, y) /\ Carries(Tail(w), y, z)
      BY <1>1, <3>2, CarriesTail DEF e
    <3>4. WireFrom(n, Tail(w), y, d)
      BY <3>2, <3>3 DEF WireFrom
    <3>5. ASSUME Alive(s, o, k) PROVE Reaches(s, g, y)
      <4>1. Alive(r, o, k) /\ s.queue = Append(r.queue, e)
        BY <2>2, <3>5 DEF Alive
      <4>2. PICK x, p, t \in Numbered :
               Carries(HandOf(r, g), x, p) /\ Carries(r.pending, p, t) /\ Carries(r.queue, t, f)
        BY <3>1, <4>1 DEF Reaches
      <4>3. Carries(s.queue, t, y)
        BY <1>1, <3>3, <4>1, <4>2, CarriesAppended
      <4> QED BY <2>2, <2>7, <4>2, <4>3 DEF Reaches
    <3>6. Consecutive(g) /\ (o # None => Consecutive(HandOf(s, g)))
      BY <2>7 DEF Line, InLine
    <3> QED BY <3>4, <3>5, <3>6 DEF InLine
  <2> QED BY <2>4, <2>5, <2>6, <2>8 DEF Line
<1> QED BY <1>3, <1>4

\* s is what a detach event makes of the route r.
Paused(r, s) == s = [IF r.exists THEN Sent(r, Pause) ELSE r EXCEPT !.synthetic = FALSE]

\* A pause is put on the queue when the session ends.
LEMMA PauseIsQueued ==
  ASSUME NEW n \in Native, NEW w \in Seq(Numbered), NEW r \in Route, NEW o, NEW k, NEW a, NEW g,
         NEW d, Line(n, w, r, o, k, a, g, d),
         NEW s, Paused(r, s)
  PROVE  IF o = None THEN Line(n, w, s, None, k, a, g, d)
         ELSE Line(n, w, s, None, "retired", "none", g, d)
<1> DEFINE q == IF r.exists THEN Sent(r, Pause) ELSE r
<1>1. q \in Route
  <2>1. Pause \in Numbered \cup {Listen, Pause} /\ Pause \in Items
    BY DEF Items
  <2>2. CASE r.exists
    <3>1. r.failed \/ Len(r.queue) = QueueLimit \/ Append(r.queue, Pause) \in Seq(Numbered \cup {Listen, Pause})
      BY <2>1 DEF Route
    <3> QED BY <2>2, <3>1 DEF Sent, Route
  <2> QED BY <2>2
<1>2. /\ Pause \in Items /\ r.queue \in Seq(Items) /\ Pause # Listen
  BY ItemsAre DEF Route, Items
<1>3. /\ q.exists = r.exists /\ q.listener = r.listener /\ q.held = r.held
      /\ q.pending = r.pending /\ q.detached = r.detached /\ q.running = r.running
      /\ q.queue = r.queue \/ q.queue = Append(r.queue, Pause)
      /\ ~q.failed => ~r.failed /\ (~r.exists \/ q.queue = Append(r.queue, Pause))
  BY <1>2, SentFields
<1> HIDE DEF q
<1>4. /\ s.exists = q.exists /\ s.listener = q.listener /\ s.held = q.held
      /\ s.pending = q.pending /\ s.detached = q.detached /\ s.running = q.running
      /\ s.queue = q.queue /\ s.failed = q.failed /\ s \in Route
  BY <1>1 DEF Route, q, Paused
<1>5. Kept(s)
  BY <1>3, <1>4 DEF Line, Kept
<1>6. Lengthened(r.queue, Pause, Append(r.queue, Pause))
  BY <1>2, AppendedHas
<1>7. ~d /\ ~r.exists => s = NoRoute
  <2> SUFFICES ASSUME ~d, ~r.exists PROVE s = NoRoute
    OBVIOUS
  <2>1. r = NoRoute /\ q = NoRoute
    BY DEF Line, Existing, q
  <2>2. s = [NoRoute EXCEPT !.synthetic = FALSE]
    BY <2>1 DEF q, Paused
  <2>3. [NoRoute EXCEPT !.synthetic = FALSE] = NoRoute
    BY UnroutedIsUnmarked
  <2> QED BY <2>2, <2>3
<1>8. CASE o # None
  <2>1. ~d => s.exists
    BY <1>3, <1>4, <1>8 DEF Line, Existing, Served
  <2>3. "retired" # "unused" /\ "none" # "watching"
    OBVIOUS
  <2>2. Line(n, w, s, None, "retired", "none", g, d)
    BY <1>5, <2>1, <2>3, DeadLine
  <2> QED BY <1>8, <2>2
<1>9. CASE o = None
  <2>1. Served(s, None, k, g)
    BY <1>2, <1>3, <1>4, <1>6 DEF Line, Served, Unheard, Lengthened
  <2>2. Existing(n, w, s, k, d)
    BY <1>3, <1>4, <1>7 DEF Line, Existing
  <2>3. Watching(None, k, a)
    BY <1>9 DEF Line, Watching
  <2>4. InLine(n, w, s, None, k, g, d)
    <3>1. PICK f \in Numbered : WireFrom(n, w, f, d) /\ (Alive(r, o, k) => Reaches(r, g, f))
      BY DEF Line, InLine
    <3>2. ASSUME Alive(s, None, k) PROVE Reaches(s, g, f)
      <4>1. Alive(r, o, k)
        BY <1>3, <1>4, <1>9, <3>2 DEF Alive
      <4>2. PICK x, p, t \in Numbered :
               Carries(HandOf(r, g), x, p) /\ Carries(r.pending, p, t) /\ Carries(r.queue, t, f)
        BY <3>1, <4>1 DEF Reaches
      <4>3. Carries(s.queue, t, f)
        <5>1. Passes(f, Pause, f)
          BY DEF Passes
        <5>2. Carries(Append(r.queue, Pause), t, f)
          BY <1>2, <4>2, <5>1, CarriesAppended
        <5> QED BY <1>3, <1>4, <4>2, <5>2
      <4>4. HandOf(s, g) = HandOf(r, g)
        BY <1>3, <1>4 DEF HandOf
      <4> QED BY <1>3, <1>4, <4>2, <4>3, <4>4 DEF Reaches
    <3> QED BY <3>1, <3>2 DEF Line, InLine
  <2> QED BY <1>5, <1>9, <2>1, <2>2, <2>3, <2>4 DEF Line
<1> QED BY <1>8, <1>9

\* A listener is put on the queue while the session lasts.
LEMMA ListenIsQueued ==
  ASSUME NEW n \in Native, NEW w \in Seq(Numbered), NEW r \in Route, NEW o, NEW k, NEW a, NEW g,
         NEW d, Line(n, w, r, o, k, a, g, d), o # None,
         NEW s, Reached(r, Listen, s)
  PROVE  Line(n, w, s, o, k, a, g, d)
<1>1. /\ Listen \in Items /\ r.queue \in Seq(Items) /\ Listen # Pause
  BY ItemsAre DEF Route, Items
<1>2. /\ s.exists = r.exists /\ s.listener = r.listener /\ s.held = r.held
      /\ s.pending = r.pending /\ s.detached = r.detached /\ s.running = r.running
      /\ s.queue = r.queue \/ s.queue = Append(r.queue, Listen)
      /\ ~s.failed => ~r.failed
  BY <1>1, SentFields DEF Reached
<1>3. Kept(s) /\ k = "open" /\ Opened(r, g)
  BY <1>2 DEF Line, Kept, Served
<1>4. Existing(n, w, s, k, d)
  BY <1>2, <1>3 DEF Line, Existing
<1>5. Opened(s, g)
  <2>1. CASE s.queue = r.queue
    BY <1>2, <1>3, <2>1 DEF Opened
  <2>2. CASE s.queue = Append(r.queue, Listen)
    <3>1. Lengthened(r.queue, Listen, s.queue)
      BY <1>1, <2>2, AppendedHas
    <3>2. \A i, j \in DOMAIN s.queue : i < j => ~(s.queue[i] = Listen /\ s.queue[j] = Pause)
      BY <1>1, <1>3, <3>1 DEF Opened, Lengthened
    <3> QED BY <1>1, <1>2, <1>3, <3>1, <3>2 DEF Opened, Lengthened
  <2> QED BY <1>2, <2>1, <2>2
<1>6. HandOf(s, g) = HandOf(r, g)
  BY <1>2 DEF HandOf
<1>7. InLine(n, w, s, o, k, g, d)
  <2>1. PICK f \in Numbered : WireFrom(n, w, f, d) /\ (Alive(r, o, k) => Reaches(r, g, f))
    BY DEF Line, InLine
  <2>2. ASSUME Alive(s, o, k) PROVE Reaches(s, g, f)
    <3>1. Alive(r, o, k)
      BY <1>2, <2>2 DEF Alive
    <3>2. PICK x, p, t \in Numbered :
             Carries(HandOf(r, g), x, p) /\ Carries(r.pending, p, t) /\ Carries(r.queue, t, f)
      BY <2>1, <3>1 DEF Reaches
    <3>3. Passes(f, Listen, f)
      BY DEF Passes
    <3>4. Carries(s.queue, t, f)
      BY <1>1, <1>2, <3>2, <3>3, CarriesAppended
    <3> QED BY <1>2, <1>6, <3>2, <3>4 DEF Reaches
  <2> QED BY <1>6, <2>1, <2>2 DEF Line, InLine
<1> QED BY <1>3, <1>4, <1>5, <1>7 DEF Line, Served

\* s is what the notifier makes of the route r with the next item of its queue.
Notified(r, s) ==
    /\ r.running /\ ~r.failed /\ r.held = None /\ r.queue # <<>>
    /\ ~(r.listener /\ r.pending # <<>>)
    /\ s = Heard([r EXCEPT !.queue = Tail(@)], Head(r.queue))

HeardListen(r, s) ==
    /\ Head(r.queue) = Listen
    /\ s.listener /\ ~s.detached /\ s.pending = r.pending /\ s.held = None /\ ~s.failed
    /\ s.running

HeardPause(r, s) ==
    /\ Head(r.queue) = Pause
    /\ ~s.listener /\ s.detached /\ s.pending = <<>> /\ s.held = None /\ ~s.failed
    /\ s.running

HeardEvent(r, s) ==
    /\ Head(r.queue) \in Numbered
    /\ s.listener = r.listener /\ s.detached = r.detached
    /\ ~s.failed => s.running
    /\ \/ /\ r.listener /\ s.held = Head(r.queue) /\ s.pending = r.pending /\ ~s.failed
       \/ /\ ~r.listener /\ r.detached
          /\ s.held = None /\ s.pending = r.pending /\ ~s.failed
       \/ /\ ~r.listener /\ ~r.detached
          /\ s.held = None /\ s.pending = r.pending /\ s.failed
       \/ /\ ~r.listener /\ ~r.detached
          /\ s.held = None /\ s.pending = Append(r.pending, Head(r.queue)) /\ ~s.failed

\* The three kinds of items.
LEMMA HeardCases ==
  ASSUME NEW r \in Route, NEW s, Notified(r, s)
  PROVE  /\ s.exists = r.exists /\ s.queue = Tail(r.queue)
         /\ HeardListen(r, s) \/ HeardPause(r, s) \/ HeardEvent(r, s)
<1> DEFINE t == [r EXCEPT !.queue = Tail(@)]
           h == Head(r.queue)
<1>1. /\ r.running /\ ~r.failed /\ r.held = None /\ s = Heard(t, h)
      /\ ~(r.listener /\ r.pending # <<>>) /\ r.queue # <<>>
  BY DEF Notified
<1>2. h \in Numbered \cup {Listen, Pause}
  BY <1>1 DEF Route
<1>3. /\ Listen \notin Numbered /\ Pause \notin Numbered /\ Listen # Pause
  BY ItemsAre
<1>4. /\ t.queue = Tail(r.queue) /\ t.exists = r.exists /\ t.listener = r.listener
      /\ t.detached = r.detached /\ t.pending = r.pending /\ t.held = r.held
      /\ t.failed = r.failed /\ t.running = r.running /\ t \in Route
  <2>1. Tail(r.queue) \in Seq(Numbered \cup {Listen, Pause})
    BY <1>1 DEF Route
  <2> QED BY <2>1 DEF Route
<1> HIDE DEF t, h
<1>5. CASE h = Listen
  <2>1. s = [t EXCEPT !.listener = TRUE, !.detached = FALSE]
    BY <1>1, <1>3, <1>5 DEF Heard
  <2>2. /\ s.listener /\ ~s.detached /\ s.pending = t.pending /\ s.held = t.held
        /\ s.failed = t.failed /\ s.running = t.running /\ s.queue = t.queue /\ s.exists = t.exists
    BY <1>4, <2>1 DEF Route
  <2> QED BY <1>1, <1>4, <1>5, <2>2 DEF HeardListen, h
<1>6. CASE h = Pause
  <2>1. s = [t EXCEPT !.listener = FALSE, !.detached = TRUE, !.pending = <<>>]
    BY <1>1, <1>3, <1>6 DEF Heard
  <2>2. /\ ~s.listener /\ s.detached /\ s.pending = <<>> /\ s.held = t.held
        /\ s.failed = t.failed /\ s.running = t.running /\ s.queue = t.queue /\ s.exists = t.exists
    BY <1>4, <2>1 DEF Route
  <2> QED BY <1>1, <1>4, <1>6, <2>2 DEF HeardPause, h
<1>7. CASE h \in Numbered
  <2>1. h # Listen /\ h # Pause
    BY <1>3, <1>7
  <2>2. s = IF t.listener THEN [t EXCEPT !.held = h]
            ELSE IF t.detached THEN t
            ELSE IF Len(t.pending) = QueueLimit
                 THEN [t EXCEPT !.failed = TRUE, !.running = FALSE]
            ELSE [t EXCEPT !.pending = Append(@, h)]
    BY <1>1, <2>1 DEF Heard
  <2>3. CASE t.listener
    <3>1. s = [t EXCEPT !.held = h]
      BY <2>2, <2>3
    <3>2. /\ s.listener = t.listener /\ s.detached = t.detached /\ s.pending = t.pending
          /\ s.held = h /\ s.failed = t.failed /\ s.running = t.running /\ s.queue = t.queue /\ s.exists = t.exists
      BY <1>4, <3>1 DEF Route
    <3> QED BY <1>1, <1>4, <1>7, <2>3, <3>2 DEF HeardEvent, h
  <2>4. CASE ~t.listener /\ t.detached
    <3>1. s = t
      BY <2>2, <2>4
    <3> QED BY <1>1, <1>4, <1>7, <2>4, <3>1 DEF HeardEvent, h
  <2>5. CASE ~t.listener /\ ~t.detached /\ Len(t.pending) = QueueLimit
    <3>1. s = [t EXCEPT !.failed = TRUE, !.running = FALSE]
      BY <2>2, <2>5
    <3>2. /\ s.listener = t.listener /\ s.detached = t.detached /\ s.pending = t.pending
          /\ s.held = t.held /\ s.failed /\ s.queue = t.queue /\ s.exists = t.exists
      BY <1>4, <3>1 DEF Route
    <3> QED BY <1>1, <1>4, <1>7, <2>5, <3>2 DEF HeardEvent, h
  <2>6. CASE ~t.listener /\ ~t.detached /\ Len(t.pending) # QueueLimit
    <3>1. s = [t EXCEPT !.pending = Append(t.pending, h)]
      BY <2>2, <2>6
    <3>2. /\ s.listener = t.listener /\ s.detached = t.detached
          /\ s.pending = Append(t.pending, h)
          /\ s.held = t.held /\ s.failed = t.failed /\ s.running = t.running /\ s.queue = t.queue /\ s.exists = t.exists
      BY <1>4, <3>1 DEF Route
    <3> QED BY <1>1, <1>4, <1>7, <2>6, <3>2 DEF HeardEvent, h
  <2> QED BY <2>3, <2>4, <2>5, <2>6
<1> QED BY <1>2, <1>5, <1>6, <1>7

\* What the queue is behind its first item.
LEMMA TailHas ==
  ASSUME NEW q \in Seq(Items), q # <<>>
  PROVE  /\ \A x : Has(Tail(q), x) => Has(q, x)
         /\ Has(q, Head(q))
         /\ \A j \in DOMAIN Tail(q) : j + 1 \in DOMAIN q /\ 1 < j + 1 /\ Tail(q)[j] = q[j + 1]
         /\ 1 \in DOMAIN q /\ q[1] = Head(q)
         /\ \A i, j \in DOMAIN Tail(q) : i < j => i + 1 < j + 1
<1>1. /\ Len(q) \in Nat /\ Len(q) >= 1 /\ DOMAIN q = 1..Len(q)
      /\ DOMAIN Tail(q) = 1..(Len(q) - 1)
      /\ \A j \in 1..(Len(q) - 1) : Tail(q)[j] = q[j + 1]
      /\ Head(q) = q[1]
  OBVIOUS
<1> DEFINE t == Tail(q)
           h == Head(q)
<1> HIDE DEF t, h
<1>2. \A j \in DOMAIN t : j + 1 \in DOMAIN q /\ 1 < j + 1 /\ t[j] = q[j + 1]
  BY <1>1 DEF t
<1>3. 1 \in DOMAIN q /\ q[1] = h
  BY <1>1 DEF h
<1>4. \A i, j \in DOMAIN t : i < j => i + 1 < j + 1
  BY <1>1 DEF t
<1>5. \A x : Has(t, x) => Has(q, x)
  BY <1>2 DEF Has
<1>6. Has(q, h)
  BY <1>3 DEF Has
<1> QED BY <1>2, <1>3, <1>4, <1>5, <1>6 DEF t, h

\* The queue behind its first item is in the order of the whole.
LEMMA TailIsOpened ==
  ASSUME NEW q \in Seq(Items), q # <<>>,
         \A i, j \in DOMAIN q : i < j => ~(q[i] = Listen /\ q[j] = Pause)
  PROVE  /\ \A i, j \in DOMAIN Tail(q) : i < j => ~(Tail(q)[i] = Listen /\ Tail(q)[j] = Pause)
         /\ Head(q) = Listen => ~Has(Tail(q), Pause)
<1> DEFINE t == Tail(q)
<1>1. /\ \A j \in DOMAIN t : j + 1 \in DOMAIN q /\ 1 < j + 1 /\ t[j] = q[j + 1]
      /\ 1 \in DOMAIN q /\ q[1] = Head(q)
      /\ \A i, j \in DOMAIN t : i < j => i + 1 < j + 1
  BY TailHas
<1> HIDE DEF t
<1>2. \A i, j \in DOMAIN t : i < j => ~(t[i] = Listen /\ t[j] = Pause)
  BY <1>1
<1>3. Head(q) = Listen => ~Has(t, Pause)
  BY <1>1 DEF Has
<1> QED BY <1>2, <1>3 DEF t

\* The route leads to f; the first item of its queue is about to be heard.
Leads(r, g, x, p, t, f) ==
    Carries(HandOf(r, g), x, p) /\ Carries(r.pending, p, t) /\ Carries(r.queue, t, f)

\* What holds of the session and the route whatever item is heard.
LEMMA HeardKeeps ==
  ASSUME NEW n \in Native, NEW w, NEW r \in Route, NEW o, NEW k, NEW a, NEW g \in Seq(Numbered),
         NEW d, Line(n, w, r, o, k, a, g, d),
         NEW s, Notified(r, s)
  PROVE  /\ Served(s, o, k, g) /\ Kept(s) /\ Existing(n, w, s, k, d) /\ Watching(o, k, a)
         /\ HandOf(r, g) = g
         /\ k = "unused" => ~s.listener /\ g = <<>>
<1>1. /\ r.running /\ ~r.failed /\ r.held = None /\ r.queue # <<>> /\ r.queue \in Seq(Items)
      /\ ~(r.listener /\ r.pending # <<>>)
  BY DEF Notified, Route, Items
<1>2. /\ s.exists = r.exists /\ s.queue = Tail(r.queue)
      /\ HeardListen(r, s) \/ HeardPause(r, s) \/ HeardEvent(r, s)
  BY HeardCases
<1>3. /\ \A x : Has(Tail(r.queue), x) => Has(r.queue, x)
      /\ Has(r.queue, Head(r.queue))
  BY <1>1, TailHas
<1>4. /\ Listen \notin Numbered /\ Pause \notin Numbered /\ Listen # Pause
  BY ItemsAre
<1>5. ASSUME k = "unused" PROVE o = None /\ Unheard(s, g)
  <2>1. o = None /\ Unheard(r, g)
    BY <1>5 DEF Line, Served
  <2>2. Head(r.queue) # Listen /\ ~Has(s.queue, Listen)
    BY <1>2, <1>3, <2>1 DEF Unheard
  <2>3. ~s.listener /\ s.held = None
    BY <1>2, <2>1, <2>2 DEF Unheard, HeardListen, HeardPause, HeardEvent
  <2> QED BY <2>1, <2>2, <2>3 DEF Unheard
<1>6. ASSUME o # None PROVE k = "open" /\ Opened(s, g)
  <2>1. k = "open" /\ Opened(r, g)
    BY <1>6 DEF Line, Served
  <2>2. /\ \A i, j \in DOMAIN s.queue : i < j => ~(s.queue[i] = Listen /\ s.queue[j] = Pause)
        /\ Head(r.queue) = Listen => ~Has(s.queue, Pause)
    BY <1>1, <1>2, <2>1, TailIsOpened DEF Opened
  <2>3. s.listener => ~Has(s.queue, Pause)
    BY <1>2, <1>3, <2>1, <2>2 DEF Opened, HeardListen, HeardPause, HeardEvent
  <2>4. ~s.listener => g = <<>> /\ s.held = None
    BY <1>2, <1>3, <2>1 DEF Opened, HeardListen, HeardPause, HeardEvent
  <2> QED BY <2>1, <2>2, <2>3, <2>4 DEF Opened
<1>7. Served(s, o, k, g)
  BY <1>5, <1>6 DEF Served
<1>8. Kept(s)
  <2>1. Kept(r)
    BY DEF Line
  <2> QED BY <1>2, <2>1 DEF Kept, HeardListen, HeardPause, HeardEvent
<1>9. Existing(n, w, s, k, d)
  <2>1. ~d => r.exists
    BY <1>1 DEF Line, Existing, NoRoute
  <2> QED BY <1>2, <2>1 DEF Line, Existing
<1>10. HandOf(r, g) = g
  BY <1>1 DEF HandOf
<1> QED BY <1>5, <1>7, <1>8, <1>9, <1>10 DEF Line, Unheard

\* The line of a live route behind its next item.
LEMMA ReachesOn ==
  ASSUME NEW r \in Route, NEW g, NEW f, r.queue # <<>>, Reaches(r, g, f)
  PROVE  \E x, p, t, y \in Numbered :
            /\ Carries(HandOf(r, g), x, p) /\ Carries(r.pending, p, t)
            /\ Passes(t, Head(r.queue), y) /\ Carries(Tail(r.queue), y, f)
<1>1. r.queue \in Seq(Items)
  BY DEF Route, Items
<1>2. PICK x, p, t \in Numbered :
         Carries(HandOf(r, g), x, p) /\ Carries(r.pending, p, t) /\ Carries(r.queue, t, f)
  BY DEF Reaches
<1>3. PICK y \in Numbered : Passes(t, Head(r.queue), y) /\ Carries(Tail(r.queue), y, f)
  BY <1>1, <1>2, CarriesTail
<1> QED BY <1>2, <1>3

\* With nothing in hand and nothing pending a route may begin anywhere.
LEMMA ReachesAnew ==
  ASSUME NEW s, NEW f, NEW y \in Numbered, s.held = None, s.pending = <<>>, Carries(s.queue, y, f)
  PROVE  Reaches(s, <<>>, f)
<1>1. HandOf(s, <<>>) = <<>>
  BY DEF HandOf
<1>2. Carries(<<>>, y, y)
  BY CarriesNothing
<1> QED BY <1>1, <1>2 DEF Reaches

\* The notifier takes an item.
LEMMA NotificationIsTaken ==
  ASSUME NEW n \in Native, NEW w, NEW r \in Route, NEW o, NEW k, NEW a, NEW g \in Seq(Numbered),
         NEW d, Line(n, w, r, o, k, a, g, d),
         NEW s, Notified(r, s)
  PROVE  Line(n, w, s, o, k, a, g, d)
<1>1. /\ r.running /\ ~r.failed /\ r.held = None /\ r.queue # <<>> /\ r.queue \in Seq(Items)
      /\ ~(r.listener /\ r.pending # <<>>) /\ r.pending \in Seq(Items)
  BY ItemsAre DEF Notified, Route, Items
<1>2. /\ s.exists = r.exists /\ s.queue = Tail(r.queue)
      /\ HeardListen(r, s) \/ HeardPause(r, s) \/ HeardEvent(r, s)
  BY HeardCases
<1>3. /\ Served(s, o, k, g) /\ Kept(s) /\ Existing(n, w, s, k, d) /\ Watching(o, k, a)
      /\ HandOf(r, g) = g
      /\ k = "unused" => ~s.listener /\ g = <<>>
  BY HeardKeeps
<1>4. PICK f \in Numbered : WireFrom(n, w, f, d) /\ (Alive(r, o, k) => Reaches(r, g, f))
  BY DEF Line, InLine
<1>5. ~s.listener /\ (k = "unused" \/ o # None) => g = <<>> /\ s.held = None
  <2>1. o # None /\ ~s.listener => g = <<>> /\ s.held = None
    BY <1>3 DEF Served, Opened
  <2>2. k = "unused" => g = <<>> /\ s.held = None
    BY <1>3 DEF Served, Unheard
  <2> QED BY <2>1, <2>2
<1>6. Listen \notin Numbered /\ Pause \notin Numbered
  BY ItemsAre
<1>7. ASSUME Alive(s, o, k)
      PROVE  Reaches(s, g, f) /\ Consecutive(HandOf(s, g))
  <2>1. Alive(r, o, k) /\ (k = "unused" \/ o # None) /\ ~s.failed
    BY <1>1, <1>7 DEF Alive
  <2>2. Reaches(r, g, f)
    BY <1>4, <2>1
  <2>3. PICK x, p, t, y \in Numbered :
            /\ Carries(g, x, p) /\ Carries(r.pending, p, t)
            /\ Passes(t, Head(r.queue), y) /\ Carries(s.queue, y, f)
    BY <1>1, <1>2, <1>3, <2>2, ReachesOn
  <2>4. CASE HeardListen(r, s)
    <3>1. y = t /\ s.pending = r.pending /\ HandOf(s, g) = g
      BY <1>6, <2>3, <2>4 DEF HeardListen, Passes, HandOf
    <3> QED BY <2>3, <3>1 DEF Reaches, Consecutive
  <2>5. CASE HeardPause(r, s)
    <3>1. g = <<>> /\ s.held = None /\ s.pending = <<>>
      BY <1>5, <2>1, <2>5 DEF HeardPause
    <3> QED BY <2>3, <3>1, ReachesAnew, NothingInHand
  <2>6. CASE HeardEvent(r, s)
    <3>1. Head(r.queue) \in Numbered /\ Head(r.queue) \in Items /\ y = Head(r.queue)
      BY <1>6, <2>3, <2>6 DEF HeardEvent, Passes, Items
    <3>2. CASE r.listener
      <4>1. s.held = Head(r.queue) /\ s.pending = r.pending /\ r.pending = <<>>
        BY <1>1, <2>6, <3>2 DEF HeardEvent
      <4>2. t = p
        BY <2>3, <4>1, CarriesNothing
      <4>3. HandOf(s, g) = Append(g, Head(r.queue))
        BY <3>1, <4>1, ItemsAre DEF HandOf
      <4>4. g \in Seq(Items)
        BY ItemsAre
      <4>5. Carries(Append(g, Head(r.queue)), x, y)
        BY <2>3, <3>1, <4>2, <4>4, CarriesAppended
      <4>6. Carries(s.pending, y, y)
        BY <4>1, CarriesNothing
      <4> QED BY <2>3, <4>3, <4>5, <4>6 DEF Reaches, Consecutive
    <3>3. CASE ~r.listener
      <4>1. ~s.listener /\ g = <<>> /\ s.held = None
        BY <1>5, <2>1, <2>6, <3>3 DEF HeardEvent
      <4>2. CASE r.detached
        <5>1. s.pending = <<>>
          BY <2>1, <2>6, <3>3, <4>2 DEF HeardEvent, Line, Kept
        <5> QED BY <2>3, <4>1, <5>1, ReachesAnew, NothingInHand
      <4>3. CASE ~r.detached
        <5>1. s.pending = Append(r.pending, Head(r.queue))
          BY <2>1, <2>6, <3>3, <4>3 DEF HeardEvent
        <5>2. Carries(s.pending, p, y)
          BY <1>1, <2>3, <3>1, <5>1, CarriesAppended
        <5>3. HandOf(s, g) = g
          BY <4>1 DEF HandOf
        <5> QED BY <2>3, <5>2, <5>3 DEF Reaches, Consecutive
      <4> QED BY <4>2, <4>3
    <3> QED BY <3>2, <3>3
  <2> QED BY <1>2, <2>4, <2>5, <2>6
<1>8. ASSUME o # None PROVE Consecutive(HandOf(s, g))
  <2>1. CASE Alive(s, o, k)
    BY <1>7, <2>1
  <2>2. CASE s.failed
    <3>1. s.held = None
      BY <1>2, <2>2 DEF HeardListen, HeardPause, HeardEvent
    <3>2. HandOf(s, g) = g /\ Consecutive(g)
      BY <3>1 DEF HandOf, Line, InLine
    <3> QED BY <3>2
  <2>3. CASE ~s.failed /\ ~Alive(s, o, k)
    <3>1. s.running
      BY <1>2, <2>3 DEF HeardListen, HeardPause, HeardEvent
    <3> QED BY <1>8, <2>3, <3>1 DEF Alive
  <2> QED BY <2>1, <2>2, <2>3
<1>9. InLine(n, w, s, o, k, g, d)
  BY <1>4, <1>7, <1>8 DEF Line, InLine
<1> QED BY <1>3, <1>9 DEF Line

\* s differs from r in nothing a line depends on, but may have failed.
Marked(r, s) ==
    /\ s.queue = r.queue /\ s.listener = r.listener /\ s.held = r.held
    /\ s.pending = r.pending /\ s.detached = r.detached /\ s.exists = r.exists
    /\ s.running => r.running
    /\ ~s.failed => ~r.failed

\* A route is marked, or fails.
LEMMA RouteIsMarked ==
  ASSUME NEW n, NEW w, NEW r, NEW o, NEW k, NEW a, NEW g, NEW d,
         Line(n, w, r, o, k, a, g, d), ~d => r.exists,
         NEW s, Marked(r, s)
  PROVE  Line(n, w, s, o, k, a, g, d)
<1>1. Served(s, o, k, g)
  BY DEF Line, Served, Unheard, Opened, Marked
<1>2. Kept(s) /\ Existing(n, w, s, k, d)
  BY DEF Line, Kept, Existing, Marked
<1>3. HandOf(s, g) = HandOf(r, g)
  BY DEF HandOf, Marked
<1>4. \A f : Reaches(r, g, f) => Reaches(s, g, f)
  BY <1>3 DEF Reaches, Marked
<1>5. Alive(s, o, k) => Alive(r, o, k)
  BY DEF Alive, Marked
<1>6. InLine(n, w, s, o, k, g, d)
  BY <1>3, <1>4, <1>5 DEF Line, InLine
<1> QED BY <1>1, <1>2, <1>6 DEF Line

\* s is r with the first pending event in hand.
Handed(r, s) ==
    /\ r.running /\ ~r.failed /\ r.held = None /\ r.listener /\ r.pending # <<>>
    /\ s = [r EXCEPT !.held = Head(r.pending), !.pending = Tail(@)]

\* A listener gets what was kept for it.
LEMMA PendingIsTaken ==
  ASSUME NEW n \in Native, NEW w, NEW r \in Route, NEW o, NEW k, NEW a, NEW g \in Seq(Numbered),
         NEW d, Line(n, w, r, o, k, a, g, d),
         NEW s, Handed(r, s)
  PROVE  Line(n, w, s, o, k, a, g, d)
<1>1. /\ r.running /\ ~r.failed /\ r.held = None /\ r.listener /\ r.pending # <<>>
      /\ r.pending \in Seq(Numbered) /\ r.pending \in Seq(Items) /\ g \in Seq(Items)
      /\ Head(r.pending) \in Numbered /\ Head(r.pending) \in Items
  BY ItemsAre DEF Handed, Route, Items
<1>2. /\ s.held = Head(r.pending) /\ s.pending = Tail(r.pending) /\ s.queue = r.queue
      /\ s.listener = r.listener /\ s.detached = r.detached /\ s.exists = r.exists
      /\ s.running = r.running /\ s.failed = r.failed
  BY DEF Handed, Route
<1>3. k # "unused" /\ ~r.detached
  BY <1>1 DEF Line, Served, Unheard, Kept
<1>4. Served(s, o, k, g)
  BY <1>1, <1>2, <1>3 DEF Line, Served, Opened
<1>5. Kept(s) /\ Existing(n, w, s, k, d)
  BY <1>2, <1>3 DEF Line, Kept, Existing
<1>6. PICK f \in Numbered : WireFrom(n, w, f, d) /\ (Alive(r, o, k) => Reaches(r, g, f))
  BY DEF Line, InLine
<1>7. ASSUME o # None PROVE Reaches(s, g, f) /\ Consecutive(HandOf(s, g))
  <2>1. Reaches(r, g, f) /\ HandOf(r, g) = g /\ HandOf(s, g) = Append(g, Head(r.pending))
    BY <1>1, <1>2, <1>6, <1>7, ItemsAre DEF Alive, HandOf
  <2>2. PICK x, p, t \in Numbered :
           Carries(g, x, p) /\ Carries(r.pending, p, t) /\ Carries(r.queue, t, f)
    BY <2>1 DEF Reaches
  <2>3. PICK y \in Numbered : Passes(p, Head(r.pending), y) /\ Carries(Tail(r.pending), y, t)
    BY <1>1, <2>2, CarriesTail
  <2>4. Carries(HandOf(s, g), x, y)
    BY <1>1, <2>1, <2>2, <2>3, CarriesAppended
  <2> QED BY <1>2, <2>2, <2>3, <2>4 DEF Reaches, Consecutive
<1>8. InLine(n, w, s, o, k, g, d)
  BY <1>3, <1>6, <1>7 DEF Line, InLine, Alive
<1> QED BY <1>4, <1>5, <1>8 DEF Line

\* The event in hand goes to the client, or to nobody.
LEMMA EventIsForwarded ==
  ASSUME NEW n \in Native, NEW w, NEW r \in Route, NEW o, NEW k, NEW a, NEW g \in Seq(Numbered),
         NEW d, Line(n, w, r, o, k, a, g, d),
         r.held # None, NEW s, s = [r EXCEPT !.held = None],
         NEW h, h = IF o # None /\ k = "open" THEN Append(g, r.held) ELSE g
  PROVE  Line(n, w, s, o, k, a, h, d)
<1>1. /\ s.held = None /\ s.pending = r.pending /\ s.queue = r.queue
      /\ s.listener = r.listener /\ s.detached = r.detached /\ s.exists = r.exists
      /\ s.running = r.running /\ s.failed = r.failed
  BY DEF Route
<1>2. k # "unused" /\ (~d => r.exists)
  BY DEF Line, Served, Unheard, Existing, NoRoute
<1>3. Kept(s) /\ Existing(n, w, s, k, d)
  BY <1>1, <1>2 DEF Line, Kept, Existing
<1>4. PICK f \in Numbered : WireFrom(n, w, f, d) /\ (Alive(r, o, k) => Reaches(r, g, f))
  BY DEF Line, InLine
<1>5. CASE o # None
  <2>1. k = "open" /\ Opened(r, g)
    BY <1>5 DEF Line, Served
  <2>2. h = HandOf(r, g) /\ HandOf(s, h) = h
    BY <1>1, <1>5, <2>1 DEF HandOf
  <2>3. Served(s, o, k, h)
    BY <1>1, <2>1 DEF Served, Opened
  <2>4. Alive(s, o, k) => Reaches(s, h, f)
    BY <1>1, <1>4, <2>2 DEF Alive, Reaches
  <2>5. InLine(n, w, s, o, k, h, d)
    BY <1>4, <1>5, <2>2, <2>4 DEF Line, InLine
  <2> QED BY <1>3, <2>3, <2>5 DEF Line
<1>6. CASE o = None
  <2>1. h = g /\ Served(s, o, k, h)
    BY <1>2, <1>6 DEF Served
  <2>2. InLine(n, w, s, o, k, h, d)
    BY <1>2, <1>4, <1>6, <2>1 DEF Line, InLine, Alive
  <2> QED BY <1>3, <2>1, <2>2 DEF Line
<1> QED BY <1>5, <1>6

\* The notifier stops.
LEMMA NotifierIsStopped ==
  ASSUME NEW n, NEW w, NEW r \in Route, NEW o, NEW k, NEW a, NEW g,
         NEW d, Line(n, w, r, o, k, a, g, d),
         r.running, NEW s, s = [r EXCEPT !.running = FALSE, !.held = None]
  PROVE  Line(n, w, s, o, k, a, g, d)
<1>1. /\ s.held = None /\ s.pending = r.pending /\ s.queue = r.queue
      /\ s.listener = r.listener /\ s.detached = r.detached /\ s.exists = r.exists
      /\ ~s.running /\ s.failed = r.failed
  BY DEF Route
<1>2. ~d => r.exists
  BY DEF Line, Existing, NoRoute
<1>3. Kept(s) /\ Existing(n, w, s, k, d)
  BY <1>1, <1>2 DEF Line, Kept, Existing
<1>4. Served(s, o, k, g)
  BY <1>1 DEF Line, Served, Unheard, Opened
<1>5. HandOf(s, g) = g /\ ~Alive(s, o, k)
  BY <1>1 DEF HandOf, Alive
<1>6. InLine(n, w, s, o, k, g, d)
  BY <1>5 DEF Line, InLine
<1> QED BY <1>3, <1>4, <1>6 DEF Line

\* A route is made for a child that has none.
LEMMA RouteIsMade ==
  ASSUME NEW n \in Native, NEW w, NEW r, NEW o, NEW k, NEW a, NEW g,
         NEW d, Line(n, w, r, o, k, a, g, d),
         ~d, ~r.exists, NEW s, s = [NoRoute EXCEPT !.exists = TRUE, !.running = TRUE]
  PROVE  Line(n, w, s, o, k, a, g, d) /\ s.exists
<1>1. /\ s.held = None /\ s.pending = <<>> /\ s.queue = <<>>
      /\ ~s.listener /\ ~s.detached /\ s.exists /\ ~s.failed
  BY DEF NoRoute
<1>2. k = "unused" /\ o = None /\ g = <<>>
  BY DEF Line, Existing, Served, Unheard
<1>3. Served(s, o, k, g)
  BY <1>1, <1>2 DEF Served, Unheard, Has
<1>4. Kept(s) /\ Existing(n, w, s, k, d)
  BY <1>1 DEF Kept, Existing
<1>5. PICK f \in Numbered : WireFrom(n, w, f, d)
  BY DEF Line, InLine
<1>6. Carries(s.queue, f, f)
  BY <1>1, CarriesNothing
<1>7. Reaches(s, g, f)
  BY <1>1, <1>2, <1>6, ReachesAnew
<1>8. InLine(n, w, s, o, k, g, d)
  BY <1>2, <1>5, <1>7 DEF Line, InLine
<1> QED BY <1>1, <1>3, <1>4, <1>8 DEF Line

\* The session of a child is accepted.
LEMMA SessionIsAccepted ==
  ASSUME NEW n, NEW w, NEW r, NEW a, NEW g,
         NEW d, Line(n, w, r, None, "unused", a, g, d), r.exists,
         NEW p, p # None
  PROVE  Line(n, w, r, p, "open", "watching", g, d)
<1>1. Unheard(r, g)
  BY DEF Line, Served
<1>2. Opened(r, g)
  BY <1>1 DEF Unheard, Opened, Has
<1>3. Served(r, p, "open", g) /\ Watching(p, "open", "watching")
  BY <1>2 DEF Served, Watching
<1>4. Existing(n, w, r, "open", d)
  BY DEF Line, Existing
<1>5. g = <<>> /\ HandOf(r, g) = g /\ Consecutive(g)
  BY <1>1 DEF Unheard, HandOf, Line, InLine
<1>6. Alive(r, p, "open") => Alive(r, None, "unused")
  BY DEF Alive
<1>7. InLine(n, w, r, p, "open", g, d)
  BY <1>5, <1>6 DEF Line, InLine
<1> QED BY <1>3, <1>4, <1>7 DEF Line

\* The session of a child ends, or is on its way to its end.
LEMMA SessionIsEnded ==
  ASSUME NEW n, NEW w, NEW r, NEW o, NEW k, NEW a, NEW g,
         NEW d, Line(n, w, r, o, k, a, g, d), o # None \/ a # "none",
         NEW s, Kept(s), s.exists = r.exists,
         NEW l, l # "unused", NEW b, b # "watching"
  PROVE  Line(n, w, s, None, l, b, g, d)
<1>1. k # "unused"
  BY DEF Line, Watching, Served
<1>2. ~d => s.exists
  BY <1>1 DEF Line, Existing
<1> QED BY <1>2, DeadLine

\* The endpoint is closed.
LEMMA EndpointIsClosed ==
  ASSUME NEW n \in Native, NEW w, NEW r \in Route, NEW o, NEW k, NEW a, NEW g,
         Line(n, w, r, o, k, a, g, FALSE),
         NEW m, ~m.on, NEW s, s = [r EXCEPT !.exists = FALSE]
  PROVE  Line(m, <<>>, s, o, k, a, g, TRUE)
<1>1. /\ s.held = r.held /\ s.pending = r.pending /\ s.queue = r.queue
      /\ s.listener = r.listener /\ s.detached = r.detached
      /\ s.running = r.running /\ s.failed = r.failed
  BY DEF Route
<1>2. Served(s, o, k, g)
  BY <1>1 DEF Line, Served, Unheard, Opened
<1>3. Kept(s) /\ Existing(m, <<>>, s, k, TRUE)
  BY <1>1 DEF Line, Kept, Existing
<1>4. HandOf(s, g) = HandOf(r, g)
  BY <1>1 DEF HandOf
<1>5. \A f : Reaches(r, g, f) => Reaches(s, g, f)
  BY <1>1, <1>4 DEF Reaches
<1>6. Alive(s, o, k) => Alive(r, o, k)
  BY <1>1 DEF Alive
<1>7. InLine(m, <<>>, s, o, k, g, TRUE)
  BY <1>4, <1>5, <1>6 DEF Line, InLine, WireFrom
<1> QED BY <1>2, <1>3, <1>7 DEF Line

Steps == {"none", "watching", "retire", "tell", "detach"}
Channels == {"unused", "open", "retired"}
Watch == [at : Steps, page : Pages \cup {None}, number : Nat]
Tale == [kind : {"attached", "detached"}, number : Nat]

SessionsTyped ==
    /\ owner \in [Children -> Pages \cup {None}]
    /\ client \in [Children -> Channels]
    /\ watcher \in [Children -> Watch]
    /\ got \in [Children -> Seq(Numbered)]
    /\ told \in [Pages -> [Children -> Seq(Tale)]]
    /\ open \subseteq Pages

\* The initial state of the sessions has their types.
LEMMA SessionsTypedInitially == Init => SessionsTyped
<1> SUFFICES ASSUME Init PROVE SessionsTyped
  OBVIOUS
<1>1. <<>> \in Seq(Numbered) /\ <<>> \in Seq(Tale)
  OBVIOUS
<1>2. NotWatched \in Watch
  BY DEF NotWatched, Watch, Steps
<1>3. owner \in [Children -> Pages \cup {None}] /\ client \in [Children -> Channels]
  BY DEF Init, Channels
<1>4. watcher \in [Children -> Watch]
  BY <1>2 DEF Init
<1>5. told \in [Pages -> [Children -> Seq(Tale)]]
  BY <1>1 DEF Init
<1>6. got \in [Children -> Seq(Numbered)] /\ open \subseteq Pages
  BY <1>1 DEF Init
<1> QED BY <1>3, <1>4, <1>5, <1>6 DEF SessionsTyped

\* What a page session is told is typed.
LEMMA TellKeepsTypes ==
  ASSUME SessionsTyped, NEW p, NEW c \in Children, NEW kind \in {"attached", "detached"},
         NEW number \in Nat, Tell(p, c, kind, number)
  PROVE  told' \in [Pages -> [Children -> Seq(Tale)]]
<1>1. CASE p \notin open
  BY <1>1 DEF Tell, SessionsTyped
<1>2. CASE p \in open
  <2> DEFINE t == [kind |-> kind, number |-> number]
  <2>1. p \in Pages /\ told[p][c] \in Seq(Tale) /\ told[p] \in [Children -> Seq(Tale)]
    BY <1>2 DEF SessionsTyped
  <2>2. Append(told[p][c], t) \in Seq(Tale)
    BY <2>1 DEF Tale
  <2>3. told' = [told EXCEPT ![p] = [told[p] EXCEPT ![c] = Append(told[p][c], t)]]
    BY <1>2, <2>1 DEF Tell, SessionsTyped
  <2> QED BY <2>1, <2>2, <2>3 DEF SessionsTyped
<1> QED BY <1>1, <1>2

\* A watcher that takes a step is a watcher.
LEMMA WatchesKeepsTypes ==
  ASSUME SessionsTyped, NEW c \in Children, NEW step \in Steps,
         watcher' = Watches(c, step) \/ watcher' = [watcher EXCEPT ![c] = NotWatched]
  PROVE  watcher' \in [Children -> Watch]
<1>1. NotWatched \in Watch
  BY DEF NotWatched, Watch, Steps
<1>2. watcher[c] \in Watch
  BY DEF SessionsTyped
<1>3. [watcher[c] EXCEPT !.at = step] \in Watch
  BY <1>2 DEF Watch
<1>4. CASE watcher' = Watches(c, step)
  <2>1. watcher' = [watcher EXCEPT ![c] = [watcher[c] EXCEPT !.at = step]]
    BY <1>4 DEF Watches, SessionsTyped
  <2> QED BY <1>3, <2>1 DEF SessionsTyped
<1>5. CASE watcher' = [watcher EXCEPT ![c] = NotWatched]
  BY <1>1, <1>5 DEF SessionsTyped
<1> QED BY <1>4, <1>5

\* The sessions have their types in every step.
LEMMA SessionsTypedKept ==
  ASSUME IInv, MessagesAreOfChildren, SessionsTyped, [Next]_vars
  PROVE  SessionsTyped'
<1>1. \A c \in Children : Retired(c) \in Channels
  BY DEF Retired, SessionsTyped, Channels
<1>2. ASSUME NEW c \in Children,
             \/ Browser(c) \/ RouteEvent(c)
             \/ TakeNotification(c) \/ TakePending(c) \/ NotifierStops(c)
             \/ OpenRaw(c) \/ CloseRaw(c) \/ LateAnswer(c)
             \/ \E kind \in Kinds : Request(c, kind) \/ Answer(c, kind) \/ GivesUp(c, kind)
      PROVE  SessionsTyped'
  <2>1. UNCHANGED <<owner, client, open, watcher, got, told>>
    BY <1>2 DEF Browser, NativeAttach, NativeDetach, NativeEvent, RouteEvent, TakeNotification,
                TakePending, NotifierStops, OpenRaw, CloseRaw, LateAnswer, Request, Answer,
                GivesUp, sessions, tasks
  <2> QED BY <2>1 DEF SessionsTyped
<1>3. ASSUME NEW c \in Children, Forward(c) PROVE SessionsTyped'
  <2>1. UNCHANGED <<owner, client, open, watcher, told>>
    BY <1>3 DEF Forward, sessions, tasks
  <2>2. got' \in [Children -> Seq(Numbered)]
    <3>1. route[c].held \in Numbered \cup {None} /\ route[c].held # None /\ got[c] \in Seq(Numbered)
      BY <1>3 DEF Forward, IInv, Typed, Route, SessionsTyped
    <3>2. Append(got[c], route[c].held) \in Seq(Numbered)
      BY <3>1
    <3>3. got' = got \/ got' = [got EXCEPT ![c] = Append(got[c], route[c].held)]
      BY <1>3 DEF Forward, SessionsTyped
    <3> QED BY <3>2, <3>3 DEF SessionsTyped
  <2> QED BY <2>1, <2>2 DEF SessionsTyped
<1>4. ASSUME NEW c \in Children, WatcherStep(c) PROVE SessionsTyped'
  <2>1. UNCHANGED <<got, open>>
    BY <1>4 DEF WatcherStep, WatcherRemoves, WatcherRetires, WatcherTells, WatcherDetaches, sessions
  <2>2. watcher' \in [Children -> Watch]
    <3>1. \E step \in Steps : watcher' = Watches(c, step) \/ watcher' = [watcher EXCEPT ![c] = NotWatched]
      BY <1>4 DEF WatcherStep, WatcherRemoves, WatcherRetires, WatcherTells, WatcherDetaches, Steps
    <3> QED BY <3>1, WatchesKeepsTypes
  <2>3. owner' \in [Children -> Pages \cup {None}]
    BY <1>4 DEF WatcherStep, WatcherRemoves, WatcherRetires, WatcherTells, WatcherDetaches, sessions,
                SessionsTyped
  <2>4. client' \in [Children -> Channels]
    BY <1>1, <1>4 DEF WatcherStep, WatcherRemoves, WatcherRetires, WatcherTells, WatcherDetaches,
                sessions, SessionsTyped
  <2>5. told' \in [Pages -> [Children -> Seq(Tale)]]
    <3>1. CASE WatcherTells(c)
      <4>1. watcher[c].number \in Nat
        BY DEF SessionsTyped, Watch
      <4> QED BY <3>1, <4>1, TellKeepsTypes DEF WatcherTells
    <3>2. CASE ~WatcherTells(c)
      BY <1>4, <3>2 DEF WatcherStep, WatcherRemoves, WatcherRetires, WatcherDetaches, SessionsTyped
    <3> QED BY <3>1, <3>2
  <2> QED BY <2>1, <2>2, <2>3, <2>4, <2>5 DEF SessionsTyped
<1>5. ASSUME NEW p \in Pages, ForwarderStep(p) PROVE SessionsTyped'
  <2>1. CASE RouteAttached(p)
    <3>1. Head(sink[p]) \in Message
      BY <2>1 DEF RouteAttached, Takes, MessagesAreOfChildren
    <3>2. UNCHANGED <<open, got, told>>
      BY <2>1 DEF RouteAttached
    <3> DEFINE c == Head(sink[p]).child
               v == [at |-> "watching", page |-> p, number |-> Head(sink[p]).number]
    <3>3. c \in Children /\ v \in Watch
      BY <3>1 DEF Message, Watch, Steps
    <3>4. \/ UNCHANGED <<owner, client, watcher>>
          \/ /\ owner' = [owner EXCEPT ![c] = p]
             /\ client' = [client EXCEPT ![c] = "open"]
             /\ watcher' = [watcher EXCEPT ![c] = v]
      BY <2>1 DEF RouteAttached
    <3> HIDE DEF c, v
    <3>5. /\ owner' \in [Children -> Pages \cup {None}] /\ client' \in [Children -> Channels]
          /\ watcher' \in [Children -> Watch]
      BY <3>3, <3>4 DEF SessionsTyped, Channels
    <3> QED BY <3>2, <3>5 DEF SessionsTyped
  <2>2. CASE RouteDetached(p)
    <3>1. Head(sink[p]) \in Message
      BY <2>2 DEF RouteDetached, Takes, MessagesAreOfChildren
    <3>2. UNCHANGED <<open, got, told>>
      BY <2>2 DEF RouteDetached
    <3> DEFINE c == Head(sink[p]).child
    <3>3. c \in Children
      BY <3>1 DEF Message
    <3>4. \/ UNCHANGED <<owner, client, watcher>>
          \/ /\ owner' = [owner EXCEPT ![c] = None]
             /\ client' = [client EXCEPT ![c] = Retired(c)]
             /\ watcher' = [watcher EXCEPT ![c] = NotWatched]
      BY <2>2 DEF RouteDetached
    <3> HIDE DEF c
    <3>5. watcher' \in [Children -> Watch]
      BY <3>3, <3>4, WatchesKeepsTypes DEF SessionsTyped, Steps
    <3>6. owner' \in [Children -> Pages \cup {None}] /\ client' \in [Children -> Channels]
      BY <1>1, <3>3, <3>4 DEF SessionsTyped
    <3> QED BY <3>2, <3>5, <3>6 DEF SessionsTyped
  <2>3. CASE RefuseAttached(p) \/ Activate(p)
    BY <2>3 DEF RefuseAttached, Activate, sessions, SessionsTyped
  <2>4. CASE Notify(p)
    <3>1. forwarder[p].msg \in Message
      <4>1. forwarder[p].at = "notify" /\ Idle.at = "idle" /\ "notify" # "idle"
        BY <2>4 DEF Notify, Idle
      <4>2. forwarder[p] \in {Idle} \cup [at : {"notify", "activate", "refuse"}, msg : Message]
        BY DEF MessagesAreOfChildren
      <4> QED BY <4>1, <4>2
    <3>2. /\ forwarder[p].msg.child \in Children /\ forwarder[p].msg.number \in Nat
          /\ forwarder[p].msg.kind \in {"attached", "detached"}
      BY <3>1 DEF Message
    <3>3. Tell(p, forwarder[p].msg.child, forwarder[p].msg.kind, forwarder[p].msg.number)
      BY <2>4 DEF Notify
    <3>4. told' \in [Pages -> [Children -> Seq(Tale)]]
      BY <3>2, <3>3, TellKeepsTypes
    <3>5. UNCHANGED <<owner, client, open, watcher, got>>
      BY <2>4 DEF Notify, sessions
    <3> QED BY <3>4, <3>5 DEF SessionsTyped
  <2> QED BY <1>5, <2>1, <2>2, <2>3, <2>4 DEF ForwarderStep
<1>6. ASSUME NEW p \in Pages, DetachPage(p) PROVE SessionsTyped'
  <2>1. NotWatched \in Watch
    BY DEF NotWatched, Watch, Steps
  <2>2. /\ owner' = [c \in Children |-> IF c \in {b \in Children : owner[b] = p} THEN None ELSE owner[c]]
        /\ client' = [c \in Children |-> IF c \in {b \in Children : owner[b] = p} THEN Retired(c) ELSE client[c]]
        /\ watcher' = [c \in Children |-> IF c \in {b \in Children : owner[b] = p} THEN NotWatched ELSE watcher[c]]
        /\ UNCHANGED <<got, told>> /\ open' = open \ {p}
    BY <1>6 DEF DetachPage
  <2>3. /\ owner' \in [Children -> Pages \cup {None}] /\ client' \in [Children -> Channels]
        /\ watcher' \in [Children -> Watch]
    BY <1>1, <2>1, <2>2 DEF SessionsTyped
  <2> QED BY <2>2, <2>3 DEF SessionsTyped
<1>7. CASE Dispose
  BY <1>7 DEF Dispose, sessions, tasks, SessionsTyped
<1>8. CASE UNCHANGED vars
  BY <1>8 DEF vars, sessions, tasks, SessionsTyped
<1> QED BY <1>2, <1>3, <1>4, <1>5, <1>6, <1>7, <1>8 DEF Next, NotifierStep

LineOf(c) ==
    Line(native[c], wire[c], route[c], owner[c], client[c], watcher[c].at, got[c], disposed)

InvLines == \A c \in Children : LineOf(c)

SameLine(c) ==
    /\ native'[c] = native[c] /\ wire'[c] = wire[c] /\ route'[c] = route[c]
    /\ owner'[c] = owner[c] /\ client'[c] = client[c] /\ watcher'[c] = watcher[c]
    /\ got'[c] = got[c]

\* A child's line is of typed records.
LEMMA LineIsTyped ==
  ASSUME IInv, SessionsTyped, NEW c \in Children
  PROVE  /\ native[c] \in Native /\ wire[c] \in Seq(Numbered) /\ route[c] \in Route
         /\ got[c] \in Seq(Numbered) /\ watcher[c] \in Watch
         /\ client[c] \in Channels /\ owner[c] \in Pages \cup {None}
         /\ disposed \in BOOLEAN
BY DEF IInv, Typed, SessionsTyped, Native

\* Initially nothing is on a line.
LEMMA LinesInitially == Init => InvLines
<1> SUFFICES ASSUME Init, NEW c \in Children PROVE LineOf(c)
  BY DEF InvLines
<1> DEFINE n == [on |-> FALSE, count |-> 0, events |-> 0]
           f == [number |-> 0, event |-> 0]
<1>1. /\ native[c] = n /\ wire[c] = <<>> /\ route[c] = NoRoute /\ owner[c] = None
      /\ client[c] = "unused" /\ watcher[c].at = "none" /\ got[c] = <<>> /\ disposed = FALSE
  BY DEF Init, NotWatched
<1>2. f \in Numbered /\ f.event = n.events /\ f.number <= n.count
  BY DEF Numbered
<1>3. ~n.on
  OBVIOUS
<1> HIDE DEF n, f
<1>4. /\ NoRoute.held = None /\ NoRoute.queue = <<>> /\ ~NoRoute.listener /\ ~NoRoute.detached
      /\ ~NoRoute.running
  BY DEF NoRoute
<1>5. Served(NoRoute, None, "unused", <<>>)
  BY <1>4 DEF Served, Unheard, Has
<1>6. Kept(NoRoute) /\ Existing(n, <<>>, NoRoute, "unused", FALSE) /\ Watching(None, "unused", "none")
  BY <1>4 DEF Kept, Existing, Watching
<1>7. Carries(<<>>, f, f)
  BY <1>2, CarriesNothing
<1>8. WireFrom(n, <<>>, f, FALSE) /\ Consecutive(<<>>) /\ ~Alive(NoRoute, None, "unused")
  BY <1>2, <1>4, <1>7 DEF WireFrom, Consecutive, Alive
<1>9. InLine(n, <<>>, NoRoute, None, "unused", <<>>, FALSE)
  BY <1>2, <1>8 DEF InLine
<1> QED BY <1>1, <1>5, <1>6, <1>9 DEF Line, LineOf

\* What leaves a child's records alone leaves its line.
LEMMA SameLineKeeps ==
  ASSUME InvLines, NEW c \in Children, SameLine(c), disposed' = disposed
  PROVE  LineOf(c)'
BY DEF InvLines, LineOf, SameLine

\* The step of one child.
LEMMA OneLineChanges ==
  ASSUME InvLines, disposed' = disposed, NEW c, \A b \in Children \ {c} : SameLine(b),
         c \in Children => LineOf(c)'
  PROVE  InvLines'
<1>1. ASSUME NEW b \in Children PROVE LineOf(b)'
  <2>1. CASE b = c
    BY <2>1
  <2>2. CASE b # c
    BY <2>2, SameLineKeeps
  <2> QED BY <2>1, <2>2
<1> QED BY <1>1 DEF InvLines

\* The browser's steps.
LEMMA BrowserKeepsLines ==
  ASSUME IInv, IInv', SessionsTyped, SessionsTyped', InvLines, NEW c \in Children,
         Browser(c)
  PROVE  InvLines'
<1>1. /\ UNCHANGED <<route, owner, client, watcher, got, disposed>>
      /\ \A b \in Children \ {c} : native'[b] = native[b] /\ wire'[b] = wire[b]
  BY DEF Browser, NativeAttach, NativeDetach, Detaches, NativeEvent, sessions, tasks, IInv, Typed
<1>2. \A b \in Children \ {c} : SameLine(b)
  BY <1>1 DEF SameLine
<1>3. /\ native[c] \in Native /\ native'[c] \in Native /\ wire[c] \in Seq(Numbered) /\ LineOf(c)
  BY LineIsTyped DEF InvLines, IInv, Typed, Native
<1>4. ASSUME NativeAttach(c) \/ NativeDetach(c) PROVE LineOf(c)'
  <2>1. /\ native'[c].events = native[c].events /\ native'[c].count >= native[c].count
        /\ disposed => (native'[c].on => native[c].on)
        /\ wire' = wire
    <3>1. native \in [Children -> Native] /\ native[c].count \in Nat
      BY <1>3 DEF IInv, Typed, Native
    <3>2. CASE NativeAttach(c)
      <4>1. native'[c] = [native[c] EXCEPT !.on = TRUE, !.count = native[c].count + 1]
        BY <3>1, <3>2 DEF NativeAttach
      <4>2. native'[c].events = native[c].events /\ native'[c].count = native[c].count + 1
        BY <1>3, <4>1 DEF Native
      <4> QED BY <3>1, <3>2, <4>2 DEF NativeAttach
    <3>3. CASE NativeDetach(c)
      <4>1. native' = [native EXCEPT ![c].on = FALSE] /\ wire' = wire
        BY <3>3 DEF NativeDetach, Detaches
      <4>2. native'[c] = [native[c] EXCEPT !.on = FALSE]
        BY <3>1, <4>1
      <4>3. native'[c].events = native[c].events /\ native'[c].count = native[c].count /\ ~native'[c].on
        BY <1>3, <4>2 DEF Native
      <4> QED BY <3>1, <4>1, <4>3
    <3> QED BY <1>4, <3>2, <3>3
  <2>2. Line(native'[c], wire[c], route[c], owner[c], client[c], watcher[c].at, got[c], disposed)
    BY <1>3, <2>1, NativeChanges DEF LineOf
  <2> QED BY <1>1, <2>1, <2>2 DEF LineOf
<1>5. ASSUME NativeEvent(c) PROVE LineOf(c)'
  <2> DEFINE e == [number |-> native[c].count, event |-> native[c].events + 1]
  <2>1. native'[c] = [native[c] EXCEPT !.events = native[c].events + 1]
    BY <1>5 DEF NativeEvent, IInv, Typed
  <2>2. /\ native[c].on /\ native'[c].events = native[c].events + 1
        /\ native'[c].count = native[c].count /\ native'[c].on = native[c].on
    BY <1>3, <1>5, <2>1 DEF NativeEvent, Live, Native
  <2>3. wire'[c] = Append(wire[c], e)
    BY <1>5, <2>2 DEF NativeEvent, IInv, Typed
  <2> HIDE DEF e
  <2>4. e = [number |-> native[c].count, event |-> native[c].events + 1]
    BY DEF e
  <2>5. Line(native'[c], Append(wire[c], e), route[c], owner[c], client[c], watcher[c].at, got[c], disposed)
    BY <1>3, <2>2, <2>4, EventIsSent DEF LineOf
  <2> QED BY <1>1, <2>3, <2>5 DEF LineOf
<1> QED BY <1>1, <1>2, <1>4, <1>5, OneLineChanges DEF Browser

\* What a child is sent on its route.
LEMMA SentToIsReached ==
  ASSUME IInv, NEW c \in Children, NEW item, NEW new, new = SentTo(c, item)
  PROVE  /\ Reached(route[c], item, new[c]) /\ \A b \in Children \ {c} : new[b] = route[b]
<1>1. route \in [Children -> Route]
  BY DEF IInv, Typed
<1>2. CASE route[c].exists
  <2>1. new = [route EXCEPT ![c] = Sent(route[c], item)]
    BY <1>1, <1>2 DEF SentTo
  <2> QED BY <1>1, <1>2, <2>1 DEF Reached
<1>3. CASE ~route[c].exists
  BY <1>1, <1>3 DEF SentTo, Reached
<1> QED BY <1>2, <1>3

\* The channel task's steps.
LEMMA RouteEventKeepsLines ==
  ASSUME IInv, SessionsTyped, InvLines, NEW c \in Children, RouteEvent(c)
  PROVE  InvLines'
<1>1. /\ UNCHANGED <<native, owner, client, watcher, got, disposed>>
      /\ wire[c] # <<>> /\ wire'[c] = Tail(wire[c])
      /\ \A b \in Children \ {c} : wire'[b] = wire[b]
      /\ route' = SentTo(c, Head(wire[c]))
  BY DEF RouteEvent, sessions, tasks, IInv, Typed
<1>2. Reached(route[c], Head(wire[c]), route'[c]) /\ \A b \in Children \ {c} : route'[b] = route[b]
  BY <1>1, SentToIsReached
<1>3. native[c] \in Native /\ wire[c] \in Seq(Numbered) /\ route[c] \in Route /\ LineOf(c)
  BY LineIsTyped DEF InvLines
<1>4. Line(native[c], Tail(wire[c]), route'[c], owner[c], client[c], watcher[c].at, got[c], disposed)
  BY <1>1, <1>2, <1>3, EventIsRouted DEF LineOf
<1>5. LineOf(c)'
  BY <1>1, <1>4 DEF LineOf
<1>6. \A b \in Children \ {c} : SameLine(b)
  BY <1>1, <1>2 DEF SameLine
<1> QED BY <1>1, <1>5, <1>6, OneLineChanges

\* The notifier's steps.
LEMMA NotifierKeepsLines ==
  ASSUME IInv, SessionsTyped, InvLines, NEW c \in Children, NotifierStep(c)
  PROVE  InvLines'
<1>1. /\ UNCHANGED <<native, wire, owner, client, watcher, disposed>>
      /\ \A b \in Children \ {c} : route'[b] = route[b] /\ got'[b] = got[b]
  BY DEF NotifierStep, TakeNotification, TakePending, Forward, NotifierStops, browser, sessions, tasks,
         IInv, Typed, SessionsTyped
<1>2. \A b \in Children \ {c} : SameLine(b)
  BY <1>1 DEF SameLine
<1>3. /\ native[c] \in Native /\ wire[c] \in Seq(Numbered) /\ route[c] \in Route /\ LineOf(c)
      /\ got[c] \in Seq(Numbered) /\ route \in [Children -> Route]
  BY LineIsTyped DEF InvLines, IInv, Typed
<1>4. ASSUME TakeNotification(c) PROVE LineOf(c)'
  <2>1. got' = got /\ Notified(route[c], route'[c])
    BY <1>3, <1>4 DEF TakeNotification, Notifier, Notified
  <2>2. Line(native[c], wire[c], route'[c], owner[c], client[c], watcher[c].at, got[c], disposed)
    BY <1>3, <2>1, NotificationIsTaken DEF LineOf
  <2> QED BY <1>1, <2>1, <2>2 DEF LineOf
<1>5. ASSUME TakePending(c) PROVE LineOf(c)'
  <2>1. got' = got /\ Handed(route[c], route'[c])
    BY <1>3, <1>5 DEF TakePending, Notifier, Handed
  <2>2. Line(native[c], wire[c], route'[c], owner[c], client[c], watcher[c].at, got[c], disposed)
    BY <1>3, <2>1, PendingIsTaken DEF LineOf
  <2> QED BY <1>1, <2>1, <2>2 DEF LineOf
<1>6. ASSUME Forward(c) PROVE LineOf(c)'
  <2>1. /\ route[c].held # None /\ route'[c] = [route[c] EXCEPT !.held = None]
        /\ got'[c] = IF owner[c] # None /\ client[c] = "open" THEN Append(got[c], route[c].held) ELSE got[c]
    BY <1>3, <1>6 DEF Forward, SessionsTyped
  <2>2. Line(native[c], wire[c], route'[c], owner[c], client[c], watcher[c].at, got'[c], disposed)
    BY <1>3, <2>1, EventIsForwarded DEF LineOf
  <2> QED BY <1>1, <2>2 DEF LineOf
<1>7. ASSUME NotifierStops(c) PROVE LineOf(c)'
  <2>1. got' = got /\ route[c].running /\ route'[c] = [route[c] EXCEPT !.running = FALSE, !.held = None]
    BY <1>3, <1>7 DEF NotifierStops
  <2>2. Line(native[c], wire[c], route'[c], owner[c], client[c], watcher[c].at, got[c], disposed)
    BY <1>3, <2>1, NotifierIsStopped DEF LineOf
  <2> QED BY <1>1, <2>1, <2>2 DEF LineOf
<1> QED BY <1>1, <1>2, <1>4, <1>5, <1>6, <1>7, OneLineChanges DEF NotifierStep

\* A session is accepted on a route that is there or is made for it.
LEMMA RouteAttachedKeepsLines ==
  ASSUME IInv, MessagesAreOfChildren, SessionsTyped, InvLines, NEW p \in Pages, RouteAttached(p)
  PROVE  InvLines'
<1>0. PICK c : c = Head(sink[p]).child
  OBVIOUS
<1>1. c \in Children
  <2>1. Head(sink[p]) \in Message
    BY DEF RouteAttached, Takes, MessagesAreOfChildren
  <2> QED BY <1>0, <2>1 DEF Message
<1>2. /\ UNCHANGED <<native, wire, got, disposed>>
      /\ \/ UNCHANGED <<route, owner, client, watcher>>
         \/ /\ route' = Ensured(c) /\ UNCHANGED <<owner, client, watcher>>
         \/ /\ route' = Ensured(c) /\ Ensurable(c) /\ owner[c] = None /\ client[c] = "unused"
            /\ owner' = [owner EXCEPT ![c] = p]
            /\ client' = [client EXCEPT ![c] = "open"]
            /\ watcher' = [watcher EXCEPT ![c] =
                  [at |-> "watching", page |-> p, number |-> Head(sink[p]).number]]
  BY <1>0 DEF RouteAttached, browser
<1>3. \A b \in Children \ {c} : SameLine(b)
  BY <1>1, <1>2 DEF SameLine, Ensured, IInv, Typed, SessionsTyped
<1>4. /\ native[c] \in Native /\ wire[c] \in Seq(Numbered) /\ route[c] \in Route /\ LineOf(c)
      /\ got[c] \in Seq(Numbered)
  BY <1>1, LineIsTyped DEF InvLines
<1>5. CASE UNCHANGED <<route, owner, client, watcher>>
  BY <1>1, <1>2, <1>3, <1>5, SameLineKeeps, OneLineChanges DEF SameLine
<1>6. ASSUME route' = Ensured(c)
      PROVE  /\ Line(native[c], wire[c], route'[c], owner[c], client[c], watcher[c].at, got[c], disposed)
             /\ Ensurable(c) => route'[c].exists
  <2>1. CASE Ensurable(c) /\ ~route[c].exists
    <3>1. ~disposed /\ route'[c] = [NoRoute EXCEPT !.exists = TRUE, !.running = TRUE]
      BY <1>1, <1>6, <2>1 DEF Ensured, Ensurable, IInv, Typed
    <3> QED BY <1>4, <2>1, <3>1, RouteIsMade DEF LineOf
  <2>2. CASE ~(Ensurable(c) /\ ~route[c].exists)
    <3>1. route' = route
      BY <1>6, <2>2 DEF Ensured
    <3> QED BY <1>4, <2>2, <3>1 DEF LineOf
  <2> QED BY <2>1, <2>2
<1>7. CASE route' = Ensured(c) /\ UNCHANGED <<owner, client, watcher>>
  <2>1. LineOf(c)'
    BY <1>2, <1>6, <1>7 DEF LineOf
  <2> QED BY <1>2, <1>3, <2>1, OneLineChanges
<1>8. CASE /\ route' = Ensured(c) /\ Ensurable(c) /\ owner[c] = None /\ client[c] = "unused"
           /\ owner' = [owner EXCEPT ![c] = p]
           /\ client' = [client EXCEPT ![c] = "open"]
           /\ watcher' = [watcher EXCEPT ![c] =
                 [at |-> "watching", page |-> p, number |-> Head(sink[p]).number]]
  <2>1. owner'[c] = p /\ client'[c] = "open" /\ watcher'[c].at = "watching" /\ p # None
    BY <1>1, <1>8, NoneAssumption DEF SessionsTyped, NoneAssumption
  <2>2. Line(native[c], wire[c], route'[c], None, "unused", watcher[c].at, got[c], disposed) /\ route'[c].exists
    BY <1>6, <1>8
  <2>3. Line(native[c], wire[c], route'[c], p, "open", "watching", got[c], disposed)
    BY <2>1, <2>2, SessionIsAccepted
  <2>4. LineOf(c)'
    BY <1>2, <2>1, <2>3 DEF LineOf
  <2> QED BY <1>2, <1>3, <2>4, OneLineChanges
<1> QED BY <1>2, <1>5, <1>7, <1>8

\* The end of a session pauses its route.
LEMMA RouteDetachedKeepsLines ==
  ASSUME IInv, MessagesAreOfChildren, SessionsTyped, InvLines, NEW p \in Pages, RouteDetached(p)
  PROVE  InvLines'
<1>0. PICK c : c = Head(sink[p]).child
  OBVIOUS
<1>1. c \in Children
  <2>1. Head(sink[p]) \in Message
    BY DEF RouteDetached, Takes, MessagesAreOfChildren
  <2> QED BY <1>0, <2>1 DEF Message
<1>2. /\ UNCHANGED <<native, wire, got, disposed>>
      /\ route' = [SentTo(c, Pause) EXCEPT ![c].synthetic = FALSE]
      /\ IF owner[c] = None THEN UNCHANGED <<owner, client, watcher>>
         ELSE /\ owner' = [owner EXCEPT ![c] = None]
              /\ client' = [client EXCEPT ![c] = Retired(c)]
              /\ watcher' = [watcher EXCEPT ![c] = NotWatched]
  BY <1>0 DEF RouteDetached, browser
<1>3. Paused(route[c], route'[c]) /\ \A b \in Children \ {c} : route'[b] = route[b]
  BY <1>1, <1>2 DEF SentTo, Paused, IInv, Typed
<1>4. \A b \in Children \ {c} : SameLine(b)
  BY <1>2, <1>3 DEF SameLine, SessionsTyped
<1>5. /\ native[c] \in Native /\ wire[c] \in Seq(Numbered) /\ route[c] \in Route /\ LineOf(c)
  BY <1>1, LineIsTyped DEF InvLines
<1>6. IF owner[c] = None
      THEN Line(native[c], wire[c], route'[c], None, client[c], watcher[c].at, got[c], disposed)
      ELSE Line(native[c], wire[c], route'[c], None, "retired", "none", got[c], disposed)
  BY <1>3, <1>5, PauseIsQueued DEF LineOf
<1>7. CASE owner[c] = None
  <2>1. LineOf(c)'
    BY <1>2, <1>6, <1>7 DEF LineOf
  <2> QED BY <1>2, <1>4, <2>1, OneLineChanges
<1>8. CASE owner[c] # None
  <2>1. client[c] = "open"
    BY <1>5, <1>8 DEF LineOf, Line, Served
  <2>2. owner'[c] = None /\ client'[c] = "retired" /\ watcher'[c].at = "none"
    BY <1>1, <1>2, <1>8, <2>1 DEF Retired, NotWatched, SessionsTyped
  <2>3. LineOf(c)'
    BY <1>2, <1>6, <1>8, <2>2 DEF LineOf
  <2> QED BY <1>2, <1>4, <2>3, OneLineChanges
<1> QED BY <1>7, <1>8

\* A message about a child is of a child.
LEMMA ForwarderIsTyped ==
  ASSUME MessagesAreOfChildren, NEW p \in Pages, forwarder[p].at \in {"notify", "activate", "refuse"}
  PROVE  forwarder[p].msg \in Message
<1>1. Idle.at = "idle" /\ "idle" \notin {"notify", "activate", "refuse"}
  BY DEF Idle
<1>2. forwarder[p] \in {Idle} \cup [at : {"notify", "activate", "refuse"}, msg : Message]
  BY DEF MessagesAreOfChildren
<1> QED BY <1>1, <1>2

\* Detaching a child loses no event.
LEMMA DetachesKeepsLines ==
  ASSUME IInv, IInv', SessionsTyped, InvLines, NEW c \in Children, AskedToDetach(c),
         UNCHANGED <<wire, route, got, disposed>>,
         \A b \in Children \ {c} : owner'[b] = owner[b] /\ client'[b] = client[b] /\ watcher'[b] = watcher[b],
         Line(native[c], wire[c], route[c], owner'[c], client'[c], watcher'[c].at, got[c], disposed)
  PROVE  InvLines'
<1>1. /\ native[c] \in Native /\ native'[c] \in Native
      /\ native'[c].events = native[c].events /\ native'[c].count >= native[c].count
      /\ native'[c].on => native[c].on
      /\ \A b \in Children \ {c} : native'[b] = native[b]
  <2>1. native \in [Children -> Native] /\ native[c] \in Native /\ native'[c] \in Native
        /\ native[c].count \in Nat
    BY DEF IInv, Typed, Native
  <2>2. CASE native' = native
    BY <2>1, <2>2
  <2>3. CASE native' = [native EXCEPT ![c].on = FALSE]
    <3>1. native'[c] = [native[c] EXCEPT !.on = FALSE] /\ \A b \in Children \ {c} : native'[b] = native[b]
      BY <2>1, <2>3
    <3>2. native'[c].events = native[c].events /\ native'[c].count = native[c].count /\ ~native'[c].on
      BY <2>1, <3>1 DEF Native
    <3> QED BY <2>1, <3>1, <3>2
  <2> QED BY <2>2, <2>3 DEF AskedToDetach, Detaches
<1>2. Line(native'[c], wire[c], route[c], owner'[c], client'[c], watcher'[c].at, got[c], disposed)
  BY <1>1, NativeChanges
<1>3. LineOf(c)'
  BY <1>2 DEF LineOf
<1>4. \A b \in Children \ {c} : SameLine(b)
  BY <1>1 DEF SameLine
<1> QED BY <1>3, <1>4, OneLineChanges

\* The steps of a page session's event task.
LEMMA ForwarderKeepsLines ==
  ASSUME IInv, IInv', MessagesAreOfChildren, SessionsTyped, InvLines, NEW p \in Pages, ForwarderStep(p)
  PROVE  InvLines'
<1>1. CASE RefuseAttached(p)
  <2>0. PICK c : c = forwarder[p].msg.child
    OBVIOUS
  <2>1. c \in Children
    BY <1>1, <2>0, ForwarderIsTyped DEF RefuseAttached, Message
  <2>2. AskedToDetach(c) /\ UNCHANGED <<wire, route, owner, client, watcher, got, disposed>>
    BY <1>1, <2>0 DEF RefuseAttached, sessions
  <2>3. Line(native[c], wire[c], route[c], owner'[c], client'[c], watcher'[c].at, got[c], disposed)
    BY <2>1, <2>2 DEF InvLines, LineOf
  <2> QED BY <2>1, <2>2, <2>3, DetachesKeepsLines
<1>2. CASE Notify(p)
  <2>1. UNCHANGED <<native, wire, route, owner, client, watcher, got, disposed>>
    BY <1>2 DEF Notify, browser, sessions
  <2> QED BY <2>1, SameLineKeeps DEF InvLines, SameLine
<1>3. CASE Activate(p)
  <2>0. PICK c : c = forwarder[p].msg.child
    OBVIOUS
  <2>1. c \in Children
    BY <1>3, <2>0, ForwarderIsTyped DEF Activate, Message
  <2>2. /\ UNCHANGED <<native, wire, owner, client, watcher, got, disposed>>
        /\ route' = IF owner[c] = None THEN route ELSE SentTo(c, Listen)
    BY <1>3, <2>0 DEF Activate, browser, sessions
  <2>3. CASE owner[c] = None
    BY <2>2, <2>3, SameLineKeeps DEF InvLines, SameLine
  <2>4. CASE owner[c] # None
    <3>1. Reached(route[c], Listen, route'[c]) /\ \A b \in Children \ {c} : route'[b] = route[b]
      BY <2>1, <2>2, <2>4, SentToIsReached
    <3>2. native[c] \in Native /\ wire[c] \in Seq(Numbered) /\ route[c] \in Route /\ LineOf(c)
      BY <2>1, LineIsTyped DEF InvLines
    <3>3. Line(native[c], wire[c], route'[c], owner[c], client[c], watcher[c].at, got[c], disposed)
      BY <2>4, <3>1, <3>2, ListenIsQueued DEF LineOf
    <3>4. LineOf(c)' /\ \A b \in Children \ {c} : SameLine(b)
      BY <2>2, <3>1, <3>3 DEF LineOf, SameLine
    <3> QED BY <2>2, <3>4, OneLineChanges
  <2> QED BY <2>3, <2>4
<1> QED BY <1>1, <1>2, <1>3, RouteAttachedKeepsLines, RouteDetachedKeepsLines DEF ForwarderStep

\* The watcher's steps.
LEMMA WatcherKeepsLines ==
  ASSUME IInv, IInv', SessionsTyped, InvLines, NEW c \in Children, WatcherStep(c)
  PROVE  InvLines'
<1>1. LineOf(c) /\ route[c] \in Route /\ watcher[c] \in Watch
  BY LineIsTyped DEF InvLines
<1>2. CASE WatcherRemoves(c)
  <2>1. /\ watcher[c].at = "watching" /\ "watching" # "none" /\ "retire" # "watching"
        /\ UNCHANGED <<native, wire, client, got, disposed>>
        /\ owner'[c] = None /\ watcher'[c].at = "retire"
        /\ \A b \in Children \ {c} : owner'[b] = owner[b] /\ watcher'[b] = watcher[b] /\ route'[b] = route[b]
        /\ route'[c] = route[c] \/ route'[c] = [route[c] EXCEPT !.synthetic = TRUE]
    BY <1>1, <1>2 DEF WatcherRemoves, Watches, Watch, browser, IInv, Typed, SessionsTyped
  <2>2. Kept(route'[c]) /\ route'[c].exists = route[c].exists
    BY <1>1, <2>1 DEF LineOf, Line, Kept, Route
  <2>3. client[c] # "unused"
    BY <1>1, <2>1 DEF LineOf, Line, Watching
  <2>4. Line(native[c], wire[c], route'[c], None, client[c], "retire", got[c], disposed)
    BY <1>1, <2>1, <2>2, <2>3, SessionIsEnded DEF LineOf
  <2>5. LineOf(c)' /\ \A b \in Children \ {c} : SameLine(b)
    BY <2>1, <2>4 DEF LineOf, SameLine
  <2> QED BY <2>1, <2>5, OneLineChanges
<1>3. CASE WatcherRetires(c) \/ WatcherTells(c)
  <2>1. /\ watcher[c].at # "none"
        /\ UNCHANGED <<native, wire, route, owner, got, disposed>>
        /\ watcher'[c].at # "watching" /\ watcher[c].at \in {"retire", "tell"}
        /\ \A b \in Children \ {c} : client'[b] = client[b] /\ watcher'[b] = watcher[b]
        /\ client'[c] = client[c] \/ client'[c] = Retired(c)
    BY <1>1, <1>3 DEF WatcherRetires, WatcherTells, Watches, Watch, browser, sessions, IInv, Typed, SessionsTyped
  <2>2. Kept(route[c]) /\ owner[c] = None /\ client'[c] # "unused"
    BY <1>1, <2>1 DEF LineOf, Line, Watching, Retired
  <2>3. Line(native[c], wire[c], route[c], None, client'[c], watcher'[c].at, got[c], disposed)
    BY <1>1, <2>1, <2>2, SessionIsEnded DEF LineOf
  <2>4. LineOf(c)' /\ \A b \in Children \ {c} : SameLine(b)
    BY <2>1, <2>2, <2>3 DEF LineOf, SameLine
  <2> QED BY <2>1, <2>4, OneLineChanges
<1>4. CASE WatcherDetaches(c)
  <2>1. /\ watcher[c].at = "detach" /\ "detach" # "none" /\ "none" # "watching" /\ AskedToDetach(c)
        /\ UNCHANGED <<wire, route, owner, client, got, disposed>>
        /\ watcher'[c].at = "none" /\ \A b \in Children \ {c} : watcher'[b] = watcher[b]
    BY <1>4 DEF WatcherDetaches, sessions, NotWatched, SessionsTyped
  <2>2. Kept(route[c]) /\ owner[c] = None /\ client[c] # "unused"
    BY <1>1, <2>1 DEF LineOf, Line, Watching
  <2>3. Line(native[c], wire[c], route[c], None, client[c], "none", got[c], disposed)
    BY <1>1, <2>1, <2>2, SessionIsEnded DEF LineOf
  <2>4. Line(native[c], wire[c], route[c], owner'[c], client'[c], watcher'[c].at, got[c], disposed)
    BY <2>1, <2>2, <2>3
  <2> QED BY <2>1, <2>4, DetachesKeepsLines
<1> QED BY <1>2, <1>3, <1>4 DEF WatcherStep

\* The end of a page session, and of the endpoint.
LEMMA PageAndEndpointKeepLines ==
  ASSUME IInv, SessionsTyped, InvLines,
         (\E p \in Pages : DetachPage(p)) \/ Dispose
  PROVE  InvLines'
<1>1. ASSUME NEW p \in Pages, DetachPage(p) PROVE InvLines'
  <2>1. /\ UNCHANGED <<native, wire, route, got, disposed>>
        /\ \A c \in Children :
              IF owner[c] = p
              THEN owner'[c] = None /\ client'[c] = Retired(c) /\ watcher'[c] = NotWatched
              ELSE owner'[c] = owner[c] /\ client'[c] = client[c] /\ watcher'[c] = watcher[c]
    BY <1>1 DEF DetachPage, browser
  <2>2. p # None
    BY NoneAssumption DEF NoneAssumption
  <2>3. ASSUME NEW c \in Children PROVE LineOf(c)'
    <3>1. CASE owner[c] = p
      <4>1. LineOf(c) /\ client[c] = "open" /\ Kept(route[c])
        BY <2>2, <3>1 DEF InvLines, LineOf, Line, Served
      <4>2. owner'[c] = None /\ client'[c] = "retired" /\ watcher'[c].at = "none"
        BY <2>1, <3>1, <4>1 DEF Retired, NotWatched
      <4>3. "retired" # "unused" /\ "none" # "watching" /\ owner[c] # None
        BY <2>2, <3>1
      <4>4. Line(native[c], wire[c], route[c], None, "retired", "none", got[c], disposed)
        BY <4>1, <4>3, SessionIsEnded DEF LineOf
      <4> QED BY <2>1, <4>2, <4>4 DEF LineOf
    <3>2. CASE owner[c] # p
      BY <2>1, <3>2, SameLineKeeps DEF SameLine
    <3> QED BY <3>1, <3>2
  <2> QED BY <2>3 DEF InvLines
<1>2. CASE Dispose
  <2>1. /\ UNCHANGED <<owner, client, watcher, got>> /\ disposed = FALSE /\ disposed' = TRUE
        /\ \A c \in Children : /\ wire'[c] = <<>> /\ ~native'[c].on
                               /\ route'[c] = [route[c] EXCEPT !.exists = FALSE]
    BY <1>2 DEF Dispose, sessions, tasks, IInv, Typed
  <2>2. ASSUME NEW c \in Children PROVE LineOf(c)'
    <3>1. native[c] \in Native /\ route[c] \in Route /\ LineOf(c)
      BY LineIsTyped DEF InvLines
    <3>2. Line(native'[c], <<>>, route'[c], owner[c], client[c], watcher[c].at, got[c], TRUE)
      BY <2>1, <3>1, EndpointIsClosed DEF LineOf
    <3> QED BY <2>1, <3>2 DEF LineOf
  <2> QED BY <2>2 DEF InvLines
<1> QED BY <1>1, <1>2

\* Requests and raw sessions leave the line of events alone.
LEMMA RequestsKeepLines ==
  ASSUME IInv, SessionsTyped, InvLines, NEW c \in Children,
         \/ OpenRaw(c) \/ CloseRaw(c) \/ LateAnswer(c)
         \/ \E kind \in Kinds : Request(c, kind) \/ Answer(c, kind) \/ GivesUp(c, kind)
  PROVE  InvLines'
<1>1. UNCHANGED <<native, wire, owner, client, watcher, got, disposed>>
  BY DEF OpenRaw, CloseRaw, LateAnswer, Request, Answer, GivesUp, browser, sessions, tasks
<1>2. native[c] \in Native /\ route[c] \in Route /\ LineOf(c) /\ route \in [Children -> Route]
  BY LineIsTyped DEF InvLines, IInv, Typed
<1>3. CASE route' = route
  BY <1>1, <1>3, SameLineKeeps DEF SameLine, InvLines
<1>4. ASSUME ~disposed => route[c].exists, Marked(route[c], route'[c]),
             \A b \in Children \ {c} : route'[b] = route[b]
      PROVE  InvLines'
  <2>1. Line(native[c], wire[c], route'[c], owner[c], client[c], watcher[c].at, got[c], disposed)
    BY <1>2, <1>4, RouteIsMarked DEF LineOf
  <2>2. LineOf(c)' /\ \A b \in Children \ {c} : SameLine(b)
    BY <1>1, <1>4, <2>1 DEF LineOf, SameLine
  <2> QED BY <1>1, <2>2, OneLineChanges
<1>5. CASE OpenRaw(c)
  <2> DEFINE s == IF route[c].exists THEN route[c] ELSE [NoRoute EXCEPT !.exists = TRUE, !.running = TRUE]
  <2>1. ~disposed /\ route' = [Ensured(c) EXCEPT ![c].active = TRUE] /\ Ensurable(c)
    BY <1>5 DEF OpenRaw, Ensurable
  <2>2. s \in Route /\ s.exists
    <3>1. [NoRoute EXCEPT !.exists = TRUE, !.running = TRUE] \in Route
      BY UnroutedIsUnmarked DEF Route
    <3>2. [NoRoute EXCEPT !.exists = TRUE, !.running = TRUE].exists
      BY DEF NoRoute
    <3> QED BY <1>2, <3>1, <3>2
  <2>3. Line(native[c], wire[c], s, owner[c], client[c], watcher[c].at, got[c], disposed)
    <3>1. CASE route[c].exists
      BY <1>2, <3>1 DEF LineOf
    <3>2. CASE ~route[c].exists
      <4>1. s = [NoRoute EXCEPT !.exists = TRUE, !.running = TRUE]
        BY <3>2
      <4> HIDE DEF s
      <4> QED BY <1>2, <2>1, <3>2, <4>1, RouteIsMade DEF LineOf
    <3> QED BY <3>1, <3>2
  <2>4. route'[c] = [s EXCEPT !.active = TRUE] /\ \A b \in Children \ {c} : route'[b] = route[b]
    <3>1. Ensured(c) = [route EXCEPT ![c] = s]
      BY <1>2, <2>1 DEF Ensured
    <3> HIDE DEF s
    <3> QED BY <1>2, <2>1, <3>1
  <2> HIDE DEF s
  <2>5. Marked(s, route'[c])
    BY <2>2, <2>4 DEF Marked, Route
  <2>6. Line(native[c], wire[c], route'[c], owner[c], client[c], watcher[c].at, got[c], disposed)
    BY <2>2, <2>3, <2>5, RouteIsMarked
  <2>7. LineOf(c)' /\ \A b \in Children \ {c} : SameLine(b)
    BY <1>1, <2>4, <2>6 DEF LineOf, SameLine
  <2> QED BY <1>1, <2>7, OneLineChanges
<1>6. CASE CloseRaw(c)
  <2>1. route[c].active /\ route' = [route EXCEPT ![c] = [route[c] EXCEPT !.active = FALSE]]
    BY <1>2, <1>6 DEF CloseRaw
  <2>2. ~disposed => route[c].exists
    BY <1>2, <2>1 DEF LineOf, Line, Existing, NoRoute
  <2>3. Marked(route[c], route'[c]) /\ \A b \in Children \ {c} : route'[b] = route[b]
    BY <1>2, <2>1 DEF Marked, Route
  <2> QED BY <1>4, <2>2, <2>3
<1>7. ASSUME NEW kind \in Kinds, Request(c, kind) PROVE InvLines'
  <2>1. route[c].exists
    BY <1>7 DEF Request
  <2>2. \/ route' = [route EXCEPT ![c] = [route[c] EXCEPT !.failed = TRUE]]
        \/ route' = [route EXCEPT ![c] = [route[c] EXCEPT !.unresolved = route[c].unresolved + 1]]
    BY <1>2, <1>7 DEF Request
  <2>3. Marked(route[c], route'[c]) /\ \A b \in Children \ {c} : route'[b] = route[b]
    <3>1. CASE route' = [route EXCEPT ![c] = [route[c] EXCEPT !.failed = TRUE]]
      BY <1>2, <3>1 DEF Marked, Route
    <3>2. CASE route' = [route EXCEPT ![c] = [route[c] EXCEPT !.unresolved = route[c].unresolved + 1]]
      BY <1>2, <3>2 DEF Marked, Route
    <3> QED BY <2>2, <3>1, <3>2
  <2> QED BY <1>4, <2>1, <2>3
<1>8. ASSUME NEW kind \in Kinds, Answer(c, kind) PROVE InvLines'
  <2>1. calls[c][kind] > 0 /\ ~disposed
    BY <1>8 DEF Answer
  <2>2. route[c].exists
    <3>1. kind \in {"raw", "client"}
      BY DEF Kinds
    <3> QED BY <2>1, <3>1 DEF IInv, UnroutedHasNoCalls
  <2>3. route' = [route EXCEPT ![c] = [route[c] EXCEPT !.unresolved = route[c].unresolved - 1]]
    BY <1>2, <1>8 DEF Answer
  <2>4. Marked(route[c], route'[c]) /\ \A b \in Children \ {c} : route'[b] = route[b]
    BY <1>2, <2>3 DEF Marked, Route
  <2> QED BY <1>4, <2>2, <2>4
<1>9. LateAnswer(c) => route' = route
  BY DEF LateAnswer
<1>10. \A kind \in Kinds : GivesUp(c, kind) => route' = route
  BY DEF GivesUp
<1> QED BY <1>3, <1>5, <1>6, <1>7, <1>8, <1>9, <1>10

\* Every step keeps the lines.
LEMMA LinesKept ==
  ASSUME IInv, IInv', MessagesAreOfChildren, SessionsTyped, SessionsTyped', InvLines, [Next]_vars
  PROVE  InvLines'
<1>1. ASSUME NEW c \in Children, Browser(c) \/ RouteEvent(c) \/ NotifierStep(c) \/ WatcherStep(c)
      PROVE  InvLines'
  BY <1>1, BrowserKeepsLines, RouteEventKeepsLines, NotifierKeepsLines, WatcherKeepsLines
<1>2. ASSUME NEW c \in Children,
             \/ OpenRaw(c) \/ CloseRaw(c) \/ LateAnswer(c)
             \/ \E kind \in Kinds : Request(c, kind) \/ Answer(c, kind) \/ GivesUp(c, kind)
      PROVE  InvLines'
  BY <1>2, RequestsKeepLines
<1>3. ASSUME NEW p \in Pages, ForwarderStep(p) PROVE InvLines'
  BY <1>3, ForwarderKeepsLines
<1>4. CASE (\E p \in Pages : DetachPage(p)) \/ Dispose
  BY <1>4, PageAndEndpointKeepLines
<1>5. CASE UNCHANGED vars
  BY <1>5, SameLineKeeps DEF vars, browser, sessions, tasks, InvLines, SameLine
<1> QED BY <1>1, <1>2, <1>3, <1>4, <1>5 DEF Next

\* Events that follow each other have no hole between them.
LEMMA ConsecutiveIsContiguous ==
  ASSUME NEW s \in Seq(Numbered), Consecutive(s), NEW i \in 1..Len(s) - 1
  PROVE  /\ s[i].number = s[i + 1].number => s[i + 1].event = s[i].event + 1
         /\ s[i].number # s[i + 1].number => s[i].number < s[i + 1].number
<1>1. PICK x, z \in Numbered : Carries(s, x, z)
  BY DEF Consecutive
<1>2. PICK h \in [0..Len(s) -> Numbered] :
        h[0] = x /\ h[Len(s)] = z /\ \A j \in 1..Len(s) : Passes(h[j - 1], s[j], h[j])
  BY <1>1 DEF Carries
<1>3. Len(s) \in Nat /\ i \in 1..Len(s) /\ i + 1 \in 1..Len(s) /\ (i + 1) - 1 = i /\ i \in Nat
  OBVIOUS
<1>4. s[i] \in Numbered /\ s[i + 1] \in Numbered
  BY <1>3
<1>5. Listen \notin Numbered /\ Pause \notin Numbered
  BY ItemsAre
<1>6. Passes(h[i - 1], s[i], h[i]) /\ Passes(h[(i + 1) - 1], s[i + 1], h[i + 1])
  BY <1>2, <1>3
<1>7. h[i] = s[i]
  BY <1>4, <1>5, <1>6 DEF Passes
<1>8. s[i + 1].event = s[i].event + 1 /\ s[i].number <= s[i + 1].number
  BY <1>3, <1>4, <1>5, <1>6, <1>7 DEF Passes
<1>9. s[i].number \in Nat /\ s[i + 1].number \in Nat
  BY <1>4 DEF Numbered
<1> QED BY <1>8, <1>9

SessionInv == IInv /\ MessagesAreOfChildren /\ SessionsTyped /\ InvLines

(* On its way from the browser to the client the line of a child's events  *)
(* has no hole, and a session that was ended opens its line to nobody.     *)
THEOREM LinesInvariance == Spec => []SessionInv
<1>1. Init => SessionInv
  BY Initially, SessionsTypedInitially, LinesInitially, MessagesInitially DEF SessionInv
<1>2. SessionInv /\ [Next]_vars => SessionInv'
  BY StepKeeps, MessagesKept, SessionsTypedKept, LinesKept DEF SessionInv
<1> QED BY <1>1, <1>2, PTL DEF Spec

(* What a client gets of an attachment has no hole, whatever fails, is     *)
(* paused, ended or attached again on the way, and for any number of page  *)
(* sessions on the endpoint.                                               *)
THEOREM ContiguousEvents == Spec => []EventsAreContiguous
<1>1. SessionInv => EventsAreContiguous
  <2> SUFFICES ASSUME SessionInv, NEW c \in Children, NEW i \in 1..Len(got[c]) - 1
               PROVE  LET e == got[c][i]
                          f == got[c][i + 1]
                      IN IF e.number = f.number THEN f.event = e.event + 1
                                                ELSE e.number < f.number
    BY DEF EventsAreContiguous
  <2>1. got[c] \in Seq(Numbered)
    BY DEF SessionInv, SessionsTyped
  <2>2. Consecutive(got[c])
    BY DEF SessionInv, InvLines, LineOf, Line, InLine
  <2>3. /\ got[c][i].number = got[c][i + 1].number => got[c][i + 1].event = got[c][i].event + 1
        /\ got[c][i].number # got[c][i + 1].number => got[c][i].number < got[c][i + 1].number
    BY <2>1, <2>2, ConsecutiveIsContiguous
  <2> QED BY <2>3
<1> QED BY <1>1, LinesInvariance, PTL

-----------------------------------------------------------------------------
(* What a page session is told                                             *)

\* The endpoint has no second page session.
OnePage == \A p, q \in Pages : p = q

\* The route has a listener for the child's client, or will have it.
Listening(r) == r.listener \/ Has(r.queue, Listen)

\* s is r with no listener and no mark that r does not have.
SameMark(r, s) == s.synthetic = r.synthetic /\ (Listening(s) => Listening(r))

InvOpen ==
    /\ \A c \in Children : owner[c] # None => owner[c] \in open
    /\ \A p \in Pages : p \notin open => forwarder[p] = Idle

Withdraws(f) == f.at = "refuse" \/ (f.at = "notify" /\ f.msg.kind = "detached")

\* The event task is at a message about the child.
Handles(p, c) == forwarder[p] # Idle /\ forwarder[p].msg.child = c

InvAnnounced ==
    \A p \in Pages, c \in Children : Handles(p, c) =>
        /\ forwarder[p].at = "activate" => owner[c] = None \/ ToldAttached(p, c)
        /\ Withdraws(forwarder[p]) => owner[c] = None

InvListeners ==
    \A c \in Children : owner[c] # None /\ Listening(route[c]) =>
        \E p \in open : ToldAttached(p, c)

\* An event that is sent makes no listener.
LEMMA ReachedKeepsMark ==
  ASSUME NEW r \in Route, NEW item \in Items, NEW s, Reached(r, item, s)
  PROVE  /\ s.synthetic = r.synthetic /\ s.exists = r.exists
         /\ item # Listen => (Listening(s) => Listening(r))
<1>1. r.queue \in Seq(Items)
  BY DEF Route, Items
<1>2. Lengthened(r.queue, item, Append(r.queue, item))
  BY <1>1, AppendedHas
<1>3. CASE r.exists
  <2>0. s = Sent(r, item)
    BY <1>3 DEF Reached
  <2>1. /\ s.exists = r.exists /\ s.listener = r.listener /\ s.synthetic = r.synthetic
        /\ s.queue = r.queue \/ s.queue = Append(r.queue, item)
    BY <2>0, SentFields
  <2>2. Has(Append(r.queue, item), Listen) => Has(r.queue, Listen) \/ item = Listen
    BY <1>2 DEF Lengthened
  <2>3. ASSUME item # Listen, Listening(s) PROVE Listening(r)
    <3>1. CASE s.queue = r.queue
      BY <2>1, <2>3, <3>1 DEF Listening
    <3>2. CASE s.queue = Append(r.queue, item)
      BY <2>1, <2>2, <2>3, <3>2 DEF Listening
    <3> QED BY <2>1, <3>1, <3>2
  <2> QED BY <2>1, <2>3
<1>4. CASE ~r.exists
  BY <1>4 DEF Reached
<1> QED BY <1>3, <1>4

\* A pause makes no listener, and takes the mark away.
LEMMA PausedMark ==
  ASSUME NEW r \in Route, NEW s, Paused(r, s)
  PROVE  ~s.synthetic /\ (Listening(s) => Listening(r))
<1> DEFINE q == IF r.exists THEN Sent(r, Pause) ELSE r
<1>1. Pause \in Items /\ Pause # Listen
  BY ItemsAre DEF Items
<1>2. Reached(r, Pause, q)
  BY DEF Reached
<1>3. q \in Route
  <2>1. CASE r.exists
    <3>1. Sent(r, Pause) \in {r, [r EXCEPT !.failed = TRUE], [r EXCEPT !.queue = Append(r.queue, Pause)]}
      BY DEF Sent
    <3>2. Append(r.queue, Pause) \in Seq(Numbered \cup {Listen, Pause})
      BY DEF Route
    <3> QED BY <2>1, <3>1, <3>2 DEF Route
  <2>2. CASE ~r.exists
    BY <2>2
  <2> QED BY <2>1, <2>2
<1> HIDE DEF q
<1>4. s = [q EXCEPT !.synthetic = FALSE]
  BY DEF Paused, q
<1>5. ~s.synthetic /\ s.listener = q.listener /\ s.queue = q.queue
  BY <1>3, <1>4 DEF Route
<1>6. Listening(q) => Listening(r)
  BY <1>1, <1>2, ReachedKeepsMark
<1> QED BY <1>5, <1>6 DEF Listening

\* The notifier finds its listener in the queue.
LEMMA NotifiedKeepsMark ==
  ASSUME NEW r \in Route, NEW s, Notified(r, s)
  PROVE  SameMark(r, s)
<1>1. r.queue # <<>> /\ r.queue \in Seq(Items)
  BY DEF Notified, Route, Items
<1>2. /\ s.queue = Tail(r.queue)
      /\ HeardListen(r, s) \/ HeardPause(r, s) \/ HeardEvent(r, s)
  BY HeardCases
<1>3. /\ \A x : Has(Tail(r.queue), x) => Has(r.queue, x)
      /\ Has(r.queue, Head(r.queue))
  BY <1>1, TailHas
<1>4. Listening(s) => Listening(r)
  BY <1>2, <1>3 DEF Listening, HeardListen, HeardPause, HeardEvent
<1>5. s.synthetic = r.synthetic
  <2> DEFINE t == [r EXCEPT !.queue = Tail(@)]
             h == Head(r.queue)
  <2>1. s = Heard(t, h) /\ h \in Numbered \cup {Listen, Pause}
    BY <1>1 DEF Notified, Items
  <2>2. t \in Route /\ t.synthetic = r.synthetic
    <3>1. Tail(r.queue) \in Seq(Numbered \cup {Listen, Pause})
      BY <1>1 DEF Items
    <3> QED BY <3>1 DEF Route
  <2>3. Listen \notin Numbered /\ Pause \notin Numbered /\ Listen # Pause
    BY ItemsAre
  <2> HIDE DEF t, h
  <2>4. Heard(t, h) \in {t, [t EXCEPT !.listener = TRUE, !.detached = FALSE],
                         [t EXCEPT !.listener = FALSE, !.detached = TRUE, !.pending = <<>>],
                         [t EXCEPT !.held = h], [t EXCEPT !.failed = TRUE, !.running = FALSE],
                         [t EXCEPT !.pending = Append(t.pending, h)]}
    <3>1. CASE h = Listen
      BY <2>3, <3>1 DEF Heard
    <3>2. CASE h = Pause
      BY <2>3, <3>2 DEF Heard
    <3>3. CASE h \notin {Listen, Pause}
      BY <3>3 DEF Heard
    <3> QED BY <3>1, <3>2, <3>3
  <2>5. Heard(t, h).synthetic = t.synthetic
    BY <2>2, <2>4 DEF Route
  <2> QED BY <2>1, <2>2, <2>5
<1> QED BY <1>4, <1>5 DEF SameMark

\* A route that is made has neither listener nor mark.
LEMMA EnsuredKeepsMark ==
  ASSUME IInv, InvLines, NEW c \in Children, NEW new, new = Ensured(c)
  PROVE  SameMark(route[c], new[c]) /\ \A b \in Children \ {c} : new[b] = route[b]
<1>1. route \in [Children -> Route]
  BY DEF IInv, Typed
<1>2. CASE Ensurable(c) /\ ~route[c].exists
  <2>1. route[c] = NoRoute
    BY <1>2 DEF Ensurable, InvLines, LineOf, Line, Existing
  <2>2. new = [route EXCEPT ![c] = [NoRoute EXCEPT !.exists = TRUE, !.running = TRUE]]
    BY <1>2 DEF Ensured
  <2>3. new[c] = [NoRoute EXCEPT !.exists = TRUE, !.running = TRUE] /\ \A b \in Children \ {c} : new[b] = route[b]
    BY <1>1, <2>2
  <2>4. new[c].synthetic = FALSE /\ NoRoute.synthetic = FALSE /\ ~new[c].listener /\ new[c].queue = <<>>
    BY <2>3 DEF NoRoute
  <2> QED BY <2>1, <2>3, <2>4 DEF SameMark, Listening, Has
<1>3. CASE ~(Ensurable(c) /\ ~route[c].exists)
  BY <1>3 DEF Ensured, SameMark
<1> QED BY <1>2, <1>3

\* Steps that no page session notices.
Unnoticed ==
    /\ UNCHANGED <<native, sink, owner, client, watcher, forwarder, open, told, disposed>>
    /\ \A c \in Children : SameMark(route[c], route'[c])

\* The channel task, the notifier and the requests are not noticed.
LEMMA UnnoticedSteps ==
  ASSUME IInv, SessionsTyped, InvLines, NEW c \in Children,
         \/ RouteEvent(c) \/ NotifierStep(c)
         \/ OpenRaw(c) \/ CloseRaw(c) \/ LateAnswer(c)
         \/ \E kind \in Kinds : Request(c, kind) \/ Answer(c, kind) \/ GivesUp(c, kind)
  PROVE  Unnoticed
<1>1. UNCHANGED <<native, sink, owner, client, watcher, forwarder, open, told, disposed>>
  BY DEF RouteEvent, NotifierStep, TakeNotification, TakePending, Forward, NotifierStops,
         OpenRaw, CloseRaw, LateAnswer, Request, Answer, GivesUp, browser, sessions, tasks
<1>2. route[c] \in Route /\ route \in [Children -> Route]
  BY DEF IInv, Typed
<1>3. \A r : SameMark(r, r)
  BY DEF SameMark
<1>4. ASSUME SameMark(route[c], route'[c]), \A b \in Children \ {c} : route'[b] = route[b]
      PROVE  \A b \in Children : SameMark(route[b], route'[b])
  BY <1>3, <1>4
<1>5. CASE RouteEvent(c)
  <2>1. Reached(route[c], Head(wire[c]), route'[c]) /\ \A b \in Children \ {c} : route'[b] = route[b]
    BY <1>5, SentToIsReached DEF RouteEvent
  <2>2. Head(wire[c]) \in Items /\ Head(wire[c]) # Listen
    BY <1>5, ItemsAre DEF RouteEvent, IInv, Typed
  <2> QED BY <1>1, <1>2, <1>4, <2>1, <2>2, ReachedKeepsMark DEF SameMark, Unnoticed
<1>6. CASE TakeNotification(c)
  <2>1. Notified(route[c], route'[c]) /\ \A b \in Children \ {c} : route'[b] = route[b]
    BY <1>2, <1>6 DEF TakeNotification, Notifier, Notified
  <2> QED BY <1>1, <1>2, <1>4, <2>1, NotifiedKeepsMark DEF Unnoticed
<1>7. CASE TakePending(c) \/ Forward(c) \/ NotifierStops(c)
  <2>1. /\ route'[c].synthetic = route[c].synthetic /\ route'[c].listener = route[c].listener
        /\ route'[c].queue = route[c].queue
        /\ \A b \in Children \ {c} : route'[b] = route[b]
    BY <1>2, <1>7 DEF TakePending, Forward, NotifierStops, Route
  <2> QED BY <1>1, <1>4, <2>1 DEF SameMark, Listening, Unnoticed
<1>8. CASE OpenRaw(c)
  <2> DEFINE new == Ensured(c)
  <2>1. SameMark(route[c], new[c]) /\ \A b \in Children \ {c} : new[b] = route[b]
    BY EnsuredKeepsMark
  <2>2. new \in [Children -> Route]
    <3>1. [NoRoute EXCEPT !.exists = TRUE, !.running = TRUE] \in Route
      BY UnroutedIsUnmarked DEF Route
    <3> QED BY <1>2, <3>1 DEF Ensured
  <2>3. route' = [new EXCEPT ![c].active = TRUE]
    BY <1>8 DEF OpenRaw
  <2> HIDE DEF new
  <2>4. /\ route'[c].synthetic = new[c].synthetic /\ route'[c].listener = new[c].listener
        /\ route'[c].queue = new[c].queue
        /\ \A b \in Children \ {c} : route'[b] = new[b]
    BY <2>2, <2>3 DEF Route
  <2> QED BY <1>1, <1>4, <2>1, <2>4 DEF SameMark, Listening, Unnoticed
<1>9. CASE CloseRaw(c) \/ \E kind \in Kinds : Request(c, kind) \/ Answer(c, kind)
  <2>1. /\ route'[c].synthetic = route[c].synthetic /\ route'[c].listener = route[c].listener
        /\ route'[c].queue = route[c].queue
        /\ \A b \in Children \ {c} : route'[b] = route[b]
    BY <1>2, <1>9 DEF CloseRaw, Request, Answer, Route
  <2> QED BY <1>1, <1>4, <2>1 DEF SameMark, Listening, Unnoticed
<1>10. CASE LateAnswer(c) \/ \E kind \in Kinds : GivesUp(c, kind)
  BY <1>1, <1>3, <1>10 DEF LateAnswer, GivesUp, Unnoticed
<1> QED BY <1>5, <1>6, <1>7, <1>8, <1>9, <1>10 DEF NotifierStep

PageInv == InvOpen /\ InvAnnounced /\ InvListeners

\* The page session, if it is there, is told of the child, and of nothing else.
IsTold(p, c, kind, number) ==
    /\ p \in open =>
          /\ told'[p][c] = Append(told[p][c], [kind |-> kind, number |-> number])
          /\ told'[p][c] # <<>> /\ Last(told'[p][c]).kind = kind
    /\ p \notin open => told' = told
    /\ \A q \in Pages, b \in Children : q # p \/ b # c => told'[q][b] = told[q][b]

\* What is told is told last, and to nobody else.
LEMMA ToldLast ==
  ASSUME SessionsTyped, NEW p \in Pages, NEW c \in Children, NEW kind, NEW number,
         Tell(p, c, kind, number)
  PROVE  IsTold(p, c, kind, number)
<1>1. /\ told \in [Pages -> [Children -> Seq(Tale)]] /\ told[p] \in [Children -> Seq(Tale)]
      /\ told[p][c] \in Seq(Tale)
  BY DEF SessionsTyped
<1>2. CASE p \notin open
  BY <1>2 DEF Tell, IsTold
<1>3. CASE p \in open
  <2> DEFINE t == [kind |-> kind, number |-> number]
             s == Append(told[p][c], t)
  <2>1. told' = [told EXCEPT ![p][c] = s]
    BY <1>3 DEF Tell
  <2>2. told'[p] = [told[p] EXCEPT ![c] = s] /\ \A q \in Pages : q # p => told'[q] = told[q]
    BY <1>1, <2>1
  <2>3. told'[p][c] = s /\ \A b \in Children : b # c => told'[p][b] = told[p][b]
    BY <1>1, <2>2
  <2>4. s # <<>> /\ Last(s).kind = kind
    <3>1. Len(told[p][c]) \in Nat
      BY <1>1
    <3>2. Len(s) = Len(told[p][c]) + 1 /\ s[Len(told[p][c]) + 1] = t
      BY <1>1
    <3>3. Len(<<>>) = 0 /\ t.kind = kind
      OBVIOUS
    <3> HIDE DEF s, t
    <3>4. s # <<>>
      BY <3>1, <3>2, <3>3
    <3>5. Last(s) = t
      BY <3>2 DEF Last
    <3> QED BY <3>3, <3>4, <3>5
  <2> HIDE DEF s
  <2> QED BY <1>3, <2>2, <2>3, <2>4 DEF s, IsTold
<1> QED BY <1>2, <1>3

\* Steps that touch neither sessions nor what is told.
LEMMA UntoldKeepsPages ==
  ASSUME PageInv, UNCHANGED <<owner, forwarder, open, told>>,
         \A c \in Children : Listening(route'[c]) => Listening(route[c])
  PROVE  PageInv'
<1>1. InvOpen'
  BY DEF PageInv, InvOpen
<1>2. InvAnnounced'
  BY DEF PageInv, InvAnnounced, Handles, Withdraws, ToldAttached
<1>3. InvListeners'
  BY DEF PageInv, InvListeners, ToldAttached
<1> QED BY <1>1, <1>2, <1>3 DEF PageInv

\* An accepted session has no listener before its event task makes one.
LEMMA RouteAttachedKeepsPages ==
  ASSUME OnePage, SessionInv, PageInv, NEW p \in Pages, RouteAttached(p)
  PROVE  PageInv'
<1>0. IInv /\ MessagesAreOfChildren /\ SessionsTyped /\ InvLines
  BY DEF SessionInv
<1>1. PICK msg : msg = Head(sink[p])
  OBVIOUS
<1>2. msg \in Message /\ msg.child \in Children
  <2>1. sink[p] \in Seq(Message) /\ sink[p] # <<>>
    BY <1>0 DEF RouteAttached, Takes, MessagesAreOfChildren
  <2>2. msg \in Message
    BY <1>1, <2>1
  <2> QED BY <2>2 DEF Message
<1>3. PICK c \in Children : c = msg.child
  BY <1>2
<1>4. /\ p \in open /\ msg.kind = "attached" /\ open' = open /\ told' = told
      /\ forwarder[p] = Idle
  BY <1>1 DEF RouteAttached, Takes
<1>5. \/ /\ forwarder' = At(p, "notify", msg) /\ UNCHANGED <<route, owner>>
      \/ /\ forwarder' = At(p, "notify", msg) /\ route' = Ensured(c)
         /\ owner' = [owner EXCEPT ![c] = p] /\ owner[c] = None /\ client[c] = "unused"
      \/ /\ forwarder' = At(p, "refuse", msg) /\ route' = Ensured(c)
         /\ owner' = owner /\ owner[c] = None
  BY <1>1, <1>3 DEF RouteAttached
<1>6. \A b \in Children : Listening(route'[b]) => Listening(route[b])
  <2>1. route' = route \/ route' = Ensured(c)
    BY <1>5
  <2> QED BY <1>0, <2>1, EnsuredKeepsMark DEF SameMark
<1>7. \A q \in Pages : q = p
  BY DEF OnePage
<1>8. /\ forwarder \in [Pages -> {Idle} \cup [at : {"notify", "activate", "refuse"}, msg : Message]]
      /\ owner \in [Children -> Pages \cup {None}]
  BY <1>0 DEF MessagesAreOfChildren, SessionsTyped
<1>9. InvOpen'
  BY <1>4, <1>5, <1>7, <1>8 DEF PageInv, InvOpen
<1>10. InvAnnounced'
  <2> SUFFICES ASSUME NEW q \in Pages, NEW b \in Children, Handles(q, b)'
               PROVE  /\ forwarder'[q].at # "activate"
                      /\ Withdraws(forwarder[q])' => owner'[b] = None
    BY DEF InvAnnounced
  <2>1. q = p
    BY <1>7
  <2>2. CASE forwarder' = At(p, "notify", msg)
    <3>1. forwarder'[p] = [at |-> "notify", msg |-> msg]
      BY <1>8, <2>2 DEF At
    <3> QED BY <1>4, <2>1, <3>1 DEF Withdraws
  <2>3. CASE forwarder' = At(p, "refuse", msg) /\ owner' = owner /\ owner[c] = None
    <3>1. forwarder'[p] = [at |-> "refuse", msg |-> msg]
      BY <1>8, <2>3 DEF At
    <3>2. b = c
      BY <1>3, <2>1, <3>1 DEF Handles
    <3> QED BY <2>1, <2>3, <3>1, <3>2
  <2> QED BY <1>5, <2>2, <2>3
<1>11. InvListeners'
  <2> SUFFICES ASSUME NEW b \in Children, owner'[b] # None, Listening(route'[b])
               PROVE  \E q \in open : ToldAttached(q, b)
    BY <1>4 DEF InvListeners, ToldAttached
  <2>1. Listening(route[b])
    BY <1>6
  <2>2. owner[b] # None
    <3>1. SUFFICES ASSUME b = c, owner[c] = None, client[c] = "unused" PROVE FALSE
      BY <1>5, <1>8
    <3>2. Unheard(route[c], got[c])
      BY <1>0, <3>1 DEF InvLines, LineOf, Line, Served
    <3> QED BY <2>1, <3>1, <3>2 DEF Unheard, Listening
  <2> QED BY <2>1, <2>2 DEF PageInv, InvListeners
<1> QED BY <1>9, <1>10, <1>11 DEF PageInv

\* A session that ended has no owner while its end is told.
LEMMA RouteDetachedKeepsPages ==
  ASSUME OnePage, SessionInv, PageInv, NEW p \in Pages, RouteDetached(p)
  PROVE  PageInv'
<1>0. IInv /\ MessagesAreOfChildren /\ SessionsTyped /\ InvLines
  BY DEF SessionInv
<1>1. PICK msg : msg = Head(sink[p])
  OBVIOUS
<1>2. msg \in Message /\ msg.child \in Children
  <2>1. sink[p] \in Seq(Message) /\ sink[p] # <<>>
    BY <1>0 DEF RouteDetached, Takes, MessagesAreOfChildren
  <2>2. msg \in Message
    BY <1>1, <2>1
  <2> QED BY <2>2 DEF Message
<1>3. PICK c \in Children : c = msg.child
  BY <1>2
<1>4. /\ p \in open /\ open' = open /\ told' = told
      /\ route' = [SentTo(c, Pause) EXCEPT ![c].synthetic = FALSE]
      /\ forwarder' = forwarder \/ forwarder' = At(p, "notify", msg)
      /\ owner' = owner \/ owner' = [owner EXCEPT ![c] = None]
      /\ owner[c] = None => owner' = owner
      /\ owner[c] # None => owner' = [owner EXCEPT ![c] = None]
      /\ forwarder[p] = Idle
  BY <1>1, <1>3 DEF RouteDetached, Takes
<1>5. Paused(route[c], route'[c]) /\ \A b \in Children \ {c} : route'[b] = route[b]
  BY <1>0, <1>4 DEF SentTo, Paused, IInv, Typed
<1>6. \A b \in Children : Listening(route'[b]) => Listening(route[b])
  <2>1. route[c] \in Route
    BY <1>0 DEF IInv, Typed
  <2> QED BY <1>5, <2>1, PausedMark
<1>7. /\ forwarder \in [Pages -> {Idle} \cup [at : {"notify", "activate", "refuse"}, msg : Message]]
      /\ owner \in [Children -> Pages \cup {None}]
  BY <1>0 DEF MessagesAreOfChildren, SessionsTyped
<1>8. /\ owner'[c] = None /\ \A b \in Children : owner'[b] = owner[b] \/ owner'[b] = None
  BY <1>4, <1>7
<1>9. InvOpen'
  <2>1. \A b \in Children : owner'[b] # None => owner'[b] \in open'
    BY <1>4, <1>8 DEF PageInv, InvOpen
  <2>2. \A q \in Pages : q \notin open' => forwarder'[q] = Idle
    BY <1>4, <1>7 DEF PageInv, InvOpen, At
  <2> QED BY <2>1, <2>2 DEF InvOpen
<1>10. InvAnnounced'
  <2> SUFFICES ASSUME NEW q \in Pages, NEW b \in Children, Handles(q, b)'
               PROVE  /\ forwarder'[q].at # "activate"
                      /\ Withdraws(forwarder[q])' => owner'[b] = None
    BY DEF InvAnnounced
  <2>1. q = p
    BY DEF OnePage
  <2>2. forwarder' = At(p, "notify", msg)
    BY <1>4, <2>1 DEF Handles
  <2>3. forwarder'[p] = [at |-> "notify", msg |-> msg]
    BY <1>7, <2>2 DEF At
  <2>4. b = c
    BY <1>3, <2>1, <2>3 DEF Handles
  <2> QED BY <1>8, <2>1, <2>3, <2>4
<1>11. InvListeners'
  BY <1>4, <1>6, <1>8 DEF PageInv, InvListeners, ToldAttached
<1> QED BY <1>9, <1>10, <1>11 DEF PageInv

\* The rest of the event task's steps.
LEMMA NotifyKeepsPages ==
  ASSUME OnePage, SessionInv, PageInv, NEW p \in Pages,
         RefuseAttached(p) \/ Notify(p) \/ Activate(p)
  PROVE  PageInv'
<1>0. IInv /\ MessagesAreOfChildren /\ SessionsTyped /\ InvLines
  BY DEF SessionInv
<1>1. forwarder[p].at \in {"notify", "activate", "refuse"} /\ Idle.at = "idle" /\ "idle" \notin {"notify", "activate", "refuse"}
  BY DEF RefuseAttached, Notify, Activate, Idle
<1>2. PICK msg \in Message : msg = forwarder[p].msg
  BY <1>0, <1>1, ForwarderIsTyped
<1>3. PICK c \in Children : c = msg.child
  BY <1>2 DEF Message
<1>4. forwarder[p] # Idle /\ Handles(p, c)
  BY <1>1, <1>2, <1>3 DEF Handles
<1>5. p \in open
  BY <1>4 DEF PageInv, InvOpen
<1>6. \A q \in Pages : q = p
  BY DEF OnePage
<1>7. /\ forwarder \in [Pages -> {Idle} \cup [at : {"notify", "activate", "refuse"}, msg : Message]]
      /\ owner \in [Children -> Pages \cup {None}]
  BY <1>0 DEF MessagesAreOfChildren, SessionsTyped
<1>8. UNCHANGED <<owner, open>>
  BY DEF RefuseAttached, Notify, Activate, sessions
<1>9. InvOpen'
  <2>1. \A q \in Pages : q \in open
    BY <1>5, <1>6
  <2> QED BY <1>8, <2>1 DEF PageInv, InvOpen
<1>10. CASE RefuseAttached(p)
  <2> DEFINE new == [msg EXCEPT !.kind = "detached"]
  <2>1. new.child = c
    BY <1>2, <1>3 DEF Message
  <2>2. forwarder' = At(p, "notify", new) /\ UNCHANGED <<route, told>>
    BY <1>2, <1>10 DEF RefuseAttached
  <2> HIDE DEF new
  <2>3. forwarder'[p] = [at |-> "notify", msg |-> new]
    BY <1>7, <2>2 DEF At
  <2>4. owner[c] = None
    BY <1>4, <1>10 DEF PageInv, InvAnnounced, Withdraws, RefuseAttached
  <2>5. InvAnnounced'
    <3> SUFFICES ASSUME NEW q \in Pages, NEW b \in Children, Handles(q, b)'
                 PROVE  /\ forwarder'[q].at # "activate"
                        /\ Withdraws(forwarder[q])' => owner'[b] = None
      BY DEF InvAnnounced
    <3>1. q = p /\ b = c
      BY <1>6, <2>1, <2>3 DEF Handles
    <3> QED BY <1>8, <2>3, <2>4, <3>1
  <2>6. InvListeners'
    BY <1>8, <2>2 DEF PageInv, InvListeners, ToldAttached
  <2> QED BY <1>9, <2>5, <2>6 DEF PageInv
<1>11. CASE Notify(p)
  <2>1. /\ Tell(p, c, msg.kind, msg.number) /\ UNCHANGED route
        /\ forwarder' = IF msg.kind = "attached" THEN At(p, "activate", msg)
                        ELSE [forwarder EXCEPT ![p] = Idle]
    BY <1>2, <1>3, <1>11 DEF Notify
  <2>2. /\ told'[p][c] # <<>> /\ Last(told'[p][c]).kind = msg.kind
        /\ \A b \in Children : b # c => told'[p][b] = told[p][b]
    <3>1. IsTold(p, c, msg.kind, msg.number)
      BY <1>0, <2>1, ToldLast
    <3> QED BY <1>5, <3>1 DEF IsTold
  <2>3. CASE msg.kind = "attached"
    <3>1. ToldAttached(p, c)' /\ \A b \in Children : ToldAttached(p, b) => ToldAttached(p, b)'
      BY <2>2, <2>3 DEF ToldAttached
    <3>2. forwarder'[p] = [at |-> "activate", msg |-> msg]
      BY <1>7, <2>1, <2>3 DEF At
    <3>3. InvAnnounced'
      <4> SUFFICES ASSUME NEW q \in Pages, NEW b \in Children, Handles(q, b)'
                   PROVE  ToldAttached(q, b)' /\ ~Withdraws(forwarder[q])'
        BY DEF InvAnnounced
      <4>1. q = p /\ b = c
        BY <1>3, <1>6, <3>2 DEF Handles
      <4> QED BY <3>1, <3>2, <4>1 DEF Withdraws
    <3>4. InvListeners'
      <4> SUFFICES ASSUME NEW b \in Children, owner[b] # None, Listening(route[b])
                   PROVE  \E q \in open : ToldAttached(q, b)'
        BY <1>8, <2>1 DEF InvListeners
      <4>1. PICK q \in open : ToldAttached(q, b)
        BY DEF PageInv, InvListeners
      <4>2. q = p
        BY <1>0, <1>6 DEF SessionsTyped
      <4> QED BY <3>1, <4>1, <4>2
    <3> QED BY <1>9, <3>3, <3>4 DEF PageInv
  <2>4. CASE msg.kind # "attached"
    <3>1. owner[c] = None
      <4>1. msg.kind = "detached"
        BY <1>2, <2>4 DEF Message
      <4>2. Withdraws(forwarder[p])
        BY <1>2, <1>11, <4>1 DEF Withdraws, Notify
      <4> QED BY <1>4, <4>2 DEF PageInv, InvAnnounced
    <3>2. forwarder'[p] = Idle
      BY <1>7, <2>1, <2>4
    <3>3. InvAnnounced'
      BY <1>6, <3>2 DEF InvAnnounced, Handles
    <3>4. InvListeners'
      <4> SUFFICES ASSUME NEW b \in Children, owner[b] # None, Listening(route[b])
                   PROVE  \E q \in open : ToldAttached(q, b)'
        BY <1>8, <2>1 DEF InvListeners
      <4>1. PICK q \in open : ToldAttached(q, b)
        BY DEF PageInv, InvListeners
      <4>2. q = p /\ b # c
        BY <1>0, <1>6, <3>1 DEF SessionsTyped
      <4>3. told'[p][b] = told[p][b]
        BY <2>2, <4>2
      <4> QED BY <4>1, <4>2, <4>3 DEF ToldAttached
    <3> QED BY <1>9, <3>3, <3>4 DEF PageInv
  <2> QED BY <2>3, <2>4
<1>12. CASE Activate(p)
  <2>1. /\ route' = IF owner[c] = None THEN route ELSE SentTo(c, Listen)
        /\ forwarder' = [forwarder EXCEPT ![p] = Idle] /\ told' = told
    BY <1>2, <1>3, <1>12 DEF Activate
  <2>2. InvAnnounced'
    BY <1>6, <1>7, <2>1 DEF InvAnnounced, Handles
  <2>3. \A b \in Children \ {c} : route'[b] = route[b]
    BY <1>0, <2>1, SentToIsReached
  <2>4. owner[c] # None => ToldAttached(p, c)
    BY <1>4, <1>12 DEF PageInv, InvAnnounced, Activate
  <2>5. InvListeners'
    BY <1>5, <1>8, <2>1, <2>3, <2>4 DEF PageInv, InvListeners, ToldAttached
  <2> QED BY <1>9, <2>2, <2>5 DEF PageInv
<1> QED BY <1>10, <1>11, <1>12

\* The watcher's steps.
LEMMA WatcherKeepsPages ==
  ASSUME OnePage, SessionInv, PageInv, NEW c \in Children, WatcherStep(c)
  PROVE  PageInv'
<1>0. IInv /\ MessagesAreOfChildren /\ SessionsTyped /\ InvLines
  BY DEF SessionInv
<1>1. owner \in [Children -> Pages \cup {None}] /\ watcher[c] \in Watch
  BY <1>0 DEF SessionsTyped
<1>2. CASE WatcherRemoves(c)
  <2>1. /\ UNCHANGED <<forwarder, open, told>> /\ owner' = [owner EXCEPT ![c] = None]
        /\ \A b \in Children : Listening(route'[b]) => Listening(route[b])
    BY <1>0, <1>2 DEF WatcherRemoves, Listening, IInv, Typed, Route
  <2>2. \A b \in Children : owner'[b] = owner[b] \/ owner'[b] = None
    BY <1>1, <2>1
  <2>3. InvOpen'
    BY <2>1, <2>2 DEF PageInv, InvOpen
  <2>4. InvAnnounced'
    BY <2>1, <2>2 DEF PageInv, InvAnnounced, Handles, Withdraws, ToldAttached
  <2>5. InvListeners'
    BY <2>1, <2>2 DEF PageInv, InvListeners, ToldAttached
  <2> QED BY <2>3, <2>4, <2>5 DEF PageInv
<1>3. CASE WatcherRetires(c) \/ WatcherDetaches(c)
  <2>1. UNCHANGED <<owner, route, forwarder, open, told>>
    BY <1>3 DEF WatcherRetires, WatcherDetaches, sessions
  <2> QED BY <2>1, UntoldKeepsPages
<1>4. CASE WatcherTells(c)
  <2>1. /\ UNCHANGED <<owner, route, forwarder, open>>
        /\ Tell(watcher[c].page, c, "detached", watcher[c].number)
    BY <1>4 DEF WatcherTells, sessions
  <2>2. owner[c] = None
    BY <1>0, <1>4 DEF WatcherTells, InvLines, LineOf, Line, Watching
  <2>3. \A q \in Pages, b \in Children : b # c => told'[q][b] = told[q][b]
    <3>1. CASE watcher[c].page \in Pages
      <4>1. IsTold(watcher[c].page, c, "detached", watcher[c].number)
        BY <1>0, <2>1, <3>1, ToldLast
      <4> QED BY <4>1 DEF IsTold
    <3>2. CASE watcher[c].page \notin Pages
      BY <1>0, <2>1, <3>2 DEF Tell, SessionsTyped
    <3> QED BY <3>1, <3>2
  <2>4. \A q \in Pages, b \in Children : b # c => (ToldAttached(q, b)' <=> ToldAttached(q, b))
    BY <2>3 DEF ToldAttached
  <2>5. InvOpen'
    BY <2>1 DEF PageInv, InvOpen
  <2>6. InvAnnounced'
    BY <2>1, <2>2, <2>4 DEF PageInv, InvAnnounced, Handles, Withdraws
  <2>7. InvListeners'
    BY <1>0, <2>1, <2>2, <2>4 DEF PageInv, InvListeners, SessionsTyped
  <2> QED BY <2>5, <2>6, <2>7 DEF PageInv
<1> QED BY <1>2, <1>3, <1>4 DEF WatcherStep

\* Every step keeps what a page session is told of its children.
LEMMA PagesKept ==
  ASSUME OnePage, SessionInv, PageInv, [Next]_vars
  PROVE  PageInv'
<1>0. IInv /\ MessagesAreOfChildren /\ SessionsTyped /\ InvLines
  BY DEF SessionInv
<1>1. ASSUME Unnoticed PROVE PageInv'
  BY <1>1, UntoldKeepsPages DEF Unnoticed, SameMark
<1>2. ASSUME NEW c \in Children,
             \/ RouteEvent(c) \/ NotifierStep(c)
             \/ OpenRaw(c) \/ CloseRaw(c) \/ LateAnswer(c)
             \/ \E kind \in Kinds : Request(c, kind) \/ Answer(c, kind) \/ GivesUp(c, kind)
      PROVE  PageInv'
  BY <1>0, <1>1, <1>2, UnnoticedSteps
<1>3. ASSUME NEW c \in Children, Browser(c) PROVE PageInv'
  <2>1. UNCHANGED <<owner, route, forwarder, open, told>>
    BY <1>3 DEF Browser, NativeAttach, NativeDetach, NativeEvent, sessions, tasks
  <2> QED BY <2>1, UntoldKeepsPages
<1>4. ASSUME NEW p \in Pages, ForwarderStep(p) PROVE PageInv'
  BY <1>4, RouteAttachedKeepsPages, RouteDetachedKeepsPages, NotifyKeepsPages DEF ForwarderStep
<1>5. ASSUME NEW p \in Pages, DetachPage(p) PROVE PageInv'
  <2>1. /\ open' = open \ {p} /\ forwarder' = [forwarder EXCEPT ![p] = Idle]
        /\ \A c \in Children : IF owner[c] = p THEN owner'[c] = None ELSE owner'[c] = owner[c]
    BY <1>5 DEF DetachPage
  <2>2. /\ forwarder \in [Pages -> {Idle} \cup [at : {"notify", "activate", "refuse"}, msg : Message]]
        /\ owner \in [Children -> Pages \cup {None}]
    BY <1>0 DEF MessagesAreOfChildren, SessionsTyped
  <2>3. \A c \in Children : owner'[c] = None
    BY <2>1, <2>2 DEF OnePage
  <2>4. \A q \in Pages : forwarder'[q] = Idle
    BY <2>1, <2>2 DEF OnePage
  <2> QED BY <2>3, <2>4 DEF PageInv, InvOpen, InvAnnounced, InvListeners, Handles
<1>6. CASE Dispose
  <2>1. UNCHANGED <<owner, forwarder, open, told>>
    BY <1>6 DEF Dispose, sessions, tasks
  <2>2. \A c \in Children : Listening(route'[c]) => Listening(route[c])
    BY <1>0, <1>6 DEF Dispose, Listening, IInv, Typed, Route
  <2> QED BY <2>1, <2>2, UntoldKeepsPages
<1>7. CASE UNCHANGED vars
  <2>1. UNCHANGED <<owner, forwarder, open, told, route>>
    BY <1>7 DEF vars, sessions, tasks
  <2> QED BY <2>1, UntoldKeepsPages
<1> QED BY <1>2, <1>3, <1>4, <1>5, <1>6, <1>7, WatcherKeepsPages DEF Next

\* At first nobody is told anything.
LEMMA PagesInitially == Init => PageInv
<1> SUFFICES ASSUME Init PROVE PageInv
  OBVIOUS
<1>1. \A c \in Children : owner[c] = None
  BY DEF Init
<1>2. \A p \in Pages : forwarder[p] = Idle
  BY DEF Init
<1> QED BY <1>1, <1>2 DEF PageInv, InvOpen, InvAnnounced, InvListeners, Handles

(* On a target with one page session no event of a child reaches the       *)
(* client before the page session was told that the child is attached, or  *)
(* after it was told that it is detached: the listener is only made after  *)
(* the attach event is sent, and the route is paused before the detach     *)
(* event is (route_attached, route_detached).                              *)
THEOREM EventsAreWithinAttachments ==
  OnePage => (Spec => EventsWithinAttachment)
<1> SUFFICES ASSUME OnePage PROVE Spec => EventsWithinAttachment
  OBVIOUS
<1>1. Init => SessionInv /\ PageInv
  BY Initially, SessionsTypedInitially, LinesInitially, MessagesInitially, PagesInitially DEF SessionInv
<1>2. SessionInv /\ PageInv /\ [Next]_vars => SessionInv' /\ PageInv'
  BY StepKeeps, MessagesKept, SessionsTypedKept, LinesKept, PagesKept DEF SessionInv
<1>3. SessionInv /\ PageInv /\ [Next]_vars =>
         [\A c \in Children : got[c]' # got[c] => \E p \in open : ToldAttached(p, c)]_vars
  <2> SUFFICES ASSUME SessionInv, PageInv, [Next]_vars, NEW c \in Children, got[c]' # got[c]
               PROVE  \E p \in open : ToldAttached(p, c)
    OBVIOUS
  <2>1. Forward(c)
    <3>1. \A b \in Children : Forward(b) => b = c
      BY DEF Forward, SessionInv, SessionsTyped
    <3>2. got' # got
      OBVIOUS
    <3> QED BY <3>1, <3>2 DEF Next, Browser, NativeAttach, NativeDetach, NativeEvent, RouteEvent,
               NotifierStep, TakeNotification, TakePending, NotifierStops,
               WatcherStep, WatcherRemoves, WatcherRetires, WatcherTells, WatcherDetaches,
               OpenRaw, CloseRaw, LateAnswer, Request, Answer, GivesUp,
               ForwarderStep, RouteAttached, RouteDetached, RefuseAttached, Notify, Activate,
               DetachPage, Dispose, vars
  <2>2. owner[c] # None /\ route[c].held # None
    BY <2>1 DEF Forward, SessionInv, SessionsTyped
  <2>3. Opened(route[c], got[c])
    BY <2>2 DEF SessionInv, InvLines, LineOf, Line, Served
  <2>4. Listening(route[c])
    BY <2>2, <2>3 DEF Opened, Listening
  <2> QED BY <2>2, <2>4 DEF PageInv, InvListeners
<1> QED BY <1>1, <1>2, <1>3, PTL DEF Spec, EventsWithinAttachment

-----------------------------------------------------------------------------
(* The order of the messages about a child                                 *)

Before(m, k) ==
    m.number < k.number \/ (m.number = k.number /\ m.kind = "attached" /\ k.kind = "detached")

\* The message says something new of a child whose attachment n is known.
After(m, n) == m.number > n \/ (m.number = n /\ m.kind = "detached")

\* The page session, its event task or the child's watcher know of attachment n.
Seen(p, c, n) ==
    \/ \E i \in DOMAIN told[p][c] : told[p][c][i].number = n
    \/ Handles(p, c) /\ forwarder[p].msg.number = n
    \/ watcher[c].at # "none" /\ watcher[c].number = n

InOrder(p) ==
    \A i, j \in DOMAIN sink[p] :
        i < j /\ sink[p][i].child = sink[p][j].child => Before(sink[p][i], sink[p][j])

\* The browser is not behind the message.
DatedFor(m, n) == m.number <= n.count /\ (m.kind = "detached" /\ n.on => m.number < n.count)

Dated(p) == \A i \in DOMAIN sink[p] : DatedFor(sink[p][i], native[sink[p][i].child])

Older(p, c, n) ==
    /\ n <= native[c].count
    /\ \A i \in DOMAIN sink[p] : sink[p][i].child = c => After(sink[p][i], n)

InvOrder ==
    \A p \in Pages : /\ InOrder(p) /\ Dated(p)
                     /\ \A c \in Children, n \in Nat : Seen(p, c, n) => Older(p, c, n)

\* The detachment n of the child is still to be read by the event task.
ToCome(p, c, n) ==
    \/ \E i \in DOMAIN sink[p] : sink[p][i] = [kind |-> "detached", child |-> c, number |-> n]
    \/ native[c].on /\ native[c].count = n

\* The messages stay in order, and those that were old stay old.
Orderly(p) ==
    /\ InOrder(p)' /\ Dated(p)'
    /\ \A c \in Children, n \in Nat : Older(p, c, n) => Older(p, c, n)'

\* No detachment is to come that was not to come before.
NoneToCome(p) == \A c \in Children, n \in Nat : ToCome(p, c, n)' => ToCome(p, c, n)

\* The browser attaches the child once more, or detaches it.
Moves(kind, n, m) ==
    \/ kind = "attached" /\ ~n.on /\ m.on /\ m.count = n.count + 1
    \/ kind = "detached" /\ n.on /\ ~m.on /\ m.count = n.count

\* A sequence with one message more.
LEMMA AppendedMessages ==
  ASSUME NEW s \in Seq(Message), NEW m \in Message, NEW t, t = Append(s, m)
  PROVE  /\ \A i \in DOMAIN t : (i \in DOMAIN s /\ t[i] = s[i]) \/ t[i] = m
         /\ \A i, j \in DOMAIN t : i < j =>
               /\ i \in DOMAIN s /\ t[i] = s[i]
               /\ (j \in DOMAIN s /\ t[j] = s[j]) \/ t[j] = m
<1>1. /\ Len(s) \in Nat /\ DOMAIN s = 1..Len(s) /\ DOMAIN t = 1..(Len(s) + 1)
      /\ t[Len(s) + 1] = m /\ \A i \in 1..Len(s) : t[i] = s[i]
  OBVIOUS
<1>2. \A i \in DOMAIN t : i = Len(s) + 1 \/ i \in DOMAIN s
  BY <1>1
<1>3. \A i \in DOMAIN t : (i \in DOMAIN s /\ t[i] = s[i]) \/ t[i] = m
  BY <1>1, <1>2
<1>4. \A i, j \in DOMAIN t : i < j => i \in DOMAIN s
  BY <1>1
<1> QED BY <1>1, <1>3, <1>4

\* A sequence without its first message.
LEMMA RemainingMessages ==
  ASSUME NEW s \in Seq(Message), s # <<>>, NEW t, t = Tail(s)
  PROVE  /\ 1 \in DOMAIN s /\ s[1] = Head(s)
         /\ \A i \in DOMAIN t : i + 1 \in DOMAIN s /\ t[i] = s[i + 1] /\ 1 < i + 1
         /\ \A i, j \in DOMAIN t : i < j => i + 1 < j + 1
<1>1. /\ Len(s) \in Nat /\ Len(s) >= 1 /\ DOMAIN s = 1..Len(s) /\ DOMAIN t = 1..(Len(s) - 1)
      /\ \A i \in 1..(Len(s) - 1) : t[i] = s[i + 1]
      /\ Head(s) = s[1]
  OBVIOUS
<1> QED BY <1>1

\* What is published goes behind everything older.
LEMMA PublishedInOrder ==
  ASSUME IInv, IInv', MessagesAreOfChildren, InvOrder, NEW p \in Pages, NEW c \in Children,
         NEW kind \in {"attached", "detached"},
         Moves(kind, native[c], native'[c]), \A b \in Children \ {c} : native'[b] = native[b],
         sink' = Published(kind, c)
  PROVE  Orderly(p)
<1> DEFINE m == [kind |-> kind, child |-> c, number |-> native'[c].count]
<1>1. /\ native[c].count \in Nat /\ native'[c].count \in Nat
      /\ \A b \in Children : native[b].count \in Nat
  BY DEF IInv, Typed
<1>2. m \in Message /\ m.kind = kind /\ m.child = c /\ m.number = native'[c].count
  BY <1>1 DEF Message
<1>3. sink[p] \in Seq(Message) /\ \A i \in DOMAIN sink[p] : sink[p][i] \in Message
  BY DEF MessagesAreOfChildren
<1>4. sink'[p] = sink[p] \/ sink'[p] = Append(sink[p], m)
  BY DEF Published
<1>5. InOrder(p) /\ Dated(p)
  BY DEF InvOrder
<1> HIDE DEF m
<1>6. /\ \A i \in DOMAIN sink'[p] : (i \in DOMAIN sink[p] /\ sink'[p][i] = sink[p][i]) \/ sink'[p][i] = m
      /\ \A i, j \in DOMAIN sink'[p] : i < j =>
            /\ i \in DOMAIN sink[p] /\ sink'[p][i] = sink[p][i]
            /\ (j \in DOMAIN sink[p] /\ sink'[p][j] = sink[p][j]) \/ sink'[p][j] = m
  <2>1. CASE sink'[p] = sink[p]
    BY <2>1
  <2>2. CASE sink'[p] = Append(sink[p], m)
    BY <1>2, <1>3, <2>2, AppendedMessages
  <2> QED BY <1>4, <2>1, <2>2
<1>7. ASSUME NEW k \in Message, DatedFor(k, native[k.child])
      PROVE  DatedFor(k, native'[k.child]) /\ (k.child = c => Before(k, m))
  <2>1. k.number \in Nat /\ k.child \in Children /\ k.kind \in {"attached", "detached"}
    BY DEF Message
  <2>2. CASE k.child = c
    BY <1>1, <1>2, <1>7, <2>1, <2>2 DEF DatedFor, Before, Moves
  <2>3. CASE k.child # c
    BY <1>7, <2>1, <2>3
  <2> QED BY <2>2, <2>3
<1>8. \A i \in DOMAIN sink[p] : DatedFor(sink[p][i], native'[sink[p][i].child])
                                /\ (sink[p][i].child = c => Before(sink[p][i], m))
  BY <1>3, <1>5, <1>7 DEF Dated
<1>9. DatedFor(m, native'[m.child])
  BY <1>1, <1>2 DEF DatedFor, Moves
<1>10. InOrder(p)'
  <2> SUFFICES ASSUME NEW i \in DOMAIN sink'[p], NEW j \in DOMAIN sink'[p], i < j,
                      sink'[p][i].child = sink'[p][j].child
               PROVE  Before(sink'[p][i], sink'[p][j])
    BY DEF InOrder
  <2>1. i \in DOMAIN sink[p] /\ sink'[p][i] = sink[p][i]
    BY <1>6
  <2>2. CASE j \in DOMAIN sink[p] /\ sink'[p][j] = sink[p][j]
    BY <1>5, <2>1, <2>2 DEF InOrder
  <2>3. CASE sink'[p][j] = m
    BY <1>2, <1>8, <2>1, <2>3
  <2> QED BY <1>6, <2>2, <2>3
<1>11. Dated(p)'
  BY <1>6, <1>8, <1>9 DEF Dated
<1>12. ASSUME NEW b \in Children, NEW n \in Nat, Older(p, b, n) PROVE Older(p, b, n)'
  <2>1. n <= native'[b].count
    BY <1>1, <1>12 DEF Older, Moves
  <2>2. b = c => After(m, n)
    BY <1>1, <1>2, <1>12 DEF After, Older, Moves
  <2>3. \A i \in DOMAIN sink'[p] : sink'[p][i].child = b => After(sink'[p][i], n)
    BY <1>2, <1>6, <1>12, <2>2 DEF Older
  <2> QED BY <2>1, <2>3 DEF Older
<1> QED BY <1>10, <1>11, <1>12 DEF Orderly

\* Taking a message leaves the others in order, and makes it old.
LEMMA TakenInOrder ==
  ASSUME IInv, MessagesAreOfChildren, InvOrder, NEW p \in Pages, sink[p] # <<>>,
         sink' = [sink EXCEPT ![p] = Tail(@)], native' = native
  PROVE  /\ \A q \in Pages : Orderly(q) /\ NoneToCome(q)
         /\ \A k : k = Head(sink[p]) => Older(p, k.child, k.number)'
<1>1. sink \in [Pages -> Seq(Message)]
  BY DEF MessagesAreOfChildren
<1>2. sink'[p] = Tail(sink[p]) /\ \A q \in Pages : q # p => sink'[q] = sink[q]
  BY <1>1
<1>3. InOrder(p) /\ Dated(p)
  BY DEF InvOrder
<1>4. sink[p] \in Seq(Message) /\ Head(sink[p]) \in Message
  BY <1>1
<1>5. /\ 1 \in DOMAIN sink[p] /\ sink[p][1] = Head(sink[p])
      /\ \A i \in DOMAIN sink'[p] : i + 1 \in DOMAIN sink[p] /\ sink'[p][i] = sink[p][i + 1] /\ 1 < i + 1
      /\ \A i, j \in DOMAIN sink'[p] : i < j => i + 1 < j + 1
  BY <1>2, <1>4, RemainingMessages
<1>6. ASSUME NEW q \in Pages, q # p PROVE Orderly(q) /\ NoneToCome(q)
  BY <1>2, <1>6 DEF Orderly, NoneToCome, InvOrder, InOrder, Dated, Older, ToCome
<1>7. InOrder(p)'
  BY <1>3, <1>5 DEF InOrder
<1>8. Dated(p)'
  BY <1>3, <1>5 DEF Dated
<1>9. \A c \in Children, n \in Nat : Older(p, c, n) => Older(p, c, n)'
  BY <1>5 DEF Older
<1>10. NoneToCome(p)
  BY <1>5 DEF NoneToCome, ToCome
<1>11. ASSUME NEW k, k = Head(sink[p]) PROVE Older(p, k.child, k.number)'
  <2>0. k \in Message
    BY <1>4, <1>11
  <2>1. DatedFor(k, native[k.child])
    BY <1>3, <1>5, <1>11 DEF Dated
  <2>2. k.number <= native'[k.child].count
    BY <2>1 DEF DatedFor
  <2>3. ASSUME NEW i \in DOMAIN sink'[p], sink'[p][i].child = k.child PROVE After(sink'[p][i], k.number)
    <3>1. Before(k, sink[p][i + 1])
      BY <1>3, <1>5, <1>11, <2>3 DEF InOrder
    <3>2. k.number \in Nat /\ sink[p][i + 1].number \in Nat
      <4>1. sink[p][i + 1] \in Message
        BY <1>4, <1>5
      <4> QED BY <2>0, <4>1 DEF Message
    <3> QED BY <1>5, <3>1, <3>2 DEF Before, After
  <2> QED BY <2>2, <2>3 DEF Older
<1> QED BY <1>6, <1>7, <1>8, <1>9, <1>10, <1>11 DEF Orderly

\* What leaves the messages alone, or takes them all, leaves them in order.
LEMMA SteadyInOrder ==
  ASSUME MessagesAreOfChildren, InvOrder, NEW p \in Pages, sink'[p] = sink[p] \/ sink'[p] = <<>>,
         \A c \in Children : native'[c].count = native[c].count /\ (native'[c].on => native[c].on)
  PROVE  Orderly(p) /\ NoneToCome(p)
<1>1. InOrder(p) /\ Dated(p)
  BY DEF InvOrder
<1>2. DOMAIN <<>> = {}
  OBVIOUS
<1>3. CASE sink'[p] = <<>>
  BY <1>2, <1>3 DEF Orderly, NoneToCome, InOrder, Dated, Older, ToCome
<1>4. CASE sink'[p] = sink[p]
  <2>1. InOrder(p)'
    BY <1>1, <1>4 DEF InOrder
  <2>2. NoneToCome(p) /\ \A c \in Children, n \in Nat : Older(p, c, n) => Older(p, c, n)'
    BY <1>4 DEF NoneToCome, ToCome, Older
  <2>3. Dated(p)'
    <3>1. ASSUME NEW i \in DOMAIN sink[p]
          PROVE  DatedFor(sink[p][i], native'[sink[p][i].child])
      <4>1. sink[p][i].child \in Children
        <5>1. sink[p] \in Seq(Message)
          BY DEF MessagesAreOfChildren
        <5>2. sink[p][i] \in Message
          BY <5>1
        <5> QED BY <5>2 DEF Message
      <4>2. DatedFor(sink[p][i], native[sink[p][i].child])
        BY <1>1 DEF Dated
      <4> QED BY <4>1, <4>2 DEF DatedFor
    <3> QED BY <1>4, <3>1 DEF Dated
  <2> QED BY <2>1, <2>2, <2>3 DEF Orderly
<1> QED BY <1>3, <1>4

\* What is told grows by one message.
Grown(p, c, kind, number) ==
    /\ \A q \in Pages, b \in Children, n \in Nat :
          (\E i \in DOMAIN told'[q][b] : told'[q][b][i].number = n) =>
             \/ \E i \in DOMAIN told[q][b] : told[q][b][i].number = n
             \/ q = p /\ b = c /\ n = number
    /\ \A q \in Pages, b \in Children, n \in Nat, k \in {"attached", "detached"} :
          ~(q = p /\ b = c /\ n = number /\ k = kind) => Told(q, b, k, n)' = Told(q, b, k, n)
    /\ Told(p, c, kind, number) = {} =>
          \A i, j \in Told(p, c, kind, number)' : i = j

\* A sequence with one tale more.
LEMMA AppendedTales ==
  ASSUME NEW s \in Seq(Tale), NEW x, NEW t, t = Append(s, x)
  PROVE  /\ \A i \in DOMAIN t : i = Len(s) + 1 \/ i \in DOMAIN s
         /\ \A i \in DOMAIN s : i \in DOMAIN t /\ t[i] = s[i] /\ i # Len(s) + 1
         /\ Len(s) + 1 \in DOMAIN t /\ t[Len(s) + 1] = x
<1>1. /\ Len(s) \in Nat /\ DOMAIN s = 1..Len(s) /\ DOMAIN t = 1..(Len(s) + 1)
      /\ t[Len(s) + 1] = x /\ \A i \in 1..Len(s) : t[i] = s[i]
  OBVIOUS
<1> QED BY <1>1

\* Telling adds the message that is told.
LEMMA TellGrows ==
  ASSUME SessionsTyped, NEW p \in Pages, NEW c \in Children, NEW kind \in {"attached", "detached"},
         NEW number \in Nat, Tell(p, c, kind, number)
  PROVE  Grown(p, c, kind, number)
<1>1. IsTold(p, c, kind, number)
  BY ToldLast
<1>2. told[p][c] \in Seq(Tale)
  BY DEF SessionsTyped
<1>3. CASE p \notin open
  <2>1. told' = told
    BY <1>1, <1>3 DEF IsTold
  <2>2. \A k, n : Told(p, c, k, n)' = Told(p, c, k, n)
    BY <2>1 DEF Told
  <2> QED BY <2>1, <2>2 DEF Grown, Told
<1>4. CASE p \in open
  <2> DEFINE x == [kind |-> kind, number |-> number]
  <2>1. /\ told'[p][c] = Append(told[p][c], x)
        /\ \A q \in Pages, b \in Children : q # p \/ b # c => told'[q][b] = told[q][b]
    BY <1>1, <1>4 DEF IsTold
  <2>2. x.kind = kind /\ x.number = number
    OBVIOUS
  <2> HIDE DEF x
  <2> DEFINE l == Len(told[p][c]) + 1
  <2>3. /\ \A i \in DOMAIN told'[p][c] : i = l \/ i \in DOMAIN told[p][c]
        /\ \A i \in DOMAIN told[p][c] : i \in DOMAIN told'[p][c] /\ told'[p][c][i] = told[p][c][i] /\ i # l
        /\ l \in DOMAIN told'[p][c] /\ told'[p][c][l] = x
    BY <1>2, <2>1, AppendedTales
  <2> HIDE DEF l
  <2>4. ASSUME NEW q \in Pages, NEW b \in Children, NEW n \in Nat,
               NEW i \in DOMAIN told'[q][b], told'[q][b][i].number = n
        PROVE  \/ \E j \in DOMAIN told[q][b] : told[q][b][j].number = n
               \/ q = p /\ b = c /\ n = number
    <3>1. CASE q = p /\ b = c
      BY <2>2, <2>3, <2>4, <3>1
    <3>2. CASE ~(q = p /\ b = c)
      BY <2>1, <2>4, <3>2
    <3> QED BY <3>1, <3>2
  <2>5. ASSUME NEW q \in Pages, NEW b \in Children, NEW n \in Nat, NEW k \in {"attached", "detached"},
               ~(q = p /\ b = c /\ n = number /\ k = kind)
        PROVE  Told(q, b, k, n)' = Told(q, b, k, n)
    <3>1. CASE q = p /\ b = c
      <4>1. x # [kind |-> k, number |-> n]
        BY <2>2, <2>5, <3>1
      <4> QED BY <2>3, <3>1, <4>1 DEF Told
    <3>2. CASE ~(q = p /\ b = c)
      BY <2>1, <3>2 DEF Told
    <3> QED BY <3>1, <3>2
  <2>6. ASSUME Told(p, c, kind, number) = {}, NEW i \in Told(p, c, kind, number)'
        PROVE  i = l
    BY <2>3, <2>6 DEF Told
  <2>7. Told(p, c, kind, number) = {} => \A i, j \in Told(p, c, kind, number)' : i = j
    BY <2>6
  <2> QED BY <2>4, <2>5, <2>7 DEF Grown
<1> QED BY <1>3, <1>4

\* A child that may be detached now.
LEMMA AskedToDetachIsOrderly ==
  ASSUME IInv, IInv', MessagesAreOfChildren, InvOrder, NEW p \in Pages, NEW c \in Children,
         AskedToDetach(c)
  PROVE  Orderly(p) /\ NoneToCome(p)
<1>1. CASE UNCHANGED <<native, sink>>
  BY <1>1, SteadyInOrder
<1>2. CASE Live(c) /\ Detaches(c)
  <2>1. /\ native' = [native EXCEPT ![c].on = FALSE] /\ sink' = Published("detached", c) /\ native[c].on
    BY <1>2 DEF Detaches, Live
  <2>2. native \in [Children -> Native] /\ native[c] \in Native
    BY DEF IInv, Typed, Native
  <2>3. /\ native'[c] = [native[c] EXCEPT !.on = FALSE]
        /\ \A b \in Children \ {c} : native'[b] = native[b]
    BY <2>1, <2>2
  <2>4. native'[c].count = native[c].count /\ ~native'[c].on
    BY <2>2, <2>3 DEF Native
  <2>5. Moves("detached", native[c], native'[c])
    BY <2>1, <2>4 DEF Moves
  <2>6. Orderly(p)
    BY <2>1, <2>3, <2>5, PublishedInOrder
  <2>7. NoneToCome(p)
    <3> DEFINE m == [kind |-> "detached", child |-> c, number |-> native'[c].count]
    <3>1. sink'[p] = sink[p] \/ sink'[p] = Append(sink[p], m)
      BY <2>1 DEF Published
    <3>2. m \in Message /\ m.child = c /\ m.number = native[c].count
      <4>1. native[c].count \in Nat
        BY <2>2 DEF Native
      <4> QED BY <2>4, <4>1 DEF Message
    <3>3. sink[p] \in Seq(Message)
      BY DEF MessagesAreOfChildren
    <3> HIDE DEF m
    <3>4. \A i \in DOMAIN sink'[p] : (i \in DOMAIN sink[p] /\ sink'[p][i] = sink[p][i]) \/ sink'[p][i] = m
      BY <3>1, <3>2, <3>3, AppendedMessages
    <3> SUFFICES ASSUME NEW b \in Children, NEW n \in Nat, ToCome(p, b, n)' PROVE ToCome(p, b, n)
      BY DEF NoneToCome
    <3>5. CASE native'[b].on /\ native'[b].count = n
      BY <2>3, <2>4, <3>5 DEF ToCome
    <3>6. CASE \E i \in DOMAIN sink'[p] : sink'[p][i] = [kind |-> "detached", child |-> b, number |-> n]
      <4>1. PICK i \in DOMAIN sink'[p] : sink'[p][i] = [kind |-> "detached", child |-> b, number |-> n]
        BY <3>6
      <4>2. CASE i \in DOMAIN sink[p] /\ sink'[p][i] = sink[p][i]
        BY <4>1, <4>2 DEF ToCome
      <4>3. CASE sink'[p][i] = m
        <5>1. b = c /\ n = native[c].count
          BY <3>2, <4>1, <4>3
        <5> QED BY <2>1, <5>1 DEF ToCome
      <4> QED BY <3>4, <4>2, <4>3
    <3> QED BY <3>5, <3>6 DEF ToCome
  <2> QED BY <2>6, <2>7
<1> QED BY <1>1, <1>2 DEF AskedToDetach, Detaches

\* A child that is attached now.
LEMMA NativeAttachIsOrderly ==
  ASSUME IInv, IInv', MessagesAreOfChildren, InvOrder, NEW p \in Pages, NEW c \in Children,
         NativeAttach(c)
  PROVE  /\ Orderly(p)
         /\ \A b \in Children, n \in Nat :
               ToCome(p, b, n)' => ToCome(p, b, n) \/ (b = c /\ ~(n <= native[c].count))
<1>1. native \in [Children -> Native] /\ native[c] \in Native /\ native[c].count \in Nat
  BY DEF IInv, Typed, Native
<1>2. /\ native'[c] = [native[c] EXCEPT !.on = TRUE, !.count = native[c].count + 1]
      /\ \A b \in Children \ {c} : native'[b] = native[b]
      /\ ~native[c].on /\ sink' = Published("attached", c)
  BY <1>1 DEF NativeAttach, Live
<1>3. native'[c].on /\ native'[c].count = native[c].count + 1
  BY <1>1, <1>2 DEF Native
<1>4. Moves("attached", native[c], native'[c])
  BY <1>2, <1>3 DEF Moves
<1>5. Orderly(p)
  BY <1>2, <1>4, PublishedInOrder
<1>6. ASSUME NEW b \in Children, NEW n \in Nat, ToCome(p, b, n)'
      PROVE  ToCome(p, b, n) \/ (b = c /\ ~(n <= native[c].count))
  <2> DEFINE m == [kind |-> "attached", child |-> c, number |-> native'[c].count]
  <2>1. sink'[p] = sink[p] \/ sink'[p] = Append(sink[p], m)
    BY <1>2 DEF Published
  <2>2. m \in Message /\ m.kind = "attached"
    BY <1>1, <1>3 DEF Message
  <2>3. sink[p] \in Seq(Message)
    BY DEF MessagesAreOfChildren
  <2> HIDE DEF m
  <2>4. \A i \in DOMAIN sink'[p] : (i \in DOMAIN sink[p] /\ sink'[p][i] = sink[p][i]) \/ sink'[p][i] = m
    BY <2>1, <2>2, <2>3, AppendedMessages
  <2>5. CASE native'[b].on /\ native'[b].count = n
    <3>1. CASE b = c
      BY <1>1, <1>3, <2>5, <3>1
    <3>2. CASE b # c
      BY <1>2, <2>5, <3>2 DEF ToCome
    <3> QED BY <3>1, <3>2
  <2>6. CASE \E i \in DOMAIN sink'[p] : sink'[p][i] = [kind |-> "detached", child |-> b, number |-> n]
    <3>1. PICK i \in DOMAIN sink'[p] : sink'[p][i] = [kind |-> "detached", child |-> b, number |-> n]
      BY <2>6
    <3>2. sink'[p][i].kind = "detached" /\ "detached" # "attached"
      BY <3>1
    <3> QED BY <2>2, <2>4, <3>1, <3>2 DEF ToCome
  <2> QED BY <1>6, <2>5, <2>6 DEF ToCome
<1> QED BY <1>5, <1>6

\* What is known stays older than what is to come.
LEMMA OrderCarried ==
  ASSUME InvOrder, \A q \in Pages : Orderly(q),
         \A q \in Pages, b \in Children, n \in Nat : Seen(q, b, n)' => Seen(q, b, n) \/ Older(q, b, n)'
  PROVE  InvOrder'
BY DEF InvOrder, Orderly

\* Steps after which nothing is known that was not known before.
NothingNew == \A q \in Pages, b \in Children, n \in Nat : Seen(q, b, n)' => Seen(q, b, n)

\* Nothing is known anew when nobody reads, watches or is told.
LEMMA SameIsNothingNew ==
  ASSUME UNCHANGED <<told, forwarder, watcher>>
  PROVE  NothingNew
BY DEF NothingNew, Seen, Handles

\* The message that the event task takes, and what is left as it was.
LEMMA TakenMessage ==
  ASSUME SessionInv, NEW p \in Pages, RouteAttached(p) \/ RouteDetached(p)
  PROVE  /\ sink[p] # <<>> /\ sink' = [sink EXCEPT ![p] = Tail(@)] /\ native' = native /\ told' = told
         /\ forwarder[p] = Idle /\ p \in open
         /\ Head(sink[p]) \in Message
         /\ \A c \in Children : watcher'[c] # watcher[c] =>
               \/ watcher'[c] = NotWatched
               \/ /\ c = Head(sink[p]).child
                  /\ watcher'[c] = [at |-> "watching", page |-> p, number |-> Head(sink[p]).number]
         /\ \A q \in Pages : forwarder'[q] # forwarder[q] =>
               q = p /\ \E step \in {"notify", "refuse"} : forwarder'[q] = [at |-> step, msg |-> Head(sink[p])]
<1>0. IInv /\ MessagesAreOfChildren /\ SessionsTyped
  BY DEF SessionInv
<1>1. sink[p] # <<>> /\ sink' = [sink EXCEPT ![p] = Tail(@)] /\ native' = native /\ told' = told
      /\ forwarder[p] = Idle /\ p \in open
  BY DEF RouteAttached, RouteDetached, Takes, browser
<1>2. Head(sink[p]) \in Message
  <2>1. sink[p] \in Seq(Message)
    BY <1>0 DEF MessagesAreOfChildren
  <2> QED BY <1>1, <2>1
<1>3. PICK msg : msg = Head(sink[p])
  OBVIOUS
<1>4. PICK c \in Children : c = msg.child
  BY <1>2, <1>3 DEF Message
<1>5. PICK v : v = [at |-> "watching", page |-> p, number |-> msg.number]
  OBVIOUS
<1>6. \/ watcher' = watcher \/ watcher' = [watcher EXCEPT ![c] = NotWatched]
      \/ watcher' = [watcher EXCEPT ![c] = v]
  BY <1>3, <1>4, <1>5 DEF RouteAttached, RouteDetached
<1>7. watcher \in [Children -> Watch] /\ forwarder \in [Pages -> {Idle} \cup [at : {"notify", "activate", "refuse"}, msg : Message]]
  BY <1>0 DEF SessionsTyped, MessagesAreOfChildren
<1>8. \A b \in Children : watcher'[b] # watcher[b] => watcher'[b] = NotWatched \/ (b = c /\ watcher'[b] = v)
  BY <1>6, <1>7
<1>9. forwarder' = forwarder \/ \E step \in {"notify", "refuse"} : forwarder' = At(p, step, msg)
  BY <1>3 DEF RouteAttached, RouteDetached
<1>10. \A q \in Pages : forwarder'[q] # forwarder[q] =>
          q = p /\ \E step \in {"notify", "refuse"} : forwarder'[q] = [at |-> step, msg |-> msg]
  BY <1>7, <1>9 DEF At
<1> QED BY <1>1, <1>2, <1>3, <1>4, <1>5, <1>8, <1>10

\* A message is taken, and is then no news.
LEMMA TakesKeepsOrder ==
  ASSUME OnePage, SessionInv, InvOrder, NEW p \in Pages, RouteAttached(p) \/ RouteDetached(p)
  PROVE  InvOrder' /\ \A q \in Pages : Orderly(q) /\ NoneToCome(q)
<1>0. IInv /\ MessagesAreOfChildren /\ SessionsTyped
  BY DEF SessionInv
<1>1. PICK msg : msg = Head(sink[p])
  OBVIOUS
<1>2. /\ sink[p] # <<>> /\ sink' = [sink EXCEPT ![p] = Tail(@)] /\ native' = native /\ told' = told
      /\ forwarder[p] = Idle /\ msg \in Message
      /\ \A c \in Children : watcher'[c] # watcher[c] =>
            \/ watcher'[c] = NotWatched
            \/ c = msg.child /\ watcher'[c] = [at |-> "watching", page |-> p, number |-> msg.number]
      /\ \A q \in Pages : forwarder'[q] # forwarder[q] =>
            q = p /\ \E step \in {"notify", "refuse"} : forwarder'[q] = [at |-> step, msg |-> msg]
  BY <1>1, TakenMessage
<1>3. /\ \A q \in Pages : Orderly(q) /\ NoneToCome(q)
      /\ Older(p, msg.child, msg.number)'
  BY <1>0, <1>1, <1>2, TakenInOrder
<1>4. ASSUME NEW q \in Pages, NEW b \in Children, NEW n \in Nat, Seen(q, b, n)', ~Seen(q, b, n)
      PROVE  b = msg.child /\ n = msg.number
  <2>1. ~(\E i \in DOMAIN told'[q][b] : told'[q][b][i].number = n)
    BY <1>2, <1>4 DEF Seen
  <2>2. CASE Handles(q, b)' /\ forwarder'[q].msg.number = n
    <3>1. forwarder'[q] # forwarder[q]
      BY <1>4, <2>2 DEF Seen, Handles
    <3>2. forwarder'[q].msg = msg
      BY <1>2, <3>1
    <3> QED BY <2>2, <3>2 DEF Handles
  <2>3. CASE watcher'[b].at # "none" /\ watcher'[b].number = n
    <3>1. watcher'[b] # watcher[b]
      BY <1>4, <2>3 DEF Seen
    <3>2. watcher'[b] # NotWatched
      BY <2>3 DEF NotWatched
    <3>3. b = msg.child /\ watcher'[b].number = msg.number
      BY <1>2, <3>1, <3>2
    <3> QED BY <2>3, <3>3
  <2> QED BY <1>4, <2>1, <2>2, <2>3 DEF Seen
<1>5. \A q \in Pages, b \in Children, n \in Nat : Seen(q, b, n)' => Seen(q, b, n) \/ Older(q, b, n)'
  <2> SUFFICES ASSUME NEW q \in Pages, NEW b \in Children, NEW n \in Nat, Seen(q, b, n)', ~Seen(q, b, n)
               PROVE  Older(q, b, n)'
    OBVIOUS
  <2>1. b = msg.child /\ n = msg.number /\ q = p
    BY <1>4 DEF OnePage
  <2> QED BY <1>3, <2>1
<1> QED BY <1>3, <1>5, OrderCarried

\* What is told and the steps of the event task bring no news.
LEMMA NotifyIsNothingNew ==
  ASSUME SessionInv, NEW p \in Pages, RefuseAttached(p) \/ Notify(p) \/ Activate(p)
  PROVE  NothingNew
<1>0. IInv /\ MessagesAreOfChildren /\ SessionsTyped
  BY DEF SessionInv
<1>1. forwarder[p].at \in {"notify", "activate", "refuse"} /\ Idle.at = "idle" /\ "idle" \notin {"notify", "activate", "refuse"}
  BY DEF RefuseAttached, Notify, Activate, Idle
<1>2. PICK msg \in Message : msg = forwarder[p].msg
  BY <1>0, <1>1, ForwarderIsTyped
<1>3. PICK c \in Children : c = msg.child
  BY <1>2 DEF Message
<1>4. Handles(p, c) /\ msg.number \in Nat
  BY <1>1, <1>2, <1>3 DEF Handles, Message
<1>5. forwarder \in [Pages -> {Idle} \cup [at : {"notify", "activate", "refuse"}, msg : Message]]
  BY <1>0 DEF MessagesAreOfChildren
<1>6. /\ \A q \in Pages : q # p => forwarder'[q] = forwarder[q]
      /\ forwarder'[p] = Idle \/ (forwarder'[p].msg.child = c /\ forwarder'[p].msg.number = msg.number)
      /\ watcher' = watcher
  <2>1. CASE RefuseAttached(p)
    <3> DEFINE new == [msg EXCEPT !.kind = "detached"]
    <3>1. new.child = c /\ new.number = msg.number
      BY <1>2, <1>3 DEF Message
    <3>2. forwarder' = At(p, "notify", new) /\ watcher' = watcher
      BY <1>2, <2>1 DEF RefuseAttached
    <3> HIDE DEF new
    <3> QED BY <1>5, <3>1, <3>2 DEF At
  <2>2. CASE Notify(p)
    <3>1. forwarder' = At(p, "activate", msg) \/ forwarder' = [forwarder EXCEPT ![p] = Idle]
      BY <1>2, <2>2 DEF Notify
    <3>2. watcher' = watcher
      BY <2>2 DEF Notify
    <3> QED BY <1>3, <1>5, <3>1, <3>2 DEF At
  <2>3. CASE Activate(p)
    BY <1>5, <2>3 DEF Activate
  <2> QED BY <2>1, <2>2, <2>3
<1>7. \A q \in Pages, b \in Children, n \in Nat :
         (\E i \in DOMAIN told'[q][b] : told'[q][b][i].number = n) =>
            \/ \E i \in DOMAIN told[q][b] : told[q][b][i].number = n
            \/ q = p /\ b = c /\ n = msg.number
  <2>1. CASE Notify(p)
    <3>1. Tell(p, c, msg.kind, msg.number) /\ msg.kind \in {"attached", "detached"}
      BY <1>2, <1>3, <2>1 DEF Notify, Message
    <3>2. Grown(p, c, msg.kind, msg.number)
      BY <1>0, <1>4, <3>1, TellGrows
    <3> QED BY <3>2 DEF Grown
  <2>2. CASE told' = told
    BY <2>2
  <2> QED BY <2>1, <2>2 DEF RefuseAttached, Activate
<1>8. Seen(p, c, msg.number)
  BY <1>2, <1>4 DEF Seen
<1>9. ASSUME NEW q \in Pages, NEW b \in Children, NEW n \in Nat, Seen(q, b, n)'
      PROVE  Seen(q, b, n)
  <2>1. CASE \E i \in DOMAIN told'[q][b] : told'[q][b][i].number = n
    <3>1. CASE \E i \in DOMAIN told[q][b] : told[q][b][i].number = n
      BY <3>1 DEF Seen
    <3>2. CASE q = p /\ b = c /\ n = msg.number
      BY <1>8, <3>2
    <3> QED BY <1>7, <2>1, <3>1, <3>2
  <2>2. CASE Handles(q, b)' /\ forwarder'[q].msg.number = n
    <3>1. CASE q = p
      <4>1. b = c /\ n = msg.number
        BY <1>6, <2>2, <3>1 DEF Handles
      <4> QED BY <1>8, <3>1, <4>1
    <3>2. CASE q # p
      BY <1>6, <2>2, <3>2 DEF Handles, Seen
    <3> QED BY <3>1, <3>2
  <2>3. CASE watcher'[b].at # "none" /\ watcher'[b].number = n
    BY <1>6, <2>3 DEF Seen
  <2> QED BY <1>9, <2>1, <2>2, <2>3 DEF Seen
<1> QED BY <1>9 DEF NothingNew

\* The watcher tells what it knew when it was made.
LEMMA WatcherIsNothingNew ==
  ASSUME OnePage, SessionInv, NEW c \in Children, WatcherStep(c)
  PROVE  NothingNew
<1>0. IInv /\ MessagesAreOfChildren /\ SessionsTyped
  BY DEF SessionInv
<1>1. watcher \in [Children -> Watch] /\ watcher[c] \in Watch
  BY <1>0 DEF SessionsTyped
<1>2. forwarder' = forwarder /\ watcher[c].at # "none"
  BY DEF WatcherStep, WatcherRemoves, WatcherRetires, WatcherTells, WatcherDetaches
<1>3. /\ \A b \in Children : b # c => watcher'[b] = watcher[b]
      /\ watcher'[c].at = "none" \/ watcher'[c].number = watcher[c].number
  <2>1. \/ \E step \in Steps : watcher' = Watches(c, step)
        \/ watcher' = [watcher EXCEPT ![c] = NotWatched]
    BY DEF WatcherStep, WatcherRemoves, WatcherRetires, WatcherTells, WatcherDetaches, Steps
  <2>2. CASE watcher' = [watcher EXCEPT ![c] = NotWatched]
    BY <1>1, <2>2 DEF NotWatched
  <2>3. ASSUME NEW step \in Steps, watcher' = Watches(c, step)
        PROVE  /\ \A b \in Children : b # c => watcher'[b] = watcher[b]
               /\ watcher'[c].number = watcher[c].number
    <3>1. watcher' = [watcher EXCEPT ![c] = [watcher[c] EXCEPT !.at = step]]
      BY <1>1, <2>3 DEF Watches
    <3> QED BY <1>1, <3>1 DEF Watch
  <2> QED BY <2>1, <2>2, <2>3
<1>4. \A q \in Pages, b \in Children, n \in Nat :
         (\E i \in DOMAIN told'[q][b] : told'[q][b][i].number = n) =>
            \/ \E i \in DOMAIN told[q][b] : told[q][b][i].number = n
            \/ b = c /\ n = watcher[c].number
  <2>1. CASE WatcherTells(c)
    <3>1. watcher[c].number \in Nat
      BY <1>1 DEF Watch
    <3>2. PICK number \in Nat : number = watcher[c].number
      BY <3>1
    <3>21. PICK page : page = watcher[c].page
      OBVIOUS
    <3>3. Tell(page, c, "detached", number)
      BY <2>1, <3>2, <3>21 DEF WatcherTells
    <3>4. CASE page \in Pages
      <4>1. Grown(page, c, "detached", number)
        BY <1>0, <3>3, <3>4, TellGrows
      <4> QED BY <3>2, <4>1 DEF Grown
    <3>5. CASE page \notin Pages
      <4>1. told' = told
        BY <1>0, <3>3, <3>5 DEF Tell, SessionsTyped
      <4> QED BY <4>1
    <3> QED BY <3>4, <3>5
  <2>2. CASE told' = told
    BY <2>2
  <2> QED BY <2>1, <2>2 DEF WatcherStep, WatcherRemoves, WatcherRetires, WatcherDetaches
<1>5. ASSUME NEW q \in Pages, NEW b \in Children, NEW n \in Nat, Seen(q, b, n)'
      PROVE  Seen(q, b, n)
  <2>1. CASE \E i \in DOMAIN told'[q][b] : told'[q][b][i].number = n
    BY <1>2, <1>4, <2>1 DEF Seen
  <2>2. CASE Handles(q, b)' /\ forwarder'[q].msg.number = n
    BY <1>2, <2>2 DEF Handles, Seen
  <2>3. CASE watcher'[b].at # "none" /\ watcher'[b].number = n
    BY <1>2, <1>3, <2>3 DEF Seen
  <2> QED BY <1>5, <2>1, <2>2, <2>3 DEF Seen
<1> QED BY <1>5 DEF NothingNew

\* The end of a page session brings no news.
LEMMA DetachPageIsNothingNew ==
  ASSUME SessionInv, NEW p \in Pages, DetachPage(p)
  PROVE  NothingNew /\ \A q \in Pages : sink'[q] = sink[q] \/ sink'[q] = <<>>
<1>0. MessagesAreOfChildren /\ SessionsTyped
  BY DEF SessionInv
<1>1. /\ \A q \in Pages : forwarder'[q] = forwarder[q] \/ forwarder'[q] = Idle
      /\ \A q \in Pages : sink'[q] = sink[q] \/ sink'[q] = <<>>
      /\ \A c \in Children : watcher'[c] = watcher[c] \/ watcher'[c] = NotWatched
      /\ told' = told
  BY <1>0 DEF DetachPage, MessagesAreOfChildren
<1> QED BY <1>1 DEF NothingNew, Seen, Handles, NotWatched

\* Every step keeps the order of the messages.
LEMMA OrderKept ==
  ASSUME OnePage, SessionInv, SessionInv', InvOrder, [Next]_vars
  PROVE  InvOrder'
<1>0. IInv /\ MessagesAreOfChildren /\ SessionsTyped /\ InvLines /\ IInv'
  BY DEF SessionInv
<1>1. ASSUME \A q \in Pages : Orderly(q), NothingNew PROVE InvOrder'
  BY <1>1, OrderCarried DEF NothingNew
<1>2. ASSUME UNCHANGED <<native, sink, told, forwarder, watcher>> PROVE InvOrder'
  <2>1. \A q \in Pages : Orderly(q)
    BY <1>0, <1>2, SteadyInOrder
  <2> QED BY <1>1, <1>2, <2>1, SameIsNothingNew
<1>3. ASSUME NEW c \in Children,
             \/ RouteEvent(c) \/ NotifierStep(c)
             \/ OpenRaw(c) \/ CloseRaw(c) \/ LateAnswer(c)
             \/ \E kind \in Kinds : Request(c, kind) \/ Answer(c, kind) \/ GivesUp(c, kind)
      PROVE  InvOrder'
  BY <1>0, <1>2, <1>3, UnnoticedSteps DEF Unnoticed
<1>4. ASSUME NEW c \in Children, Browser(c) PROVE InvOrder'
  <2>1. UNCHANGED <<told, forwarder, watcher>>
    BY <1>4 DEF Browser, NativeAttach, NativeDetach, NativeEvent, tasks
  <2>2. CASE NativeAttach(c)
    BY <1>0, <1>1, <2>1, <2>2, NativeAttachIsOrderly, SameIsNothingNew
  <2>3. CASE NativeDetach(c)
    <3>1. AskedToDetach(c)
      BY <2>3 DEF NativeDetach, AskedToDetach
    <3> QED BY <1>0, <1>1, <2>1, <3>1, AskedToDetachIsOrderly, SameIsNothingNew
  <2>4. CASE NativeEvent(c)
    <3>1. sink' = sink /\ \A b \in Children : native'[b].count = native[b].count /\ (native'[b].on => native[b].on)
      BY <1>0, <2>4 DEF NativeEvent, IInv, Typed
    <3>2. \A q \in Pages : Orderly(q)
      BY <1>0, <3>1, SteadyInOrder
    <3> QED BY <1>1, <2>1, <3>2, SameIsNothingNew
  <2> QED BY <1>4, <2>2, <2>3, <2>4 DEF Browser
<1>5. ASSUME NEW p \in Pages, ForwarderStep(p) PROVE InvOrder'
  <2>1. CASE RefuseAttached(p)
    <3>1. AskedToDetach(forwarder[p].msg.child) /\ forwarder[p].msg.child \in Children
      BY <1>0, <2>1, ForwarderIsTyped DEF RefuseAttached, Message
    <3>2. PICK c \in Children : AskedToDetach(c)
      BY <3>1
    <3>3. \A q \in Pages : Orderly(q)
      BY <1>0, <3>2, AskedToDetachIsOrderly
    <3> QED BY <1>1, <2>1, <3>3, NotifyIsNothingNew
  <2>2. CASE Notify(p) \/ Activate(p)
    <3>1. UNCHANGED <<native, sink>>
      BY <2>2 DEF Notify, Activate, browser
    <3>2. \A q \in Pages : Orderly(q)
      BY <1>0, <3>1, SteadyInOrder
    <3> QED BY <1>1, <2>2, <3>2, NotifyIsNothingNew
  <2> QED BY <1>5, <2>1, <2>2, TakesKeepsOrder DEF ForwarderStep
<1>6. ASSUME NEW c \in Children, WatcherStep(c) PROVE InvOrder'
  <2>1. NothingNew
    BY <1>6, WatcherIsNothingNew
  <2>2. CASE WatcherDetaches(c)
    BY <1>0, <1>1, <2>1, <2>2, AskedToDetachIsOrderly DEF WatcherDetaches
  <2>3. CASE ~WatcherDetaches(c)
    <3>1. UNCHANGED <<native, sink>>
      BY <1>6, <2>3 DEF WatcherStep, WatcherRemoves, WatcherRetires, WatcherTells, browser
    <3>2. \A q \in Pages : Orderly(q)
      BY <1>0, <3>1, SteadyInOrder
    <3> QED BY <1>1, <2>1, <3>2
  <2> QED BY <2>2, <2>3
<1>7. ASSUME NEW p \in Pages, DetachPage(p) PROVE InvOrder'
  <2>1. native' = native
    BY <1>7 DEF DetachPage, browser
  <2>2. NothingNew /\ \A q \in Pages : sink'[q] = sink[q] \/ sink'[q] = <<>>
    BY <1>7, DetachPageIsNothingNew
  <2>3. \A q \in Pages : Orderly(q)
    BY <1>0, <2>1, <2>2, SteadyInOrder
  <2> QED BY <1>1, <2>2, <2>3
<1>8. CASE Dispose
  <2>1. UNCHANGED <<sink, told, forwarder, watcher>>
    BY <1>8 DEF Dispose, tasks
  <2>2. \A b \in Children : native'[b].count = native[b].count /\ (native'[b].on => native[b].on)
    BY <1>0, <1>8 DEF Dispose, IInv, Typed
  <2>3. \A q \in Pages : Orderly(q)
    BY <1>0, <2>1, <2>2, SteadyInOrder
  <2> QED BY <1>1, <2>1, <2>3, SameIsNothingNew
<1>9. CASE UNCHANGED vars
  BY <1>2, <1>9 DEF vars, browser, tasks
<1> QED BY <1>3, <1>4, <1>5, <1>6, <1>7, <1>8, <1>9 DEF Next

\* At first there is no message, and nothing known.
LEMMA OrderInitially == Init => InvOrder
<1> SUFFICES ASSUME Init, NEW p \in Pages
             PROVE  /\ InOrder(p) /\ Dated(p)
                    /\ \A c \in Children, n \in Nat : Seen(p, c, n) => Older(p, c, n)
  BY DEF InvOrder
<1>1. sink[p] = <<>> /\ DOMAIN <<>> = {} /\ forwarder[p] = Idle
  BY DEF Init
<1>2. \A c \in Children : told[p][c] = <<>> /\ watcher[c].at = "none"
  BY DEF Init, NotWatched
<1> QED BY <1>1, <1>2 DEF InOrder, Dated, Seen, Handles

-----------------------------------------------------------------------------
(* An attachment is reported detached once                                 *)

\* The event task is at a step with attachment n of the child.
Doing(p, c, step, kind, n) ==
    /\ Handles(p, c) /\ forwarder[p].at = step
    /\ forwarder[p].msg.kind = kind /\ forwarder[p].msg.number = n

Refusing(p, c, n) == \E kind \in {"attached", "detached"} : Doing(p, c, "refuse", kind, n)
Withdrawing(p, c, n) == Doing(p, c, "notify", "detached", n)

\* The client was told of the attachment, or is told now.
Reported(p, c, n) == Told(p, c, "attached", n) # {} \/ Doing(p, c, "notify", "attached", n)

Watched(c, n) == watcher[c].at = "watching" /\ watcher[c].number = n
Ending(c, n) == watcher[c].at \in {"retire", "tell"} /\ watcher[c].number = n

Single(S) == \A i, j \in S : i = j

\* At most one of the watcher and the event task tells the detachment, and
\* the one that is still to be read is marked when it was told.
Once(p, c, n) ==
    /\ Single(Told(p, c, "detached", n))
    /\ Withdrawing(p, c, n) => ~Ending(c, n) /\ ~Watched(c, n)
    /\ Withdrawing(p, c, n) \/ Ending(c, n) \/ Watched(c, n) => Told(p, c, "detached", n) = {}
    /\ Withdrawing(p, c, n) \/ Ending(c, n) \/ Told(p, c, "detached", n) # {} =>
          (ToCome(p, c, n) => route[c].synthetic)

InvRefused == \A p \in Pages, c \in Children, n \in Nat : Refusing(p, c, n) => ~Reported(p, c, n)

InvOnce ==
    ~disposed => \A p \in Pages, c \in Children, n \in Nat : Reported(p, c, n) => Once(p, c, n)

OnceInv == InvRefused /\ InvOnce

\* Nothing about attachment n starts or is told in the step.
Settled(p, c, n) ==
    /\ Told(p, c, "detached", n)' = Told(p, c, "detached", n)
    /\ Withdrawing(p, c, n)' => Withdrawing(p, c, n)
    /\ Ending(c, n)' => Ending(c, n)
    /\ Watched(c, n)' => Watched(c, n)
    /\ ToCome(p, c, n)' => ToCome(p, c, n)
    /\ route[c].synthetic => route'[c].synthetic

\* Such a step leaves it told once.
LEMMA SettledStaysOnce ==
  ASSUME NEW p, NEW c, NEW n, Settled(p, c, n), Once(p, c, n)
  PROVE  Once(p, c, n)'
<1>1. /\ Told(p, c, "detached", n)' = Told(p, c, "detached", n)
      /\ Withdrawing(p, c, n)' => Withdrawing(p, c, n)
      /\ Ending(c, n)' => Ending(c, n)
      /\ Watched(c, n)' => Watched(c, n)
      /\ ToCome(p, c, n)' => ToCome(p, c, n)
      /\ route[c].synthetic => route'[c].synthetic
  BY DEF Settled
<1>2. Single(Told(p, c, "detached", n)')
  BY <1>1 DEF Once
<1>3. Withdrawing(p, c, n)' => ~Ending(c, n)' /\ ~Watched(c, n)'
  BY <1>1 DEF Once
<1>4. Withdrawing(p, c, n)' \/ Ending(c, n)' \/ Watched(c, n)' => Told(p, c, "detached", n)' = {}
  BY <1>1 DEF Once
<1>5. Withdrawing(p, c, n)' \/ Ending(c, n)' \/ Told(p, c, "detached", n)' # {} =>
          (ToCome(p, c, n)' => route'[c].synthetic)
  BY <1>1 DEF Once
<1> QED BY <1>2, <1>3, <1>4, <1>5 DEF Once

\* Whoever has to do with an attachment knows it.
LEMMA KnownIsSeen ==
  ASSUME NEW p, NEW c, NEW n,
         \/ Reported(p, c, n) \/ Told(p, c, "detached", n) # {} \/ Withdrawing(p, c, n)
         \/ Watched(c, n) \/ Ending(c, n)
  PROVE  Seen(p, c, n)
<1>1. ASSUME NEW kind, Told(p, c, kind, n) # {} PROVE Seen(p, c, n)
  <2>1. PICK i \in DOMAIN told[p][c] : told[p][c][i] = [kind |-> kind, number |-> n]
    BY <1>1 DEF Told
  <2>2. told[p][c][i].number = n
    BY <2>1
  <2> QED BY <2>2 DEF Seen
<1>2. ASSUME NEW kind, Doing(p, c, "notify", kind, n) PROVE Seen(p, c, n)
  BY <1>2 DEF Doing, Seen
<1>3. CASE Watched(c, n) \/ Ending(c, n)
  <2>1. watcher[c].at # "none" /\ watcher[c].number = n
    BY <1>3 DEF Watched, Ending
  <2> QED BY <2>1 DEF Seen
<1> QED BY <1>1, <1>2, <1>3 DEF Reported, Withdrawing

\* What the event task does when it rests, and when it is left alone.
LEMMA TasksLeftAlone ==
  ASSUME NEW p, NEW c, NEW n
  PROVE  /\ forwarder'[p] = forwarder[p] =>
               /\ Refusing(p, c, n)' <=> Refusing(p, c, n)
               /\ Withdrawing(p, c, n)' <=> Withdrawing(p, c, n)
               /\ \A kind : Doing(p, c, "notify", kind, n)' <=> Doing(p, c, "notify", kind, n)
         /\ forwarder'[p] = Idle =>
               /\ ~Refusing(p, c, n)' /\ ~Withdrawing(p, c, n)'
               /\ \A kind : ~Doing(p, c, "notify", kind, n)'
BY DEF Refusing, Withdrawing, Doing, Handles

\* The same for a watcher.
LEMMA WatchersLeftAlone ==
  ASSUME NEW c, NEW n
  PROVE  /\ watcher'[c] = watcher[c] =>
               /\ Ending(c, n)' <=> Ending(c, n)
               /\ Watched(c, n)' <=> Watched(c, n)
         /\ watcher'[c] = NotWatched => ~Ending(c, n)' /\ ~Watched(c, n)'
BY DEF Ending, Watched, NotWatched

\* Steps of the browser and of everybody who neither tells nor reads.
LEMMA QuietStepKeepsOnce ==
  ASSUME OnceInv, told' = told, disposed' = disposed,
         \A p \in Pages : forwarder'[p] = forwarder[p] \/ forwarder'[p] = Idle,
         \A c \in Children : watcher'[c] = watcher[c] \/ watcher'[c] = NotWatched,
         \A c \in Children : route[c].synthetic => route'[c].synthetic,
         \A p \in Pages, c \in Children, n \in Nat :
            Reported(p, c, n) /\ ToCome(p, c, n)' => ToCome(p, c, n)
  PROVE  OnceInv'
<1>1. \A p \in Pages, c \in Children, n \in Nat :
         /\ Reported(p, c, n)' => Reported(p, c, n)
         /\ Refusing(p, c, n)' => Refusing(p, c, n) /\ (Reported(p, c, n)' <=> Reported(p, c, n))
  <2> SUFFICES ASSUME NEW p \in Pages, NEW c \in Children, NEW n \in Nat
               PROVE  /\ Reported(p, c, n)' => Reported(p, c, n)
                      /\ Refusing(p, c, n)' => Refusing(p, c, n) /\ (Reported(p, c, n)' <=> Reported(p, c, n))
    OBVIOUS
  <2>1. Told(p, c, "attached", n)' = Told(p, c, "attached", n)
    BY DEF Told
  <2>2. CASE forwarder'[p] = forwarder[p]
    <3>1. /\ Refusing(p, c, n)' <=> Refusing(p, c, n)
          /\ Doing(p, c, "notify", "attached", n)' <=> Doing(p, c, "notify", "attached", n)
      BY <2>2, TasksLeftAlone
    <3> QED BY <2>1, <3>1 DEF Reported
  <2>3. CASE forwarder'[p] = Idle
    <3>1. ~Refusing(p, c, n)' /\ ~Doing(p, c, "notify", "attached", n)'
      BY <2>3, TasksLeftAlone
    <3> QED BY <2>1, <3>1 DEF Reported
  <2> QED BY <2>2, <2>3
<1>2. InvRefused'
  BY <1>1 DEF OnceInv, InvRefused
<1>3. InvOnce'
  <2> SUFFICES ASSUME ~disposed, NEW p \in Pages, NEW c \in Children, NEW n \in Nat, Reported(p, c, n)'
               PROVE  Once(p, c, n)'
    BY DEF InvOnce
  <2>1. Reported(p, c, n)
    BY <1>1
  <2>2. Once(p, c, n)
    BY <2>1 DEF OnceInv, InvOnce
  <2>3. Told(p, c, "detached", n)' = Told(p, c, "detached", n)
    BY DEF Told
  <2>4. Withdrawing(p, c, n)' => Withdrawing(p, c, n)
    BY TasksLeftAlone
  <2>5. (Ending(c, n)' => Ending(c, n)) /\ (Watched(c, n)' => Watched(c, n))
    BY WatchersLeftAlone
  <2>6. Settled(p, c, n)
    BY <2>1, <2>3, <2>4, <2>5 DEF Settled
  <2> QED BY <2>2, <2>6, SettledStaysOnce
<1> QED BY <1>2, <1>3 DEF OnceInv

\* The event task starts with an attachment that nobody knew.
LEMMA RouteAttachedKeepsOnce ==
  ASSUME OnePage, SessionInv, InvOrder, OnceInv, NEW p \in Pages, RouteAttached(p)
  PROVE  OnceInv'
<1>0. IInv /\ MessagesAreOfChildren /\ SessionsTyped /\ InvLines
  BY DEF SessionInv
<1>1. PICK msg : msg = Head(sink[p])
  OBVIOUS
<1>2. /\ sink[p] # <<>> /\ told' = told /\ forwarder[p] = Idle /\ msg \in Message
      /\ \A b \in Children : watcher'[b] # watcher[b] =>
            \/ watcher'[b] = NotWatched
            \/ b = msg.child /\ watcher'[b] = [at |-> "watching", page |-> p, number |-> msg.number]
  BY <1>1, TakenMessage
<1>3. PICK c \in Children : c = msg.child
  BY <1>2 DEF Message
<1>4. PICK m \in Nat : m = msg.number
  BY <1>2 DEF Message
<1>5. /\ msg.kind = "attached" /\ disposed' = disposed
      /\ forwarder' = At(p, "notify", msg) \/ forwarder' = At(p, "refuse", msg)
      /\ route' = route \/ route' = Ensured(c)
  BY <1>1, <1>3 DEF RouteAttached
<1>6. PICK step \in {"notify", "refuse"} : forwarder'[p] = [at |-> step, msg |-> msg]
  <2>1. forwarder \in [Pages -> {Idle} \cup [at : {"notify", "activate", "refuse"}, msg : Message]]
    BY <1>0 DEF MessagesAreOfChildren
  <2> QED BY <1>5, <2>1 DEF At
<1>7. \A b \in Children : route[b].synthetic => route'[b].synthetic
  BY <1>0, <1>5, EnsuredKeepsMark DEF SameMark
<1>8. ~Seen(p, c, m)
  <2>1. 1 \in DOMAIN sink[p] /\ sink[p][1] = msg
    BY <1>0, <1>1, <1>2, RemainingMessages DEF MessagesAreOfChildren
  <2>2. ~After(msg, m)
    BY <1>4, <1>5 DEF After
  <2> QED BY <1>3, <2>1, <2>2 DEF InvOrder, Older
<1>9. \A q \in Pages : NoneToCome(q)
  BY TakesKeepsOrder
<1>10. \A b \in Children, n \in Nat :
          /\ Doing(p, b, "notify", "attached", n)' => b = c /\ n = m /\ step = "notify"
          /\ ~Withdrawing(p, b, n)'
          /\ Refusing(p, b, n)' => b = c /\ n = m /\ step = "refuse"
  BY <1>3, <1>4, <1>5, <1>6 DEF Doing, Handles, Withdrawing, Refusing
<1>11. \A b \in Children, n \in Nat :
          /\ Ending(b, n)' => Ending(b, n)
          /\ Watched(b, n)' => Watched(b, n) \/ (b = c /\ n = m)
  <2> SUFFICES ASSUME NEW b \in Children, NEW n \in Nat
               PROVE  /\ Ending(b, n)' => Ending(b, n)
                      /\ Watched(b, n)' => Watched(b, n) \/ (b = c /\ n = m)
    OBVIOUS
  <2>1. CASE watcher'[b] = watcher[b] \/ watcher'[b] = NotWatched
    BY <2>1, WatchersLeftAlone
  <2>2. CASE b = c /\ watcher'[b] = [at |-> "watching", page |-> p, number |-> m]
    BY <2>2 DEF Ending, Watched
  <2> QED BY <1>2, <1>3, <1>4, <2>1, <2>2
<1>12. \A b \in Children, n \in Nat, kind \in {"attached", "detached"} : Told(p, b, kind, n)' = Told(p, b, kind, n)
  BY <1>2 DEF Told
<1>13. \A kind \in {"attached", "detached"} : Told(p, c, kind, m) = {}
  <2> SUFFICES ASSUME NEW kind \in {"attached", "detached"}, Told(p, c, kind, m) # {} PROVE FALSE
    OBVIOUS
  <2>1. PICK i \in DOMAIN told[p][c] : told[p][c][i] = [kind |-> kind, number |-> m]
    BY DEF Told
  <2>2. told[p][c][i].number = m
    BY <2>1
  <2> QED BY <1>8, <2>2 DEF Seen
<1>14. InvRefused'
  <2> SUFFICES ASSUME NEW q \in Pages, NEW b \in Children, NEW n \in Nat, Refusing(q, b, n)'
               PROVE  ~Reported(q, b, n)'
    BY DEF InvRefused
  <2>1. q = p
    BY DEF OnePage
  <2>2. b = c /\ n = m /\ step = "refuse"
    BY <1>10, <2>1
  <2>3. ~Doing(p, c, "notify", "attached", m)'
    BY <1>10, <2>2
  <2>4. Told(p, c, "attached", m)' = {}
    BY <1>12, <1>13
  <2> QED BY <2>1, <2>2, <2>3, <2>4 DEF Reported
<1>15. InvOnce'
  <2> SUFFICES ASSUME ~disposed, NEW q \in Pages, NEW b \in Children, NEW n \in Nat, Reported(q, b, n)'
               PROVE  Once(q, b, n)'
    BY <1>5 DEF InvOnce
  <2>1. q = p
    BY DEF OnePage
  <2>2. CASE b = c /\ n = m
    <3>1. Told(p, c, "detached", m)' = {}
      BY <1>12, <1>13
    <3>2. ~Withdrawing(p, c, m)'
      BY <1>10
    <3>3. ~Ending(c, m)'
      BY <1>8, <1>11, KnownIsSeen
    <3> QED BY <2>1, <2>2, <3>1, <3>2, <3>3 DEF Once, Single
  <2>3. CASE ~(b = c /\ n = m)
    <3>1. Reported(p, b, n)
      BY <1>10, <1>12, <2>1, <2>3 DEF Reported
    <3>2. Once(p, b, n)
      BY <3>1 DEF OnceInv, InvOnce
    <3>3. Settled(p, b, n)
      BY <1>7, <1>9, <1>10, <1>11, <1>12, <2>3 DEF Settled, NoneToCome
    <3> QED BY <2>1, <3>2, <3>3, SettledStaysOnce
  <2> QED BY <2>2, <2>3
<1> QED BY <1>14, <1>15 DEF OnceInv

\* After a detachment is read, none that is known is to come.
LEMMA ReadIsNotToCome ==
  ASSUME IInv, MessagesAreOfChildren, InvOrder, NEW p \in Pages, sink[p] # <<>>,
         sink' = [sink EXCEPT ![p] = Tail(@)], native' = native,
         NEW msg, msg = Head(sink[p]), msg.kind = "detached",
         NEW n \in Nat, Seen(p, msg.child, n)
  PROVE  ~ToCome(p, msg.child, n)'
<1>1. sink \in [Pages -> Seq(Message)] /\ msg \in Message
  <2>1. sink \in [Pages -> Seq(Message)] /\ sink[p] \in Seq(Message)
    BY DEF MessagesAreOfChildren
  <2> QED BY <2>1
<1>2. sink'[p] = Tail(sink[p])
  BY <1>1
<1>3. /\ 1 \in DOMAIN sink[p] /\ sink[p][1] = msg
      /\ \A i \in DOMAIN sink'[p] : i + 1 \in DOMAIN sink[p] /\ sink'[p][i] = sink[p][i + 1] /\ 1 < i + 1
  BY <1>1, <1>2, RemainingMessages
<1>4. msg.child \in Children /\ msg.number \in Nat
  BY <1>1 DEF Message
<1>5. After(msg, n)
  BY <1>3, <1>4 DEF InvOrder, Older
<1>6. CASE native'[msg.child].on /\ native'[msg.child].count = n
  <2>1. DatedFor(msg, native[msg.child])
    BY <1>3 DEF InvOrder, Dated
  <2>2. msg.number < n
    BY <1>6, <2>1 DEF DatedFor
  <2> QED BY <1>4, <1>5, <2>2 DEF After
<1>7. ASSUME NEW i \in DOMAIN sink'[p],
             sink'[p][i] = [kind |-> "detached", child |-> msg.child, number |-> n]
      PROVE  FALSE
  <2>1. /\ i + 1 \in DOMAIN sink[p] /\ 1 < i + 1
        /\ sink[p][i + 1] = [kind |-> "detached", child |-> msg.child, number |-> n]
    BY <1>3, <1>7
  <2>2. sink[p][i + 1].child = msg.child /\ sink[p][i + 1].number = n
    BY <2>1
  <2>3. Before(msg, sink[p][i + 1])
    BY <1>3, <2>1, <2>2 DEF InvOrder, InOrder
  <2>4. msg.number < n
    BY <2>2, <2>3 DEF Before
  <2> QED BY <1>4, <1>5, <2>4 DEF After
<1> QED BY <1>6, <1>7 DEF ToCome

\* The event task does not tell again what the watcher told.
LEMMA RouteDetachedKeepsOnce ==
  ASSUME OnePage, SessionInv, InvOrder, OnceInv, NEW p \in Pages, RouteDetached(p)
  PROVE  OnceInv'
<1>0. IInv /\ MessagesAreOfChildren /\ SessionsTyped /\ InvLines
  BY DEF SessionInv
<1>1. PICK msg : msg = Head(sink[p])
  OBVIOUS
<1>2. /\ sink[p] # <<>> /\ sink' = [sink EXCEPT ![p] = Tail(@)] /\ native' = native /\ told' = told
      /\ forwarder[p] = Idle /\ msg \in Message
  BY <1>1, TakenMessage
<1>3. PICK c \in Children : c = msg.child
  BY <1>2 DEF Message
<1>4. PICK m \in Nat : m = msg.number
  BY <1>2 DEF Message
<1>5. /\ msg.kind = "detached" /\ disposed' = disposed
      /\ route' = [SentTo(c, Pause) EXCEPT ![c].synthetic = FALSE]
      /\ forwarder' = forwarder \/ (forwarder' = At(p, "notify", msg) /\ ~(route[c].exists /\ route[c].synthetic))
      /\ IF owner[c] = None THEN watcher' = watcher ELSE watcher' = [watcher EXCEPT ![c] = NotWatched]
  BY <1>1, <1>3 DEF RouteDetached
<1>6. forwarder'[p] = Idle \/ (forwarder'[p] = [at |-> "notify", msg |-> msg]
                                /\ ~(route[c].exists /\ route[c].synthetic))
  <2>1. forwarder \in [Pages -> {Idle} \cup [at : {"notify", "activate", "refuse"}, msg : Message]]
    BY <1>0 DEF MessagesAreOfChildren
  <2> QED BY <1>2, <1>5, <2>1 DEF At
<1>7. \A b \in Children \ {c} : route'[b] = route[b]
  BY <1>0, <1>5 DEF SentTo, IInv, Typed
<1>8. \A n \in Nat : Seen(p, c, n) => ~ToCome(p, c, n)'
  BY <1>0, <1>1, <1>2, <1>3, <1>5, ReadIsNotToCome
<1>9. \A q \in Pages : NoneToCome(q)
  BY TakesKeepsOrder
<1>10. ToCome(p, c, m)
  <2>1. 1 \in DOMAIN sink[p] /\ sink[p][1] = msg
    BY <1>0, <1>1, <1>2, RemainingMessages DEF MessagesAreOfChildren
  <2>2. msg = [kind |-> "detached", child |-> c, number |-> m]
    BY <1>2, <1>3, <1>4, <1>5 DEF Message
  <2> QED BY <2>1, <2>2 DEF ToCome
<1>11. \A b \in Children, n \in Nat :
          /\ ~Doing(p, b, "notify", "attached", n)'
          /\ ~Refusing(p, b, n)'
          /\ Withdrawing(p, b, n)' => b = c /\ n = m /\ ~(route[c].exists /\ route[c].synthetic)
  BY <1>3, <1>4, <1>5, <1>6 DEF Doing, Handles, Withdrawing, Refusing
<1>12. /\ \A b \in Children : watcher'[b] = watcher[b] \/ watcher'[b] = NotWatched
       /\ watcher'[c].at # "watching"
  <2>1. watcher \in [Children -> Watch]
    BY <1>0 DEF SessionsTyped
  <2>2. owner[c] = None => watcher[c].at # "watching"
    BY <1>0 DEF InvLines, LineOf, Line, Watching
  <2> QED BY <1>5, <2>1, <2>2 DEF NotWatched
<1>13. \A b \in Children, n \in Nat : (Ending(b, n)' => Ending(b, n)) /\ (Watched(b, n)' => Watched(b, n))
  BY <1>12, WatchersLeftAlone
<1>14. \A b \in Children, n \in Nat, kind \in {"attached", "detached"} : Told(p, b, kind, n)' = Told(p, b, kind, n)
  BY <1>2 DEF Told
<1>15. InvRefused'
  BY <1>11 DEF InvRefused, OnePage
<1>16. InvOnce'
  <2> SUFFICES ASSUME ~disposed, NEW q \in Pages, NEW b \in Children, NEW n \in Nat, Reported(q, b, n)'
               PROVE  Once(q, b, n)'
    BY <1>5 DEF InvOnce
  <2>1. q = p
    BY DEF OnePage
  <2>2. Reported(p, b, n)
    BY <1>11, <1>14, <2>1 DEF Reported
  <2>3. Once(p, b, n)
    BY <2>2 DEF OnceInv, InvOnce
  <2>4. CASE b # c
    <3>1. Settled(p, b, n)
      BY <1>7, <1>9, <1>11, <1>13, <1>14, <2>4 DEF Settled, NoneToCome
    <3> QED BY <2>1, <2>3, <3>1, SettledStaysOnce
  <2>5. CASE b = c
    <3>1. ~ToCome(p, c, n)'
      BY <1>8, <2>2, <2>5, KnownIsSeen
    <3>2. Withdrawing(p, c, n)' => ~Ending(c, n)' /\ ~Watched(c, n)' /\ Told(p, c, "detached", n)' = {}
      <4> SUFFICES ASSUME Withdrawing(p, c, n)'
                   PROVE  ~Ending(c, n) /\ ~Watched(c, n)' /\ Told(p, c, "detached", n) = {}
        BY <1>13, <1>14
      <4>1. n = m /\ ~(route[c].exists /\ route[c].synthetic)
        BY <1>11
      <4>2. ~route[c].synthetic
        <5>1. ~route[c].exists => route[c] = NoRoute
          BY <1>0 DEF InvLines, LineOf, Line, Existing
        <5> QED BY <4>1, <5>1 DEF NoRoute
      <4>3. ~Watched(c, n)'
        BY <1>12 DEF Watched
      <4> QED BY <1>10, <2>3, <2>5, <4>1, <4>2, <4>3 DEF Once
    <3>3. Ending(c, n)' \/ Watched(c, n)' => Told(p, c, "detached", n)' = {}
      BY <1>13, <1>14, <2>3, <2>5 DEF Once
    <3>4. Single(Told(p, c, "detached", n)')
      BY <1>14, <2>3, <2>5 DEF Once
    <3> QED BY <2>1, <2>5, <3>1, <3>2, <3>3, <3>4 DEF Once
  <2> QED BY <2>4, <2>5
<1> QED BY <1>15, <1>16 DEF OnceInv

\* What the event task has to tell, it tells once.
LEMMA NotifyKeepsOnce ==
  ASSUME OnePage, SessionInv, OnceInv, NEW p \in Pages, Notify(p)
  PROVE  OnceInv'
<1>0. IInv /\ MessagesAreOfChildren /\ SessionsTyped
  BY DEF SessionInv
<1>1. forwarder[p].at = "notify" /\ Idle.at = "idle" /\ "idle" # "notify"
  BY DEF Notify, Idle
<1>2. PICK msg \in Message : msg = forwarder[p].msg
  BY <1>0, <1>1, ForwarderIsTyped
<1>3. PICK c \in Children : c = msg.child
  BY <1>2 DEF Message
<1>4. PICK m \in Nat : m = msg.number
  BY <1>2 DEF Message
<1>5. PICK kind \in {"attached", "detached"} : kind = msg.kind
  BY <1>2 DEF Message
<1>6. /\ Tell(p, c, kind, m) /\ UNCHANGED <<native, sink, route, watcher, disposed>>
      /\ forwarder' = At(p, "activate", msg) \/ forwarder' = [forwarder EXCEPT ![p] = Idle]
  BY <1>2, <1>3, <1>4, <1>5 DEF Notify, browser
<1>7. Grown(p, c, kind, m)
  BY <1>0, <1>6, TellGrows
<1>8. Doing(p, c, "notify", kind, m)
  BY <1>1, <1>2, <1>3, <1>4, <1>5 DEF Doing, Handles
<1>9. \A b \in Children, n \in Nat : Doing(p, b, "notify", "detached", n) => b = c /\ n = m /\ kind = "detached"
  BY <1>2, <1>3, <1>4, <1>5 DEF Doing, Handles
<1>10. \A b \in Children, n \in Nat :
          /\ ~Doing(p, b, "notify", "attached", n)' /\ ~Withdrawing(p, b, n)' /\ ~Refusing(p, b, n)'
  <2>1. forwarder \in [Pages -> {Idle} \cup [at : {"notify", "activate", "refuse"}, msg : Message]]
    BY <1>0 DEF MessagesAreOfChildren
  <2>2. forwarder'[p] = [at |-> "activate", msg |-> msg] \/ forwarder'[p] = Idle
    BY <1>6, <2>1 DEF At
  <2> QED BY <2>2 DEF Doing, Handles, Withdrawing, Refusing, Idle
<1>11. InvRefused'
  BY <1>10 DEF InvRefused, OnePage
<1>12. InvOnce'
  <2> SUFFICES ASSUME ~disposed, NEW q \in Pages, NEW b \in Children, NEW n \in Nat, Reported(q, b, n)'
               PROVE  Once(q, b, n)'
    BY <1>6 DEF InvOnce
  <2>1. q = p
    BY DEF OnePage
  <2>2. Told(p, b, "attached", n)' # {}
    BY <1>10, <2>1 DEF Reported
  <2>3. Reported(p, b, n)
    <3>1. CASE b = c /\ n = m /\ kind = "attached"
      BY <1>8, <3>1 DEF Reported
    <3>2. CASE ~(b = c /\ n = m /\ kind = "attached")
      <4>1. Told(p, b, "attached", n)' = Told(p, b, "attached", n)
        BY <1>7, <3>2 DEF Grown
      <4> QED BY <2>2, <4>1 DEF Reported
    <3> QED BY <3>1, <3>2
  <2>4. Once(p, b, n)
    BY <2>3 DEF OnceInv, InvOnce
  <2>5. /\ (Ending(b, n)' <=> Ending(b, n)) /\ (Watched(b, n)' <=> Watched(b, n))
        /\ ToCome(p, b, n)' <=> ToCome(p, b, n)
        /\ route'[b] = route[b]
    BY <1>6, WatchersLeftAlone DEF ToCome
  <2>6. CASE b = c /\ n = m /\ kind = "detached"
    <3>1. Withdrawing(p, b, n)
      BY <1>8, <2>6 DEF Withdrawing
    <3>2. Told(p, b, "detached", n) = {} /\ ~Ending(b, n) /\ ~Watched(b, n)
      BY <2>4, <3>1 DEF Once
    <3>3. Single(Told(p, b, "detached", n)')
      BY <1>7, <2>6, <3>2 DEF Grown, Single
    <3>4. ToCome(p, b, n) => route[b].synthetic
      BY <2>4, <3>1 DEF Once
    <3> QED BY <1>10, <2>1, <2>5, <3>2, <3>3, <3>4 DEF Once
  <2>7. CASE ~(b = c /\ n = m /\ kind = "detached")
    <3>1. Told(p, b, "detached", n)' = Told(p, b, "detached", n)
      BY <1>7, <2>7 DEF Grown
    <3>2. Settled(p, b, n)
      BY <1>10, <2>5, <3>1 DEF Settled
    <3> QED BY <2>1, <2>4, <3>2, SettledStaysOnce
  <2> QED BY <2>6, <2>7
<1> QED BY <1>11, <1>12 DEF OnceInv

\* A refused attachment was never reported.
LEMMA RefuseAttachedKeepsOnce ==
  ASSUME OnePage, SessionInv, InvOrder, OnceInv, NEW p \in Pages, RefuseAttached(p),
         \A q \in Pages : NoneToCome(q)
  PROVE  OnceInv'
<1>0. IInv /\ MessagesAreOfChildren /\ SessionsTyped
  BY DEF SessionInv
<1>1. forwarder[p].at = "refuse" /\ Idle.at = "idle" /\ "idle" # "refuse"
  BY DEF RefuseAttached, Idle
<1>2. PICK msg \in Message : msg = forwarder[p].msg
  BY <1>0, <1>1, ForwarderIsTyped
<1>3. PICK c \in Children : c = msg.child
  BY <1>2 DEF Message
<1>4. PICK m \in Nat : m = msg.number
  BY <1>2 DEF Message
<1>5. PICK new : new = [msg EXCEPT !.kind = "detached"]
  OBVIOUS
<1>6. new.child = c /\ new.number = m /\ new.kind = "detached"
  BY <1>2, <1>3, <1>4, <1>5 DEF Message
<1>7. forwarder'[p] = [at |-> "notify", msg |-> new] /\ UNCHANGED <<route, watcher, told, disposed>>
  <2>1. forwarder \in [Pages -> {Idle} \cup [at : {"notify", "activate", "refuse"}, msg : Message]]
    BY <1>0 DEF MessagesAreOfChildren
  <2>2. forwarder' = At(p, "notify", new) /\ UNCHANGED <<route, watcher, told, disposed>>
    BY <1>2, <1>5 DEF RefuseAttached
  <2> QED BY <2>1, <2>2 DEF At
<1>8. \A b \in Children, n \in Nat :
          /\ ~Doing(p, b, "notify", "attached", n)' /\ ~Refusing(p, b, n)'
          /\ Withdrawing(p, b, n)' => b = c /\ n = m
  BY <1>6, <1>7 DEF Doing, Handles, Withdrawing, Refusing
<1>9. ~Reported(p, c, m)
  <2>1. msg.kind \in {"attached", "detached"}
    BY <1>2 DEF Message
  <2>2. Doing(p, c, "refuse", msg.kind, m)
    BY <1>1, <1>2, <1>3, <1>4 DEF Doing, Handles
  <2>3. Refusing(p, c, m)
    BY <2>1, <2>2 DEF Refusing
  <2> QED BY <2>3 DEF OnceInv, InvRefused
<1>10. \A b \in Children, n \in Nat, kind \in {"attached", "detached"} : Told(p, b, kind, n)' = Told(p, b, kind, n)
  BY <1>7 DEF Told
<1>11. InvRefused'
  BY <1>8 DEF InvRefused, OnePage
<1>12. InvOnce'
  <2> SUFFICES ASSUME ~disposed, NEW q \in Pages, NEW b \in Children, NEW n \in Nat, Reported(q, b, n)'
               PROVE  Once(q, b, n)'
    BY <1>7 DEF InvOnce
  <2>1. q = p
    BY DEF OnePage
  <2>2. Reported(p, b, n)
    BY <1>8, <1>10, <2>1 DEF Reported
  <2>3. ~(b = c /\ n = m)
    BY <1>9, <2>2
  <2>4. Once(p, b, n)
    BY <2>2 DEF OnceInv, InvOnce
  <2>5. (Ending(b, n)' => Ending(b, n)) /\ (Watched(b, n)' => Watched(b, n)) /\ route'[b] = route[b]
    BY <1>7, WatchersLeftAlone
  <2>6. Settled(p, b, n)
    BY <1>8, <1>10, <2>3, <2>5 DEF Settled, NoneToCome
  <2> QED BY <2>1, <2>4, <2>6, SettledStaysOnce
<1> QED BY <1>11, <1>12 DEF OnceInv

\* The watcher marks the detachment before it tells it.
LEMMA WatcherKeepsOnce ==
  ASSUME OnePage, SessionInv, OnceInv, NEW c \in Children,
         WatcherRemoves(c) \/ WatcherRetires(c) \/ WatcherTells(c)
  PROVE  OnceInv'
<1>0. IInv /\ MessagesAreOfChildren /\ SessionsTyped /\ InvLines
  BY DEF SessionInv
<1>1. watcher \in [Children -> Watch] /\ watcher[c] \in Watch
  BY <1>0 DEF SessionsTyped
<1>2. PICK m \in Nat : m = watcher[c].number
  BY <1>1 DEF Watch
<1>3. UNCHANGED <<native, sink, forwarder, disposed>>
  BY DEF WatcherRemoves, WatcherRetires, WatcherTells, browser
<1>4. /\ \A b \in Children : b # c => watcher'[b] = watcher[b]
      /\ watcher'[c].number = m
      /\ watcher'[c].at = IF WatcherRemoves(c) THEN "retire" ELSE IF WatcherRetires(c) THEN "tell" ELSE "detach"
      /\ WatcherRemoves(c) <=> watcher[c].at = "watching"
      /\ WatcherRetires(c) <=> watcher[c].at = "retire"
      /\ WatcherTells(c) <=> watcher[c].at = "tell"
  <2>1. /\ WatcherRemoves(c) => watcher' = Watches(c, "retire") /\ watcher[c].at = "watching"
        /\ WatcherRetires(c) => watcher' = Watches(c, "tell") /\ watcher[c].at = "retire"
        /\ WatcherTells(c) => watcher' = Watches(c, "detach") /\ watcher[c].at = "tell"
    BY DEF WatcherRemoves, WatcherRetires, WatcherTells
  <2>2. \A step : watcher' = Watches(c, step) =>
           /\ \A b \in Children : b # c => watcher'[b] = watcher[b]
           /\ watcher'[c].number = m /\ watcher'[c].at = step
    <3> SUFFICES ASSUME NEW step, watcher' = Watches(c, step)
                 PROVE  /\ \A b \in Children : b # c => watcher'[b] = watcher[b]
                        /\ watcher'[c].number = m /\ watcher'[c].at = step
      OBVIOUS
    <3>1. watcher' = [watcher EXCEPT ![c] = [watcher[c] EXCEPT !.at = step]]
      BY <1>1 DEF Watches
    <3> QED BY <1>1, <1>2, <3>1 DEF Watch
  <2> QED BY <2>1, <2>2
<1>5. \A p \in Pages, b \in Children, n \in Nat :
         /\ Withdrawing(p, b, n)' <=> Withdrawing(p, b, n)
         /\ Refusing(p, b, n)' <=> Refusing(p, b, n)
         /\ Doing(p, b, "notify", "attached", n)' <=> Doing(p, b, "notify", "attached", n)
         /\ ToCome(p, b, n)' <=> ToCome(p, b, n)
  BY <1>3, TasksLeftAlone DEF ToCome
<1>6. /\ \A p \in Pages, b \in Children, n \in Nat, kind \in {"attached", "detached"} :
            ~(b = c /\ n = m /\ kind = "detached" /\ WatcherTells(c)) => Told(p, b, kind, n)' = Told(p, b, kind, n)
      /\ \A p \in Pages : Told(p, c, "detached", m) = {} => Single(Told(p, c, "detached", m)')
  <2>1. CASE told' = told
    BY <2>1 DEF Told, Single
  <2>2. CASE WatcherTells(c)
    <3>1. PICK page : page = watcher[c].page
      OBVIOUS
    <3>2. Tell(page, c, "detached", m)
      BY <1>2, <2>2, <3>1 DEF WatcherTells
    <3>3. CASE page \in Pages
      <4>1. Grown(page, c, "detached", m)
        BY <1>0, <3>2, <3>3, TellGrows
      <4> QED BY <2>2, <3>3, <4>1 DEF Grown, OnePage, Single
    <3>4. CASE page \notin Pages
      <4>1. told' = told
        BY <1>0, <3>2, <3>4 DEF Tell, SessionsTyped
      <4> QED BY <2>1, <4>1
    <3> QED BY <3>3, <3>4
  <2> QED BY <2>1, <2>2 DEF WatcherRemoves, WatcherRetires
<1>7. /\ \A b \in Children : route[b].synthetic => route'[b].synthetic
      /\ WatcherRemoves(c) /\ ~disposed => route'[c].synthetic
  <2>1. CASE WatcherRemoves(c)
    <3>1. route' = IF route[c].exists THEN [route EXCEPT ![c].synthetic = TRUE] ELSE route
      BY <2>1 DEF WatcherRemoves
    <3>2. ~disposed => route[c].exists
      BY <1>0, <1>4, <2>1 DEF InvLines, LineOf, Line, Existing, Watching
    <3>3. route \in [Children -> Route]
      BY <1>0 DEF IInv, Typed
    <3>4. route[c].exists => route'[c].synthetic /\ \A b \in Children \ {c} : route'[b] = route[b]
      BY <3>1, <3>3 DEF Route
    <3>5. ~route[c].exists => route' = route
      BY <3>1
    <3> QED BY <3>2, <3>4, <3>5
  <2>2. CASE ~WatcherRemoves(c)
    BY <2>2 DEF WatcherRetires, WatcherTells
  <2> QED BY <2>1, <2>2
<1>8. \A p \in Pages, b \in Children, n \in Nat : Reported(p, b, n)' <=> Reported(p, b, n)
  BY <1>5, <1>6 DEF Reported
<1>9. InvRefused'
  BY <1>5, <1>8 DEF OnceInv, InvRefused
<1>10. \A b \in Children, n \in Nat : b # c => (Ending(b, n)' <=> Ending(b, n)) /\ (Watched(b, n)' <=> Watched(b, n))
  BY <1>4, WatchersLeftAlone
<1>11. /\ \A n \in Nat : Ending(c, n)' => n = m
       /\ \A n \in Nat : ~Watched(c, n)'
       /\ WatcherRemoves(c) => Watched(c, m)
       /\ WatcherRetires(c) \/ WatcherTells(c) => Ending(c, m)
       /\ WatcherTells(c) => ~Ending(c, m)'
  BY <1>2, <1>4 DEF Ending, Watched
<1>12. InvOnce'
  <2> SUFFICES ASSUME ~disposed, NEW p \in Pages, NEW b \in Children, NEW n \in Nat, Reported(p, b, n)'
               PROVE  Once(p, b, n)'
    BY <1>3 DEF InvOnce
  <2>1. Reported(p, b, n) /\ Once(p, b, n)
    BY <1>8 DEF OnceInv, InvOnce
  <2>2. CASE ~(b = c /\ n = m)
    <3>1. Settled(p, b, n)
      BY <1>5, <1>6, <1>7, <1>10, <1>11, <2>2 DEF Settled
    <3> QED BY <2>1, <3>1, SettledStaysOnce
  <2>3. CASE b = c /\ n = m
    <3>1. Told(p, c, "detached", m) = {} /\ ~Withdrawing(p, c, m)
      BY <1>11, <2>1, <2>3 DEF Once
    <3>2. Single(Told(p, c, "detached", m)') /\ ~Withdrawing(p, c, m)'
      BY <1>5, <1>6, <3>1
    <3>3. ~WatcherTells(c) => Told(p, c, "detached", m)' = {}
      BY <1>6, <3>1
    <3>4. ToCome(p, c, m)' => route'[c].synthetic
      BY <1>5, <1>7, <1>11, <2>1, <2>3 DEF Once
    <3> QED BY <1>11, <2>3, <3>2, <3>3, <3>4 DEF Once
  <2> QED BY <2>2, <2>3
<1> QED BY <1>9, <1>12 DEF OnceInv

\* Every step keeps it to one report.
LEMMA OnceKept ==
  ASSUME OnePage, SessionInv, SessionInv', InvOrder, OnceInv, [Next]_vars
  PROVE  OnceInv'
<1>0. IInv /\ MessagesAreOfChildren /\ SessionsTyped /\ InvLines /\ IInv'
  BY DEF SessionInv
<1>1. ASSUME UNCHANGED <<native, sink, told, forwarder, watcher, disposed>>,
             \A c \in Children : route[c].synthetic => route'[c].synthetic
      PROVE  OnceInv'
  BY <1>1, QuietStepKeepsOnce DEF ToCome
<1>2. ASSUME NEW c \in Children,
             \/ RouteEvent(c) \/ NotifierStep(c)
             \/ OpenRaw(c) \/ CloseRaw(c) \/ LateAnswer(c)
             \/ \E kind \in Kinds : Request(c, kind) \/ Answer(c, kind) \/ GivesUp(c, kind)
      PROVE  OnceInv'
  BY <1>0, <1>1, <1>2, UnnoticedSteps DEF Unnoticed, SameMark
<1>3. ASSUME NEW c \in Children, Browser(c) PROVE OnceInv'
  <2>1. UNCHANGED <<told, forwarder, watcher, route, disposed>>
    BY <1>3 DEF Browser, NativeAttach, NativeDetach, NativeEvent, tasks
  <2>2. \A p \in Pages, b \in Children, n \in Nat :
           Reported(p, b, n) /\ ToCome(p, b, n)' => ToCome(p, b, n)
    <3>1. CASE NativeAttach(c)
      <4> SUFFICES ASSUME NEW p \in Pages, NEW b \in Children, NEW n \in Nat,
                          Reported(p, b, n), ToCome(p, b, n)'
                   PROVE  ToCome(p, b, n)
        OBVIOUS
      <4>1. n <= native[b].count
        BY KnownIsSeen DEF InvOrder, Older
      <4> QED BY <1>0, <3>1, <4>1, NativeAttachIsOrderly
    <3>2. CASE NativeDetach(c)
      <4>1. AskedToDetach(c)
        BY <3>2 DEF NativeDetach, AskedToDetach
      <4>2. \A p \in Pages : NoneToCome(p)
        BY <1>0, <4>1, AskedToDetachIsOrderly
      <4> QED BY <4>2 DEF NoneToCome
    <3>3. CASE NativeEvent(c)
      <4>1. sink' = sink /\ \A b \in Children : native'[b].count = native[b].count /\ (native'[b].on => native[b].on)
        BY <1>0, <3>3 DEF NativeEvent, IInv, Typed
      <4> QED BY <4>1 DEF ToCome
    <3> QED BY <1>3, <3>1, <3>2, <3>3 DEF Browser
  <2> QED BY <2>1, <2>2, QuietStepKeepsOnce
<1>4. ASSUME NEW p \in Pages, ForwarderStep(p) PROVE OnceInv'
  <2>1. CASE RefuseAttached(p)
    <3>1. AskedToDetach(forwarder[p].msg.child) /\ forwarder[p].msg.child \in Children
      BY <1>0, <2>1, ForwarderIsTyped DEF RefuseAttached, Message
    <3>2. PICK c \in Children : AskedToDetach(c)
      BY <3>1
    <3>3. \A q \in Pages : NoneToCome(q)
      BY <1>0, <3>2, AskedToDetachIsOrderly
    <3> QED BY <2>1, <3>3, RefuseAttachedKeepsOnce
  <2>2. CASE Activate(p)
    <3>1. /\ UNCHANGED <<native, sink, told, watcher, disposed>>
          /\ forwarder' = [forwarder EXCEPT ![p] = Idle]
      BY <2>2 DEF Activate, browser
    <3>2. \A q \in Pages : forwarder'[q] = forwarder[q] \/ forwarder'[q] = Idle
      BY <1>0, <3>1 DEF MessagesAreOfChildren
    <3>3. \A b \in Children : route[b].synthetic => route'[b].synthetic
      <4>1. forwarder[p].msg.child \in Children
        BY <1>0, <2>2, ForwarderIsTyped DEF Activate, Message
      <4>2. PICK c \in Children : c = forwarder[p].msg.child
        BY <4>1
      <4>3. route' = route \/ route' = SentTo(c, Listen)
        BY <2>2, <4>2 DEF Activate
      <4>4. CASE route' = SentTo(c, Listen)
        <5>1. Reached(route[c], Listen, route'[c]) /\ \A b \in Children \ {c} : route'[b] = route[b]
          BY <1>0, <4>4, SentToIsReached
        <5>2. Listen \in Items /\ route[c] \in Route
          BY <1>0 DEF Items, IInv, Typed
        <5>3. route'[c].synthetic = route[c].synthetic
          BY <5>1, <5>2, ReachedKeepsMark
        <5> QED BY <5>1, <5>3
      <4> QED BY <4>3, <4>4
    <3> QED BY <3>1, <3>2, <3>3, QuietStepKeepsOnce DEF ToCome
  <2> QED BY <1>4, <2>1, <2>2, RouteAttachedKeepsOnce, RouteDetachedKeepsOnce, NotifyKeepsOnce
          DEF ForwarderStep
<1>5. ASSUME NEW c \in Children, WatcherStep(c) PROVE OnceInv'
  <2>1. CASE WatcherDetaches(c)
    <3>1. /\ UNCHANGED <<told, forwarder, route, disposed>>
          /\ watcher' = [watcher EXCEPT ![c] = NotWatched]
      BY <2>1 DEF WatcherDetaches
    <3>2. \A b \in Children : watcher'[b] = watcher[b] \/ watcher'[b] = NotWatched
      BY <1>0, <3>1 DEF SessionsTyped
    <3>3. \A q \in Pages : NoneToCome(q)
      BY <1>0, <2>1, AskedToDetachIsOrderly DEF WatcherDetaches
    <3> QED BY <3>1, <3>2, <3>3, QuietStepKeepsOnce DEF NoneToCome
  <2> QED BY <1>5, <2>1, WatcherKeepsOnce DEF WatcherStep
<1>6. ASSUME NEW p \in Pages, DetachPage(p) PROVE OnceInv'
  <2>1. UNCHANGED <<native, route, told, disposed>>
    BY <1>6 DEF DetachPage, browser
  <2>2. /\ \A q \in Pages : forwarder'[q] = forwarder[q] \/ forwarder'[q] = Idle
        /\ \A c \in Children : watcher'[c] = watcher[c] \/ watcher'[c] = NotWatched
    BY <1>0, <1>6 DEF DetachPage, MessagesAreOfChildren
  <2>3. \A q \in Pages : sink'[q] = sink[q] \/ sink'[q] = <<>>
    BY <1>6, DetachPageIsNothingNew
  <2>4. \A q \in Pages : NoneToCome(q)
    BY <1>0, <2>1, <2>3, SteadyInOrder
  <2> QED BY <2>1, <2>2, <2>4, QuietStepKeepsOnce DEF NoneToCome
<1>7. CASE Dispose
  <2>1. UNCHANGED <<told, forwarder>> /\ disposed'
    BY <1>7 DEF Dispose, tasks
  <2>2. \A p \in Pages, c \in Children, n \in Nat :
           (Refusing(p, c, n)' <=> Refusing(p, c, n)) /\ (Reported(p, c, n)' <=> Reported(p, c, n))
    BY <2>1, TasksLeftAlone DEF Reported, Told
  <2> QED BY <2>1, <2>2 DEF OnceInv, InvRefused, InvOnce
<1>8. CASE UNCHANGED vars
  BY <1>1, <1>8 DEF vars, browser, tasks
<1> QED BY <1>2, <1>3, <1>4, <1>5, <1>6, <1>7, <1>8 DEF Next

\* At first nothing is told.
LEMMA OnceInitially == Init => OnceInv
<1> SUFFICES ASSUME Init, NEW p \in Pages, NEW c \in Children, NEW n \in Nat
             PROVE  ~Refusing(p, c, n) /\ ~Reported(p, c, n)
  BY DEF OnceInv, InvRefused, InvOnce
<1>1. forwarder[p] = Idle /\ told[p][c] = <<>> /\ DOMAIN <<>> = {}
  BY DEF Init
<1> QED BY <1>1 DEF Refusing, Reported, Doing, Handles, Told

\* A set of at most one element.
LEMMA SingleHasOne ==
  ASSUME NEW S, Single(S)
  PROVE  Cardinality(S) <= 1
<1>1. CASE S = {}
  BY <1>1, FS_EmptySet
<1>2. CASE S # {}
  <2>1. PICK x : x \in S
    BY <1>2
  <2>2. S = {x}
    BY <2>1 DEF Single
  <2>3. Cardinality({x}) = 1
    BY FS_Singleton
  <2> QED BY <2>2, <2>3
<1> QED BY <1>1, <1>2

(* On a target with one page session no attachment that the client was     *)
(* told of is reported detached twice: not by the watcher of a failed      *)
(* route and again by the event task when the browser's own detach event   *)
(* arrives, however late, nor by two of either (synthetic_detach).         *)
THEOREM DetachIsReportedOnce == OnePage => (Spec => []DetachIsToldOnce)
<1> SUFFICES ASSUME OnePage PROVE Spec => []DetachIsToldOnce
  OBVIOUS
<1>1. Init => SessionInv /\ InvOrder /\ OnceInv
  BY Initially, SessionsTypedInitially, LinesInitially, MessagesInitially, OrderInitially, OnceInitially
  DEF SessionInv
<1>2. SessionInv /\ InvOrder /\ OnceInv /\ [Next]_vars => SessionInv' /\ InvOrder' /\ OnceInv'
  <2> SUFFICES ASSUME SessionInv, InvOrder, OnceInv, [Next]_vars
               PROVE  SessionInv' /\ InvOrder' /\ OnceInv'
    OBVIOUS
  <2>1. SessionInv'
    BY StepKeeps, MessagesKept, SessionsTypedKept, LinesKept DEF SessionInv
  <2> QED BY <2>1, OrderKept, OnceKept
<1>3. OnceInv => DetachIsToldOnce
  <2> SUFFICES ASSUME OnceInv, ~disposed, NEW p \in Pages, NEW c \in Children, NEW n \in 1..MaxAttach,
                      Told(p, c, "attached", n) # {}
               PROVE  Cardinality(Told(p, c, "detached", n)) <= 1
    BY DEF DetachIsToldOnce
  <2>1. n \in Nat
    BY LimitsAssumption
  <2>2. Once(p, c, n)
    BY <2>1 DEF OnceInv, InvOnce, Reported
  <2> QED BY <2>2, SingleHasOne DEF Once
<1> QED BY <1>1, <1>2, <1>3, PTL DEF Spec
=============================================================================
