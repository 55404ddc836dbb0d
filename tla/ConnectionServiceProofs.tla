------------------------ MODULE ConnectionServiceProofs ------------------------
(***************************************************************************)
(* Proofs about ConnectionService, for every set of connections, recipes,  *)
(* runtimes and handlers and every bound.                                  *)
(*                                                                         *)
(* The invariant IInv is inductive: it holds initially (InitKeeps) and     *)
(* every action preserves it (one lemma <Action>Keeps per action).  The    *)
(* safety properties are conjuncts or consequences of IInv; the action     *)
(* property and the refinement of ConnectionLifecycle are proved of a      *)
(* single step taken from a state in which IInv holds.                     *)
(***************************************************************************)
EXTENDS ConnectionServiceInvariant, TLAPS

-----------------------------------------------------------------------------
(***************************************************************************)
(* Effects of the operators that the actions are built from.               *)
(***************************************************************************)

\* Handler p continues with the given locals, the others are where they were.
CallBecomes(p, local) ==
    /\ call' \in [Calls -> CallState]
    /\ call'[p] = local
    /\ \A q \in Calls \ {p} : call'[q] = call[q]

\* Only the status of connection c changes.
StatusBecomes(c, status) ==
    /\ connections' \in [Connections -> ConnectionState]
    /\ connections'[c].status = status
    /\ connections'[c].configuration = connections[c].configuration
    /\ connections'[c].version = connections[c].version
    /\ connections'[c].generation = connections[c].generation
    /\ \A d \in Connections \ {c} : connections'[d] = connections[d]

\* What starting a handler changes.
LEMMA StartEffect ==
  ASSUME TypeOK, NEW p \in Calls, NEW pc \in CallPcs,
         NEW goal \in Goal \cup {NoGoal}, NEW held \in SUBSET Runtimes,
         Start(p, pc, goal, held)
  PROVE  /\ At(p, "idle")
         /\ CallBecomes(p, [pc |-> pc, goal |-> goal, held |-> held])
BY DEF TypeOK, Start, At, CallState, CallBecomes

\* What a handler that goes on keeps.
LEMMA GotoEffect ==
  ASSUME TypeOK, NEW p \in Calls, NEW pc \in CallPcs, Goto(p, pc)
  PROVE  CallBecomes(p, [pc |-> pc, goal |-> call[p].goal,
                         held |-> call[p].held])
BY DEF TypeOK, Goto, CallState, CallBecomes

\* What a handler that returns leaves.
LEMMA ReturnEffect ==
  ASSUME TypeOK, NEW p \in Calls, Return(p)
  PROVE  CallBecomes(p, [pc |-> "idle", goal |-> NoGoal, held |-> {}])
BY DEF TypeOK, Return, CallState, IdleCall, CallPcs, CallBecomes

\* What setting a status changes.
LEMMA WithStatusEffect ==
  ASSUME TypeOK, NEW c \in Connections, NEW status \in ConnectionStatus,
         connections' = WithStatus(connections, c, status)
  PROVE  StatusBecomes(c, status)
BY DEF TypeOK, StatusBecomes, WithStatus, ConnectionState

\* The goal a handler captures is well formed.
LEMMA GoalForType ==
  ASSUME NEW conns \in [Connections -> ConnectionState],
         incarnation \in [Connections -> Nat], NEW c \in Connections
  PROVE  GoalFor(conns, c) \in Goal
BY DEF GoalFor, Goal, AttemptOf, ConnectionAttempt, ConnectionState

\* What is registered is published for some connection.
LEMMA RegisteredFacts ==
  ASSUME TypeOK
  PROVE  /\ Registered \subseteq Runtimes
         /\ \A c \in Connections :
              runtimes[c] # NoRuntime => runtimes[c] \in Registered
         /\ \A r \in Registered : \E c \in Connections :
              runtimes[c] # NoRuntime /\ r = runtimes[c]
BY DEF TypeOK, Registered, RuntimeSlot

(***************************************************************************)
(* Frames: steps that leave a part of the invariant alone.                 *)
(***************************************************************************)

\* A step after which every handler holds at most what it held, none has just
\* opened a runtime, and slots are at most emptied.
LEMMA CustodyFrame ==
  ASSUME TypeOK, FreshIsNowhere, OpenedIsExclusive, HeldIsUnpublished,
         UNCHANGED <<origin, supervisor>>,
         \A q \in Calls : Closing(q)' =>
             Closing(q) /\ call'[q].held \subseteq call[q].held,
         \A q \in Calls : At(q, "opened")' => call'[q] = call[q],
         \A r \in Runtimes : transport'[r] = "unopened" <=>
             transport[r] = "unopened",
         \A r \in Runtimes : transport'[r] \in {"open", "lost"} \/
             (transport'[r] = transport[r]) \/
             (\A q \in Calls : At(q, "opened")' => r \notin call[q].held),
         \A c \in Connections : runtimes'[c] \in {runtimes[c], NoRuntime}
  PROVE  (FreshIsNowhere /\ OpenedIsExclusive /\ HeldIsUnpublished)'
<1>1. FreshIsNowhere'
  BY DEF FreshIsNowhere
<1>2. OpenedIsExclusive'
  <2> SUFFICES ASSUME NEW p \in Calls, At(p, "opened")'
               PROVE  \E r \in Runtimes :
                        /\ call'[p].held = {r}
                        /\ origin'[r] = call'[p].goal
                        /\ transport'[r] \in {"open", "lost"}
                        /\ supervisor'[r] = "none"
                        /\ \A q \in Calls \ {p} :
                             Closing(q)' => r \notin call'[q].held
    BY DEF OpenedIsExclusive
  <2>1. PICK r \in Runtimes :
          /\ call[p].held = {r}
          /\ origin[r] = call[p].goal
          /\ transport[r] \in {"open", "lost"}
          /\ supervisor[r] = "none"
          /\ \A q \in Calls \ {p} : Closing(q) => r \notin call[q].held
    BY DEF OpenedIsExclusive, At
  <2>2. \A q \in Calls \ {p} : Closing(q)' => r \notin call'[q].held
    BY <2>1
  <2> QED BY <2>1, <2>2
<1>3. HeldIsUnpublished'
  BY NoRuntimeAssumption DEF TypeOK, CallState, HeldIsUnpublished
<1> QED BY <1>1, <1>2, <1>3

\* Captured goals stay past as long as versions do not change.
LEMMA GoalsFrame ==
  ASSUME GoalsArePast,
         UNCHANGED <<origin, incarnation>>,
         \A q \in Calls : call'[q].goal \in {call[q].goal, NoGoal},
         \A c \in Connections : Exists(connections', c) =>
             /\ Exists(connections, c)
             /\ connections'[c].version = connections[c].version
             /\ connections'[c].configuration = connections[c].configuration
  PROVE  GoalsArePast'
BY NoGoalAssumption DEF GoalsArePast, GoalIsPast, Goal

\* Open transports stay owned as long as no owner lets go of one.
LEMMA OwnedFrame ==
  ASSUME FreshIsNowhere, OpenTransportIsOwned,
         UNCHANGED <<origin, incarnation>>,
         \A r \in Runtimes : transport'[r] = "open" =>
             transport[r] = "open" /\ (Owned(r) => Owned(r)'),
         \A c \in Connections :
             Exists(connections', c) => Exists(connections, c)
  PROVE  OpenTransportIsOwned'
BY DEF FreshIsNowhere, OpenTransportIsOwned, Goal

-----------------------------------------------------------------------------
(***************************************************************************)
(* Each action preserves the invariant.                                    *)
(***************************************************************************)

\* put_context changes nothing but the existence of the context.
LEMMA PutContextKeeps ==
  ASSUME IInv, PutContext
  PROVE  IInv'
<1>1. UNCHANGED <<connections, runtimes, leases, transport, supervisor, origin,
                  call, incarnation, stopping>>
  BY DEF PutContext
<1>2. contextExists' = TRUE
  BY DEF PutContext
<1>3. TypeOK'
  BY <1>1, <1>2 DEF IInv, TypeOK
<1>4. NothingWithoutContext'
  BY <1>1, <1>2 DEF IInv, NothingWithoutContext, Exists
<1>5. /\ ActiveHasGeneration'
      /\ HandlersHaveGoals'
      /\ GoalsArePast'
      /\ FreshIsNowhere'
      /\ OpenedIsExclusive'
      /\ HeldIsUnpublished'
      /\ PublishedIsWatched'
      /\ PublishedIffConnected'
      /\ LeaseOfExistingConnection'
      /\ OpenTransportIsOwned'
  BY <1>1 DEF IInv, ActiveHasGeneration, HandlersHaveGoals, GoalsArePast,
      FreshIsNowhere, OpenedIsExclusive, HeldIsUnpublished,
      PublishedIsWatched, PublishedIffConnected, LeaseOfExistingConnection,
      OpenTransportIsOwned, At, GoalIsPast, Exists, Closing, AttemptOf, Owned,
      Registered
<1> QED BY <1>3, <1>4, <1>5 DEF IInv

\* A new recipe is a new version, a new entry a new incarnation.
LEMMA ConfigureConnectionKeeps ==
  ASSUME IInv, NEW c \in Connections, NEW configuration \in Configurations,
         ConfigureConnection(c, configuration)
  PROVE  IInv'
<1>1. UNCHANGED <<contextExists, runtimes, leases, transport, supervisor,
                  origin, call, stopping>>
  BY DEF ConfigureConnection
<1>2. /\ contextExists
      /\ connections[c].status \in {"absent", "disconnected", "failed"}
      /\ connections' = [connections EXCEPT ![c] =
           [configuration |-> configuration, version |-> connections[c].version + 1,
            generation |-> connections[c].generation, status |-> "disconnected"]]
      /\ incarnation' = IF Exists(connections, c) THEN incarnation
           ELSE [incarnation EXCEPT ![c] = incarnation[c] + 1]
  BY DEF IInv, TypeOK, ConnectionState, ConnectionStatus, ConfigureConnection,
      MayPutConnection, IsActive, ActiveStatuses, PutConnection
<1>3. runtimes[c] = NoRuntime
  BY <1>2 DEF IInv, PublishedIffConnected
<1>4. TypeOK'
  BY <1>1, <1>2 DEF IInv, TypeOK, ConnectionState, ConnectionStatus
<1>5. (NothingWithoutContext /\ ActiveHasGeneration)'
  BY <1>1, <1>2 DEF IInv, TypeOK, NothingWithoutContext, ActiveHasGeneration,
      Exists
<1>6. \A goal \in Goal : GoalIsPast(goal) => GoalIsPast(goal)'
  BY <1>2 DEF IInv, TypeOK, ConnectionState, NothingWithoutContext, Goal,
      ConnectionAttempt, GoalIsPast, Exists
<1>7. GoalsArePast'
  BY <1>1, <1>6 DEF IInv, GoalsArePast
<1>8. (PublishedIsWatched /\ PublishedIffConnected)'
  BY <1>1, <1>2, <1>3 DEF IInv, TypeOK, PublishedIsWatched,
      PublishedIffConnected, AttemptOf
<1>9. LeaseOfExistingConnection'
  BY <1>1, <1>2 DEF IInv, TypeOK, LeaseOfExistingConnection, Exists
<1>10. OpenTransportIsOwned'
  <2>1. \A s \in Runtimes : Owned(s)' <=> Owned(s)
    BY <1>1 DEF Owned, Registered, Closing
  <2>2. \A s \in Runtimes : transport[s] = "open" =>
          /\ origin[s].connection \in Connections
          /\ origin[s].incarnation <= incarnation[origin[s].connection]
          /\ origin[s].incarnation \in Nat
    BY DEF IInv, FreshIsNowhere, GoalsArePast, GoalIsPast, Goal
  <2> QED BY <2>1, <2>2, <1>1, <1>2 DEF IInv, TypeOK, OpenTransportIsOwned,
      Exists
<1>11. /\ HandlersHaveGoals'
       /\ FreshIsNowhere'
       /\ OpenedIsExclusive'
       /\ HeldIsUnpublished'
  BY <1>1 DEF IInv, HandlersHaveGoals, FreshIsNowhere, OpenedIsExclusive,
      HeldIsUnpublished, At, Closing
<1> QED BY <1>4, <1>5, <1>7, <1>8, <1>9, <1>10, <1>11 DEF IInv

\* Only an inactive entry is deleted, with its lease.
LEMMA DeleteConnectionKeeps ==
  ASSUME IInv, NEW c \in Connections, DeleteConnection(c)
  PROVE  IInv'
<1>1. UNCHANGED <<contextExists, runtimes, transport, supervisor, origin, call,
                  incarnation, stopping>>
  BY DEF DeleteConnection
<1>2. /\ connections[c].status \in {"disconnected", "failed"}
      /\ connections' = [connections EXCEPT ![c] = NoConnection]
      /\ leases' = [leases EXCEPT ![c] = NoRuntime]
  BY DEF IInv, TypeOK, ConnectionState, ConnectionStatus, DeleteConnection,
      MayRemoveConnection, RemoveConnection, Exists, IsActive, ActiveStatuses
<1>3. runtimes[c] = NoRuntime
  BY <1>2 DEF IInv, PublishedIffConnected
<1>4. TypeOK'
  BY <1>1, <1>2 DEF IInv, TypeOK, ConnectionState, NoConnection, RuntimeSlot
<1>5. (NothingWithoutContext /\ ActiveHasGeneration)'
  BY <1>1, <1>2 DEF IInv, TypeOK, NothingWithoutContext, ActiveHasGeneration,
      Exists, NoConnection
<1>6. \A d \in Connections : Exists(connections', d) =>
          Exists(connections, d) /\ connections'[d] = connections[d]
  BY <1>2 DEF IInv, TypeOK, Exists, NoConnection
<1>7. GoalsArePast'
  BY <1>1, <1>6, GoalsFrame DEF IInv
<1>8. (PublishedIsWatched /\ PublishedIffConnected)'
  BY <1>1, <1>2, <1>3 DEF IInv, TypeOK, PublishedIsWatched,
      PublishedIffConnected, AttemptOf, NoConnection
<1>9. LeaseOfExistingConnection'
  BY <1>1, <1>2 DEF IInv, TypeOK, LeaseOfExistingConnection, Exists,
      NoConnection
<1>10. \A s \in Runtimes : Owned(s)' <=> Owned(s)
  BY <1>1 DEF Owned, Registered, Closing
<1>11. OpenTransportIsOwned'
  BY <1>1, <1>6, <1>10, OwnedFrame DEF IInv
<1>12. /\ HandlersHaveGoals'
       /\ FreshIsNowhere'
       /\ OpenedIsExclusive'
       /\ HeldIsUnpublished'
  BY <1>1 DEF IInv, HandlersHaveGoals, FreshIsNowhere, OpenedIsExclusive,
      HeldIsUnpublished, At, Closing
<1> QED BY <1>4, <1>5, <1>7, <1>8, <1>9, <1>11, <1>12 DEF IInv

\* The published runtimes pass to the handler, which alone closes them.
LEMMA DeleteContextKeeps ==
  ASSUME IInv, NEW p \in Calls, DeleteContext(p)
  PROVE  IInv'
<1>1. UNCHANGED <<transport, supervisor, origin, incarnation, stopping>>
  BY DEF DeleteContext
<1>2. /\ At(p, "idle")
      /\ CallBecomes(p, [pc |-> "clearing", goal |-> NoGoal, held |-> Registered])
  BY StartEffect, RegisteredFacts DEF IInv, DeleteContext, CallPcs
<1>3. /\ contextExists' = FALSE
      /\ connections' = [c \in Connections |-> NoConnection]
      /\ runtimes' = [c \in Connections |-> NoRuntime]
      /\ leases' = [c \in Connections |-> NoRuntime]
  BY DEF DeleteContext, NoConnections
<1>4. \A r \in Registered :
          supervisor[r] = "watching" /\ transport[r] # "unopened"
  BY RegisteredFacts DEF IInv, PublishedIsWatched, FreshIsNowhere
<1>5. TypeOK'
  BY <1>1, <1>2, <1>3 DEF IInv, TypeOK, CallBecomes, ConnectionState,
      NoConnection, RuntimeSlot
<1>6. (NothingWithoutContext /\ ActiveHasGeneration)'
  BY <1>3 DEF NothingWithoutContext, ActiveHasGeneration, NoConnection, Exists
<1>7. HandlersHaveGoals'
  BY <1>2 DEF IInv, HandlersHaveGoals, CallBecomes, At
<1>8. GoalsArePast'
  BY <1>1, <1>2, <1>3, GoalsFrame DEF IInv, CallBecomes, Exists, NoConnection
<1>9. FreshIsNowhere'
  BY <1>1, <1>2, <1>4 DEF IInv, FreshIsNowhere, CallBecomes, Closing
<1>10. OpenedIsExclusive'
  BY <1>1, <1>2, <1>4 DEF IInv, OpenedIsExclusive, CallBecomes, Closing, At
<1>11. HeldIsUnpublished'
  BY <1>2, <1>3, NoRuntimeAssumption DEF TypeOK, HeldIsUnpublished,
      CallBecomes, CallState
<1>12. /\ PublishedIsWatched'
       /\ PublishedIffConnected'
       /\ LeaseOfExistingConnection'
  BY <1>3 DEF PublishedIsWatched, PublishedIffConnected,
      LeaseOfExistingConnection, NoConnection
<1>13. OpenTransportIsOwned'
  BY <1>1, <1>3 DEF IInv, FreshIsNowhere, OpenTransportIsOwned, Goal, Exists,
      NoConnection
<1> QED BY <1>5, <1>6, <1>7, <1>8, <1>9, <1>10, <1>11, <1>12, <1>13 DEF IInv

\* Shutdown moves every published runtime to a handler that closes it.
LEMMA ShutdownKeeps ==
  ASSUME IInv, NEW p \in Calls, Shutdown(p)
  PROVE  IInv'
<1>1. UNCHANGED <<contextExists, connections, transport, supervisor, origin,
                  incarnation>>
  BY DEF Shutdown
<1>2. /\ At(p, "idle")
      /\ CallBecomes(p, [pc |-> "clearing", goal |-> NoGoal, held |-> Registered])
  BY StartEffect, RegisteredFacts DEF IInv, Shutdown, CallPcs
<1>3. /\ runtimes' = [c \in Connections |-> NoRuntime]
      /\ leases' = [c \in Connections |-> NoRuntime]
      /\ stopping' = TRUE
  BY DEF Shutdown
<1>4. \A r \in Registered :
          supervisor[r] = "watching" /\ transport[r] # "unopened"
  BY RegisteredFacts DEF IInv, PublishedIsWatched, FreshIsNowhere
<1>5. TypeOK'
  BY <1>1, <1>2, <1>3 DEF IInv, TypeOK, CallBecomes, RuntimeSlot
<1>6. HandlersHaveGoals'
  BY <1>2 DEF IInv, HandlersHaveGoals, CallBecomes, At
<1>7. GoalsArePast'
  BY <1>1, <1>2, GoalsFrame DEF IInv, CallBecomes
<1>8. FreshIsNowhere'
  BY <1>1, <1>2, <1>4 DEF IInv, FreshIsNowhere, CallBecomes, Closing
<1>9. OpenedIsExclusive'
  BY <1>1, <1>2, <1>4 DEF IInv, OpenedIsExclusive, CallBecomes, Closing, At
<1>10. HeldIsUnpublished'
  BY <1>2, <1>3, NoRuntimeAssumption DEF TypeOK, HeldIsUnpublished,
      CallBecomes, CallState
<1>11. /\ PublishedIsWatched'
       /\ PublishedIffConnected'
       /\ LeaseOfExistingConnection'
  BY <1>3 DEF PublishedIsWatched, PublishedIffConnected,
      LeaseOfExistingConnection
<1>12. OpenTransportIsOwned'
  <2>1. \A r \in Runtimes : Owned(r) => Owned(r)'
    BY <1>1, <1>2 DEF IInv, Owned, CallBecomes, Closing, At
  <2> QED BY <2>1, <1>1, OwnedFrame DEF IInv
<1>13. NothingWithoutContext' /\ ActiveHasGeneration'
  BY <1>1 DEF IInv, NothingWithoutContext, ActiveHasGeneration, Exists
<1> QED BY <1>5, <1>6, <1>7, <1>8, <1>9, <1>10, <1>11, <1>12, <1>13 DEF IInv

\* It closes a runtime it holds, so none that is published or just opened.
LEMMA ClearingClosesKeeps ==
  ASSUME IInv, NEW p \in Calls, ClearingCloses(p)
  PROVE  IInv'
<1>1. UNCHANGED <<contextExists, connections, runtimes, leases, supervisor,
                  origin, incarnation, stopping>>
  BY DEF ClearingCloses
<1>2. PICK r \in call[p].held :
        /\ At(p, "clearing")
        /\ transport' = [transport EXCEPT ![r] = "closed"]
        /\ CallBecomes(p, [pc |-> "clearing", goal |-> call[p].goal,
                           held |-> call[p].held \ {r}])
  <2>1. PICK r \in call[p].held :
          /\ At(p, "clearing")
          /\ transport' = [transport EXCEPT ![r] = "closed"]
          /\ call' = [call EXCEPT ![p].held = @ \ {r}]
    BY DEF ClearingCloses
  <2>2. CallBecomes(p, [pc |-> "clearing", goal |-> call[p].goal,
                        held |-> call[p].held \ {r}])
    BY <2>1 DEF IInv, TypeOK, CallState, CallBecomes, At
  <2> QED BY <2>1, <2>2
<1>3. /\ r \in Runtimes /\ transport[r] # "unopened"
      /\ \A c \in Connections : runtimes[c] # r
  BY <1>2 DEF IInv, TypeOK, CallState, FreshIsNowhere, HeldIsUnpublished,
      Closing, At
<1>4. \A q \in Calls : At(q, "opened") => r \notin call[q].held
  BY <1>2 DEF IInv, OpenedIsExclusive, Closing, At
<1>5. TypeOK'
  BY <1>1, <1>2, <1>3 DEF IInv, TypeOK, CallBecomes
<1>6. HandlersHaveGoals'
  BY <1>2 DEF IInv, HandlersHaveGoals, CallBecomes, At
<1>7. GoalsArePast'
  BY <1>1, <1>2, GoalsFrame DEF IInv, CallBecomes
<1>8. (FreshIsNowhere /\ OpenedIsExclusive /\ HeldIsUnpublished)'
  BY <1>1, <1>2, <1>3, <1>4, CustodyFrame DEF IInv, TypeOK, CallBecomes,
      Closing, At
<1>9. PublishedIsWatched'
  BY <1>1, <1>2, <1>3 DEF IInv, TypeOK, PublishedIsWatched, AttemptOf
<1>10. OpenTransportIsOwned'
  <2>1. \A s \in Runtimes : transport'[s] = "open" =>
          transport[s] = "open" /\ (Owned(s) => Owned(s)')
    BY <1>1, <1>2, <1>3 DEF IInv, TypeOK, Owned, Registered, CallBecomes,
        Closing, At
  <2> QED BY <2>1, <1>1, OwnedFrame DEF IInv, Exists
<1>11. /\ NothingWithoutContext'
       /\ ActiveHasGeneration'
       /\ PublishedIffConnected'
       /\ LeaseOfExistingConnection'
  BY <1>1 DEF IInv, NothingWithoutContext, ActiveHasGeneration,
      PublishedIffConnected, LeaseOfExistingConnection, Exists
<1> QED BY <1>5, <1>6, <1>7, <1>8, <1>9, <1>10, <1>11 DEF IInv

\* It returns when it holds nothing any more.
LEMMA ClearingReturnsKeeps ==
  ASSUME IInv, NEW p \in Calls, ClearingReturns(p)
  PROVE  IInv'
<1>1. UNCHANGED <<contextExists, connections, runtimes, leases, transport,
                  supervisor, origin, incarnation, stopping>>
  BY DEF ClearingReturns
<1>2. /\ At(p, "clearing")
      /\ CallBecomes(p, [pc |-> "idle", goal |-> NoGoal, held |-> {}])
  BY ReturnEffect DEF IInv, ClearingReturns, CallPcs
<1>3. call[p].held = {}
  BY DEF ClearingReturns
<1>4. TypeOK'
  BY <1>1, <1>2 DEF IInv, TypeOK, CallBecomes
<1>5. HandlersHaveGoals'
  BY <1>2 DEF IInv, HandlersHaveGoals, CallBecomes, At
<1>6. GoalsArePast'
  BY <1>1, <1>2, GoalsFrame DEF IInv, CallBecomes
<1>7. (FreshIsNowhere /\ OpenedIsExclusive /\ HeldIsUnpublished)'
  BY <1>1, <1>2, CustodyFrame DEF IInv, CallBecomes, Closing, At
<1>8. OpenTransportIsOwned'
  <2>1. \A s \in Runtimes : Owned(s) => Owned(s)'
    BY <1>1, <1>2, <1>3 DEF Owned, Registered, CallBecomes, Closing, At
  <2> QED BY <2>1, <1>1, OwnedFrame DEF IInv, Exists
<1>9. /\ NothingWithoutContext'
      /\ ActiveHasGeneration'
      /\ PublishedIsWatched'
      /\ PublishedIffConnected'
      /\ LeaseOfExistingConnection'
  BY <1>1 DEF IInv, NothingWithoutContext, ActiveHasGeneration,
      PublishedIsWatched, PublishedIffConnected, LeaseOfExistingConnection,
      Exists, AttemptOf
<1> QED BY <1>4, <1>5, <1>6, <1>7, <1>8, <1>9 DEF IInv

\* A new generation starts and the handler captures its goal.
LEMMA ConnectBeginsKeeps ==
  ASSUME IInv, NEW p \in Calls, NEW c \in Connections, ConnectBegins(p, c)
  PROVE  IInv'
<1>1. UNCHANGED <<contextExists, runtimes, leases, transport, supervisor,
                  origin, incarnation, stopping>>
  BY DEF ConnectBegins
<1>2. /\ contextExists
      /\ connections[c].status \in {"disconnected", "failed"}
      /\ connections' = [connections EXCEPT ![c] =
           [configuration |-> connections[c].configuration,
            version |-> connections[c].version,
            generation |-> connections[c].generation + 1, status |-> "connecting"]]
  BY DEF IInv, TypeOK, ConnectionState, ConnectionStatus, ConnectBegins,
      MayConnect, ConnectConnection, Exists, IsActive, ActiveStatuses
<1>3. connections' \in [Connections -> ConnectionState]
  BY <1>2 DEF IInv, TypeOK, ConnectionState, ConnectionStatus, ActiveStatuses
<1>4. PICK goal \in Goal : goal = GoalFor(connections', c)
  BY <1>3, GoalForType DEF IInv, TypeOK
<1>5. /\ At(p, "idle")
      /\ CallBecomes(p, [pc |-> "opening", goal |-> goal, held |-> {}])
  <2>1. Start(p, "opening", goal, {})
    BY <1>4 DEF ConnectBegins
  <2> QED BY <2>1, StartEffect DEF IInv, CallPcs
<1>6. runtimes[c] = NoRuntime
  BY <1>2 DEF IInv, PublishedIffConnected
<1>7. TypeOK'
  BY <1>1, <1>5, <1>3 DEF IInv, TypeOK, CallBecomes
<1>8. (NothingWithoutContext /\ ActiveHasGeneration)'
  BY <1>1, <1>2 DEF IInv, TypeOK, ConnectionState, NothingWithoutContext,
      ActiveHasGeneration, Exists
<1>9. HandlersHaveGoals'
  BY <1>5 DEF IInv, HandlersHaveGoals, CallBecomes, At
<1>10. GoalsArePast'
  <2>1. GoalIsPast(goal)'
    <3>1. /\ goal.connection = c
          /\ goal.configuration = connections'[c].configuration
          /\ goal.attempt.version = connections'[c].version
          /\ goal.incarnation = incarnation[c]
      BY <1>4 DEF GoalFor, AttemptOf
    <3>2. connections'[c].version \in Nat /\ incarnation[c] \in Nat
      BY <1>3 DEF IInv, TypeOK, ConnectionState
    <3> QED BY <3>1, <3>2, <1>1 DEF GoalIsPast
  <2>2. \A old \in Goal : GoalIsPast(old) => GoalIsPast(old)'
    <3>1. \A d \in Connections :
            /\ connections'[d].configuration = connections[d].configuration
            /\ connections'[d].version = connections[d].version
            /\ Exists(connections', d) => Exists(connections, d)
      BY <1>2 DEF IInv, TypeOK, Exists
    <3> QED BY <3>1, <1>1 DEF GoalIsPast, Goal
  <2> QED BY <2>1, <2>2, <1>1, <1>5 DEF IInv, GoalsArePast, CallBecomes
<1>11. (FreshIsNowhere /\ OpenedIsExclusive /\ HeldIsUnpublished)'
  BY <1>1, <1>5, CustodyFrame DEF IInv, CallBecomes, Closing, At
<1>12. /\ PublishedIsWatched'
       /\ PublishedIffConnected'
       /\ LeaseOfExistingConnection'
  BY <1>1, <1>2, <1>6 DEF IInv, TypeOK, PublishedIsWatched,
      PublishedIffConnected, LeaseOfExistingConnection, Exists, AttemptOf
<1>13. OpenTransportIsOwned'
  <2>1. \A s \in Runtimes : Owned(s) => Owned(s)'
    BY <1>1, <1>5 DEF Owned, Registered, CallBecomes, Closing, At
  <2>2. \A d \in Connections : Exists(connections', d) => Exists(connections, d)
    BY <1>2 DEF IInv, TypeOK, Exists
  <2> QED BY <2>1, <2>2, <1>1, OwnedFrame DEF IInv
<1> QED BY <1>7, <1>8, <1>9, <1>10, <1>11, <1>12, <1>13 DEF IInv

\* A runtime nobody knows becomes the handler's own.
LEMMA ConnectOpensKeeps ==
  ASSUME IInv, NEW p \in Calls, ConnectOpens(p)
  PROVE  IInv'
<1>1. UNCHANGED <<contextExists, connections, runtimes, leases, supervisor,
                  incarnation, stopping>>
  BY DEF ConnectOpens
<1>2. PICK r \in Runtimes :
        /\ At(p, "opening")
        /\ transport[r] = "unopened"
        /\ transport' = [transport EXCEPT ![r] = "open"]
        /\ origin' = [origin EXCEPT ![r] = call[p].goal]
        /\ CallBecomes(p, [pc |-> "opened", goal |-> call[p].goal,
                           held |-> {r}])
  <2>1. PICK r \in Runtimes :
          /\ At(p, "opening")
          /\ transport[r] = "unopened"
          /\ transport' = [transport EXCEPT ![r] = "open"]
          /\ origin' = [origin EXCEPT ![r] = call[p].goal]
          /\ call' = [call EXCEPT ![p].pc = "opened", ![p].held = {r}]
    BY DEF ConnectOpens
  <2>2. CallBecomes(p, [pc |-> "opened", goal |-> call[p].goal,
                        held |-> {r}])
    BY <2>1 DEF IInv, TypeOK, CallState, CallPcs, CallBecomes
  <2> QED BY <2>1, <2>2
<1>3. /\ supervisor[r] = "none"
      /\ \A q \in Calls : Closing(q) => r \notin call[q].held
      /\ \A c \in Connections : runtimes[c] # r
      /\ call[p].goal \in Goal
  BY <1>2, NoRuntimeAssumption DEF IInv, FreshIsNowhere, PublishedIsWatched,
      HandlersHaveGoals, At
<1>4. /\ transport'[r] = "open" /\ origin'[r] = call[p].goal
      /\ \A s \in Runtimes \ {r} :
           transport'[s] = transport[s] /\ origin'[s] = origin[s]
  BY <1>2 DEF IInv, TypeOK
<1>5. TypeOK'
  BY <1>1, <1>2, <1>3 DEF IInv, TypeOK, CallBecomes
<1>6. HandlersHaveGoals'
  BY <1>2, <1>3 DEF IInv, HandlersHaveGoals, CallBecomes, At
<1>7. GoalsArePast'
  BY <1>1, <1>2, <1>4, <1>3 DEF IInv, GoalsArePast, GoalIsPast, Exists,
      CallBecomes
<1>8. FreshIsNowhere'
  BY <1>1, <1>2, <1>4, <1>3 DEF IInv, FreshIsNowhere, CallBecomes, Closing
<1>9. OpenedIsExclusive'
  <2> SUFFICES ASSUME NEW q \in Calls, At(q, "opened")'
               PROVE  \E s \in Runtimes :
                        /\ call'[q].held = {s}
                        /\ origin'[s] = call'[q].goal
                        /\ transport'[s] \in {"open", "lost"}
                        /\ supervisor'[s] = "none"
                        /\ \A o \in Calls \ {q} :
                             Closing(o)' => s \notin call'[o].held
    BY DEF OpenedIsExclusive
  <2>1. CASE q = p
    BY <2>1, <1>1, <1>2, <1>3, <1>4 DEF CallBecomes, Closing
  <2>2. CASE q # p
    <3>1. call'[q] = call[q] /\ At(q, "opened")
      BY <2>2, <1>2 DEF CallBecomes, At
    <3>2. PICK s \in Runtimes :
            /\ call[q].held = {s}
            /\ origin[s] = call[q].goal
            /\ transport[s] \in {"open", "lost"}
            /\ supervisor[s] = "none"
            /\ \A o \in Calls \ {q} : Closing(o) => s \notin call[o].held
      BY <3>1 DEF IInv, OpenedIsExclusive
    <3>3. s # r
      BY <3>1, <3>2, <1>3 DEF At, Closing
    <3>4. \A o \in Calls \ {q} : Closing(o)' => s \notin call'[o].held
      BY <3>2, <3>3, <1>2 DEF CallBecomes, Closing
    <3> QED BY <3>1, <3>2, <3>3, <3>4, <1>1, <1>4
  <2> QED BY <2>1, <2>2
<1>10. HeldIsUnpublished'
  BY <1>1, <1>2, <1>3 DEF IInv, HeldIsUnpublished, CallBecomes, Closing
<1>11. PublishedIsWatched'
  BY <1>1, <1>4, <1>3 DEF IInv, TypeOK, RuntimeSlot, PublishedIsWatched,
      AttemptOf
<1>12. OpenTransportIsOwned'
  <2>1. Owned(r)'
    BY <1>2 DEF Owned, CallBecomes, Closing
  <2>2. \A s \in Runtimes : Owned(s) => Owned(s)'
    BY <1>1, <1>2 DEF Owned, Registered, CallBecomes, Closing, At
  <2> QED BY <2>1, <2>2, <1>1, <1>4 DEF IInv, OpenTransportIsOwned, Exists
<1>13. /\ NothingWithoutContext'
       /\ ActiveHasGeneration'
       /\ PublishedIffConnected'
       /\ LeaseOfExistingConnection'
  BY <1>1 DEF IInv, NothingWithoutContext, ActiveHasGeneration,
      PublishedIffConnected, LeaseOfExistingConnection, Exists
<1> QED BY <1>5, <1>6, <1>7, <1>8, <1>9, <1>10, <1>11, <1>12, <1>13 DEF IInv

\* A refused connect holds nothing.
LEMMA ConnectIsRefusedKeeps ==
  ASSUME IInv, NEW p \in Calls, ConnectIsRefused(p)
  PROVE  IInv'
<1>1. UNCHANGED <<contextExists, connections, runtimes, leases, transport,
                  supervisor, origin, incarnation, stopping>>
  BY DEF ConnectIsRefused
<1>2. /\ At(p, "opening")
      /\ CallBecomes(p, [pc |-> "refused", goal |-> call[p].goal,
                         held |-> call[p].held])
  BY GotoEffect DEF IInv, ConnectIsRefused, CallPcs
<1>3. TypeOK'
  BY <1>1, <1>2 DEF IInv, TypeOK, CallBecomes
<1>4. HandlersHaveGoals'
  BY <1>2 DEF IInv, HandlersHaveGoals, CallBecomes, At
<1>5. GoalsArePast'
  BY <1>1, <1>2, GoalsFrame DEF IInv, CallBecomes
<1>6. (FreshIsNowhere /\ OpenedIsExclusive /\ HeldIsUnpublished)'
  BY <1>1, <1>2, CustodyFrame DEF IInv, CallBecomes, Closing, At
<1>7. OpenTransportIsOwned'
  <2>1. \A s \in Runtimes : Owned(s) => Owned(s)'
    BY <1>1, <1>2 DEF Owned, Registered, CallBecomes, Closing, At
  <2> QED BY <2>1, <1>1, OwnedFrame DEF IInv, Exists
<1>8. /\ NothingWithoutContext'
      /\ ActiveHasGeneration'
      /\ PublishedIsWatched'
      /\ PublishedIffConnected'
      /\ LeaseOfExistingConnection'
  BY <1>1 DEF IInv, NothingWithoutContext, ActiveHasGeneration,
      PublishedIsWatched, PublishedIffConnected, LeaseOfExistingConnection,
      Exists, AttemptOf
<1> QED BY <1>3, <1>4, <1>5, <1>6, <1>7, <1>8 DEF IInv

\* A runtime may be dropped open, but its entry is gone for good.
LEMMA ConnectFindsNoContextKeeps ==
  ASSUME IInv, NEW p \in Calls, ConnectFindsNoContext(p)
  PROVE  IInv'
<1>1. UNCHANGED <<contextExists, connections, runtimes, leases, transport,
                  supervisor, origin, incarnation, stopping>>
  BY DEF ConnectFindsNoContext
<1>2. /\ At(p, "opened") \/ At(p, "refused")
      /\ CallBecomes(p, [pc |-> "idle", goal |-> NoGoal, held |-> {}])
  BY ReturnEffect DEF IInv, ConnectFindsNoContext, CallPcs
<1>3. ~contextExists
  BY DEF ConnectFindsNoContext
<1>4. TypeOK'
  BY <1>1, <1>2 DEF IInv, TypeOK, CallBecomes
<1>5. HandlersHaveGoals'
  BY <1>2 DEF IInv, HandlersHaveGoals, CallBecomes, At
<1>6. GoalsArePast'
  BY <1>1, <1>2, GoalsFrame DEF IInv, CallBecomes
<1>7. (FreshIsNowhere /\ OpenedIsExclusive /\ HeldIsUnpublished)'
  BY <1>1, <1>2, CustodyFrame DEF IInv, CallBecomes, Closing, At
<1>8. OpenTransportIsOwned'
  BY <1>1, <1>3 DEF IInv, NothingWithoutContext, FreshIsNowhere,
      OpenTransportIsOwned, Goal, Exists, NoConnection
<1>9. /\ NothingWithoutContext'
      /\ ActiveHasGeneration'
      /\ PublishedIsWatched'
      /\ PublishedIffConnected'
      /\ LeaseOfExistingConnection'
  BY <1>1 DEF IInv, NothingWithoutContext, ActiveHasGeneration,
      PublishedIsWatched, PublishedIffConnected, LeaseOfExistingConnection,
      Exists, AttemptOf
<1> QED BY <1>4, <1>5, <1>6, <1>7, <1>8, <1>9 DEF IInv

\* A stale connect keeps what it opened until it is closed.
LEMMA ConnectIsStaleKeeps ==
  ASSUME IInv, NEW p \in Calls, ConnectIsStale(p)
  PROVE  IInv'
<1>1. UNCHANGED <<contextExists, connections, runtimes, leases, transport,
                  supervisor, origin, incarnation, stopping>>
  BY DEF ConnectIsStale
<1>2. \/ /\ At(p, "opened")
         /\ CallBecomes(p, [pc |-> "discarding", goal |-> call[p].goal,
                            held |-> call[p].held])
      \/ /\ At(p, "refused")
         /\ CallBecomes(p, [pc |-> "idle", goal |-> NoGoal, held |-> {}])
  BY GotoEffect, ReturnEffect DEF IInv, ConnectIsStale, CallPcs
<1>3. TypeOK'
  BY <1>1, <1>2 DEF IInv, TypeOK, CallBecomes
<1>4. HandlersHaveGoals'
  BY <1>2 DEF IInv, HandlersHaveGoals, CallBecomes, At
<1>5. GoalsArePast'
  BY <1>1, <1>2, GoalsFrame DEF IInv, CallBecomes
<1>6. (FreshIsNowhere /\ OpenedIsExclusive /\ HeldIsUnpublished)'
  BY <1>1, <1>2, CustodyFrame DEF IInv, CallBecomes, Closing, At
<1>7. OpenTransportIsOwned'
  <2>1. \A s \in Runtimes : Owned(s) => Owned(s)'
    BY <1>1, <1>2 DEF Owned, Registered, CallBecomes, Closing, At
  <2> QED BY <2>1, <1>1, OwnedFrame DEF IInv, Exists
<1>8. /\ NothingWithoutContext'
      /\ ActiveHasGeneration'
      /\ PublishedIsWatched'
      /\ PublishedIffConnected'
      /\ LeaseOfExistingConnection'
  BY <1>1 DEF IInv, NothingWithoutContext, ActiveHasGeneration,
      PublishedIsWatched, PublishedIffConnected, LeaseOfExistingConnection,
      Exists, AttemptOf
<1> QED BY <1>3, <1>4, <1>5, <1>6, <1>7, <1>8 DEF IInv

\* The slot was empty, and the runtime passes from the handler to it.
LEMMA ConnectPublishesKeeps ==
  ASSUME IInv, NEW p \in Calls, ConnectPublishes(p)
  PROVE  IInv'
<1> DEFINE c == call[p].goal.connection
<1>1. UNCHANGED <<contextExists, leases, transport, origin, incarnation,
                  stopping>>
  BY DEF ConnectPublishes
<1>2. /\ At(p, "opened")
      /\ CallBecomes(p, [pc |-> "idle", goal |-> NoGoal, held |-> {}])
  BY ReturnEffect DEF IInv, ConnectPublishes
<1>3. c \in Connections /\ call[p].goal \in Goal
  BY <1>2 DEF IInv, HandlersHaveGoals, At, Goal
<1>4. /\ contextExists
      /\ connections[c].status = "connecting"
      /\ AttemptOf(connections, c) = call[p].goal.attempt
      /\ StatusBecomes(c, "connected")
  BY <1>3, WithStatusEffect DEF IInv, ConnectPublishes, ConnectionOpened,
      ConnectionStatus, ActiveStatuses, AttemptIsPending, IsPending
<1>5. PICK r \in Runtimes :
        /\ call[p].held = {r}
        /\ origin[r] = call[p].goal
        /\ transport[r] \in {"open", "lost"}
        /\ \A q \in Calls \ {p} : Closing(q) => r \notin call[q].held
        /\ runtimes' = [runtimes EXCEPT ![c] = r]
        /\ supervisor' = [supervisor EXCEPT ![r] = "watching"]
  <2>1. PICK r \in Runtimes :
          /\ call[p].held = {r}
          /\ origin[r] = call[p].goal
          /\ transport[r] \in {"open", "lost"}
          /\ \A q \in Calls \ {p} : Closing(q) => r \notin call[q].held
    BY <1>2 DEF IInv, OpenedIsExclusive
  <2>2. /\ runtimes' = [runtimes EXCEPT ![c] = r]
        /\ supervisor' = [supervisor EXCEPT ![r] = "watching"]
    BY <2>1 DEF ConnectPublishes
  <2> QED BY <2>1, <2>2
<1>6. /\ \A d \in Connections : runtimes'[d] = IF d = c THEN r ELSE runtimes[d]
      /\ \A s \in Runtimes :
           supervisor'[s] = IF s = r THEN "watching" ELSE supervisor[s]
  BY <1>5 DEF IInv, TypeOK
<1>7. runtimes[c] = NoRuntime
  BY <1>3, <1>4 DEF IInv, PublishedIffConnected
<1>8. TypeOK'
  BY <1>1, <1>2, <1>3, <1>4, <1>5 DEF IInv, TypeOK, RuntimeSlot, CallBecomes,
      StatusBecomes
<1>9. (NothingWithoutContext /\ ActiveHasGeneration)'
  BY <1>1, <1>3, <1>4 DEF IInv, NothingWithoutContext, ActiveHasGeneration,
      StatusBecomes, Exists
<1>10. HandlersHaveGoals'
  BY <1>2 DEF IInv, HandlersHaveGoals, CallBecomes, At
<1>11. GoalsArePast'
  BY <1>1, <1>2, <1>3, <1>4, GoalsFrame DEF IInv, CallBecomes, StatusBecomes,
      Exists
<1>12. FreshIsNowhere'
  BY <1>1, <1>2, <1>5, <1>6 DEF IInv, FreshIsNowhere, CallBecomes, Closing
<1>13. OpenedIsExclusive'
  BY <1>1, <1>2, <1>5, <1>6 DEF IInv, OpenedIsExclusive, CallBecomes, Closing,
      At
<1>14. HeldIsUnpublished'
  BY <1>2, <1>5, <1>6 DEF IInv, HeldIsUnpublished, CallBecomes, Closing
<1>15. PublishedIsWatched'
  BY <1>1, <1>3, <1>4, <1>5, <1>6 DEF IInv, TypeOK, RuntimeSlot,
      PublishedIsWatched, StatusBecomes, AttemptOf
<1>16. PublishedIffConnected'
  BY <1>1, <1>3, <1>4, <1>6, NoRuntimeAssumption DEF IInv,
      PublishedIffConnected, StatusBecomes
<1>17. LeaseOfExistingConnection'
  BY <1>1, <1>3, <1>4 DEF IInv, LeaseOfExistingConnection, StatusBecomes,
      Exists
<1>18. OpenTransportIsOwned'
  <2>1. \A s \in Runtimes : Owned(s) => Owned(s)'
    <3> SUFFICES ASSUME NEW s \in Runtimes, Owned(s) PROVE Owned(s)'
      OBVIOUS
    <3>1. CASE s = r
      BY <3>1, <1>3, <1>6, NoRuntimeAssumption DEF Owned, Registered
    <3>2. CASE s # r /\ s \in Registered
      BY <3>2, <1>6, <1>7 DEF Owned, Registered
    <3>3. CASE s # r /\ s \notin Registered
      BY <3>3, <1>2, <1>5 DEF Owned, CallBecomes, Closing
    <3> QED BY <3>1, <3>2, <3>3
  <2> QED BY <2>1, <1>1, <1>3, <1>4, OwnedFrame DEF IInv, StatusBecomes, Exists
<1> QED BY <1>8, <1>9, <1>10, <1>11, <1>12, <1>13, <1>14, <1>15, <1>16, <1>17,
    <1>18
    DEF IInv

\* A connect that cannot stage its targets fails like a refused one.
LEMMA ConnectCannotStageKeeps ==
  ASSUME IInv, NEW p \in Calls, ConnectCannotStage(p)
  PROVE  IInv'
<1> DEFINE c == call[p].goal.connection
<1>1. UNCHANGED <<contextExists, runtimes, leases, transport, supervisor,
                  origin, incarnation, stopping>>
  BY DEF ConnectCannotStage
<1>2. /\ At(p, "opened")
      /\ CallBecomes(p, [pc |-> "discarding", goal |-> call[p].goal,
                         held |-> call[p].held])
  BY GotoEffect DEF IInv, ConnectCannotStage, CallPcs
<1>3. c \in Connections
  BY <1>2 DEF IInv, HandlersHaveGoals, At, Goal
<1>4. /\ contextExists
      /\ connections[c].status = "connecting"
      /\ connections[c].generation # 0
      /\ StatusBecomes(c, "failed")
  BY <1>3, WithStatusEffect DEF IInv, ActiveHasGeneration, ConnectCannotStage,
      ConnectionOpenFailed, ConnectionStatus, AttemptIsPending, IsPending
<1>5. TypeOK'
  BY <1>1, <1>2, <1>4 DEF IInv, TypeOK, CallBecomes, StatusBecomes
<1>6. (NothingWithoutContext /\ ActiveHasGeneration)'
  BY <1>1, <1>3, <1>4 DEF IInv, NothingWithoutContext, ActiveHasGeneration,
      StatusBecomes, Exists
<1>7. HandlersHaveGoals'
  BY <1>2 DEF IInv, HandlersHaveGoals, CallBecomes, At
<1>8. GoalsArePast'
  BY <1>1, <1>2, <1>3, <1>4, GoalsFrame DEF IInv, CallBecomes, StatusBecomes,
      Exists
<1>9. (FreshIsNowhere /\ OpenedIsExclusive /\ HeldIsUnpublished)'
  BY <1>1, <1>2, CustodyFrame DEF IInv, CallBecomes, Closing, At
<1>10. /\ PublishedIsWatched'
       /\ PublishedIffConnected'
       /\ LeaseOfExistingConnection'
  BY <1>1, <1>3, <1>4 DEF IInv, PublishedIsWatched, PublishedIffConnected,
      LeaseOfExistingConnection, StatusBecomes, AttemptOf, Exists
<1>11. OpenTransportIsOwned'
  <2>1. \A s \in Runtimes : Owned(s) => Owned(s)'
    BY <1>1, <1>2 DEF Owned, Registered, CallBecomes, Closing, At
  <2> QED BY <2>1, <1>1, <1>3, <1>4, OwnedFrame DEF IInv, StatusBecomes, Exists
<1> QED BY <1>5, <1>6, <1>7, <1>8, <1>9, <1>10, <1>11 DEF IInv

\* The slot that a failed connect clears was empty.
LEMMA ConnectFailsKeeps ==
  ASSUME IInv, NEW p \in Calls, ConnectFails(p)
  PROVE  IInv'
<1> DEFINE c == call[p].goal.connection
<1>1. UNCHANGED <<contextExists, leases, transport, supervisor, origin,
                  incarnation, stopping>>
  BY DEF ConnectFails
<1>2. /\ At(p, "refused")
      /\ CallBecomes(p, [pc |-> "idle", goal |-> NoGoal, held |-> {}])
  BY ReturnEffect DEF IInv, ConnectFails, CallPcs
<1>3. c \in Connections
  BY <1>2 DEF IInv, HandlersHaveGoals, At, Goal
<1>4. /\ contextExists
      /\ connections[c].status = "connecting"
      /\ connections[c].generation # 0
      /\ StatusBecomes(c, "failed")
  BY <1>3, WithStatusEffect DEF IInv, ActiveHasGeneration, ConnectFails,
      ConnectionOpenFailed, ConnectionStatus, AttemptIsPending, IsPending
<1>5. runtimes' = runtimes
  BY <1>3, <1>4 DEF IInv, TypeOK, PublishedIffConnected, ConnectFails
<1>6. TypeOK'
  BY <1>1, <1>5, <1>2, <1>4 DEF IInv, TypeOK, CallBecomes, StatusBecomes
<1>7. (NothingWithoutContext /\ ActiveHasGeneration)'
  BY <1>1, <1>3, <1>4 DEF IInv, NothingWithoutContext, ActiveHasGeneration,
      StatusBecomes, Exists
<1>8. HandlersHaveGoals'
  BY <1>2 DEF IInv, HandlersHaveGoals, CallBecomes, At
<1>9. GoalsArePast'
  BY <1>1, <1>2, <1>3, <1>4, GoalsFrame DEF IInv, CallBecomes, StatusBecomes,
      Exists
<1>10. (FreshIsNowhere /\ OpenedIsExclusive /\ HeldIsUnpublished)'
  BY <1>1, <1>5, <1>2, CustodyFrame DEF IInv, CallBecomes, Closing, At
<1>11. /\ PublishedIsWatched'
       /\ PublishedIffConnected'
       /\ LeaseOfExistingConnection'
  BY <1>1, <1>5, <1>3, <1>4 DEF IInv, PublishedIsWatched,
      PublishedIffConnected, LeaseOfExistingConnection, StatusBecomes,
      AttemptOf, Exists
<1>12. OpenTransportIsOwned'
  <2>1. \A s \in Runtimes : Owned(s) => Owned(s)'
    BY <1>1, <1>5, <1>2 DEF Owned, Registered, CallBecomes, Closing, At
  <2> QED BY <2>1, <1>1, <1>3, <1>4, OwnedFrame DEF IInv, StatusBecomes, Exists
<1> QED BY <1>6, <1>7, <1>8, <1>9, <1>10, <1>11, <1>12 DEF IInv

\* What is discarded was never published.
LEMMA ConnectDiscardsKeeps ==
  ASSUME IInv, NEW p \in Calls, ConnectDiscards(p)
  PROVE  IInv'
<1>1. UNCHANGED <<contextExists, connections, runtimes, leases, supervisor,
                  origin, incarnation, stopping>>
  BY DEF ConnectDiscards
<1>2. /\ At(p, "discarding")
      /\ CallBecomes(p, [pc |-> "idle", goal |-> NoGoal, held |-> {}])
  BY ReturnEffect DEF IInv, ConnectDiscards
<1>3. transport' = [r \in Runtimes |->
          IF r \in call[p].held THEN "closed" ELSE transport[r]]
  BY DEF ConnectDiscards
<1>4. \A r \in call[p].held :
        /\ r \in Runtimes /\ transport[r] # "unopened"
        /\ \A c \in Connections : runtimes[c] # r
        /\ \A q \in Calls : At(q, "opened") => r \notin call[q].held
  <2> SUFFICES ASSUME NEW r \in call[p].held
               PROVE  /\ r \in Runtimes /\ transport[r] # "unopened"
                      /\ \A c \in Connections : runtimes[c] # r
                      /\ \A q \in Calls :
                           At(q, "opened") => r \notin call[q].held
    OBVIOUS
  <2>1. r \in Runtimes
    BY DEF IInv, TypeOK, CallState
  <2>2. Closing(p) /\ ~At(p, "opened")
    BY <1>2 DEF Closing, At
  <2>3. /\ transport[r] # "unopened"
        /\ \A c \in Connections : runtimes[c] # r
    BY <2>1, <2>2 DEF IInv, FreshIsNowhere, HeldIsUnpublished
  <2>4. \A q \in Calls : At(q, "opened") => r \notin call[q].held
    BY <2>2 DEF IInv, OpenedIsExclusive
  <2> QED BY <2>1, <2>3, <2>4
<1>5. TypeOK'
  BY <1>1, <1>2, <1>3 DEF IInv, TypeOK, CallBecomes
<1>6. HandlersHaveGoals'
  BY <1>2 DEF IInv, HandlersHaveGoals, CallBecomes, At
<1>7. GoalsArePast'
  BY <1>1, <1>2, GoalsFrame DEF IInv, CallBecomes
<1>8. (FreshIsNowhere /\ OpenedIsExclusive /\ HeldIsUnpublished)'
  BY <1>1, <1>2, <1>3, <1>4, CustodyFrame DEF IInv, CallBecomes, Closing, At
<1>9. PublishedIsWatched'
  BY <1>1, <1>3, <1>4, NoRuntimeAssumption DEF IInv, TypeOK, RuntimeSlot,
      PublishedIsWatched, AttemptOf
<1>10. OpenTransportIsOwned'
  <2>1. \A s \in Runtimes : transport'[s] = "open" =>
          transport[s] = "open" /\ (Owned(s) => Owned(s)')
    BY <1>1, <1>2, <1>3 DEF Owned, Registered, CallBecomes, Closing, At
  <2> QED BY <2>1, <1>1, OwnedFrame DEF IInv, Exists
<1>11. /\ NothingWithoutContext'
       /\ ActiveHasGeneration'
       /\ PublishedIffConnected'
       /\ LeaseOfExistingConnection'
  BY <1>1 DEF IInv, NothingWithoutContext, ActiveHasGeneration,
      PublishedIffConnected, LeaseOfExistingConnection, Exists
<1> QED BY <1>5, <1>6, <1>7, <1>8, <1>9, <1>10, <1>11 DEF IInv

\* The published runtime passes from its slot to the handler.
LEMMA DisconnectBeginsKeeps ==
  ASSUME IInv, NEW p \in Calls, NEW c \in Connections, DisconnectBegins(p, c)
  PROVE  IInv'
<1>1. UNCHANGED <<contextExists, transport, supervisor, origin, incarnation,
                  stopping>>
  BY DEF DisconnectBegins
<1>2. PICK goal \in Goal : goal = GoalFor(connections, c)
  BY GoalForType DEF IInv, TypeOK
<1>3. /\ At(p, "idle")
      /\ CallBecomes(p, [pc |-> "disconnecting", goal |-> goal,
                         held |-> {runtimes[c]} \ {NoRuntime}])
  <2>1. Start(p, "disconnecting", goal, {runtimes[c]} \ {NoRuntime})
    BY <1>2 DEF DisconnectBegins
  <2>2. {runtimes[c]} \ {NoRuntime} \in SUBSET Runtimes
    BY DEF IInv, TypeOK, RuntimeSlot
  <2> QED BY <2>1, <2>2, StartEffect DEF IInv, CallPcs
<1>4. /\ contextExists
      /\ connections[c].status \in {"connecting", "connected", "failed"}
      /\ StatusBecomes(c, "disconnecting")
  BY WithStatusEffect DEF IInv, DisconnectBegins, DisconnectConnection,
      ConnectionStatus, ActiveStatuses, MayDisconnect
<1>5. /\ runtimes' = [runtimes EXCEPT ![c] = NoRuntime]
      /\ leases' = [leases EXCEPT ![c] = NoRuntime]
  BY DEF DisconnectBegins
<1>6. \A d \in Connections :
        /\ runtimes'[d] = IF d = c THEN NoRuntime ELSE runtimes[d]
        /\ leases'[d] = IF d = c THEN NoRuntime ELSE leases[d]
  BY <1>5 DEF IInv, TypeOK
<1>7. \A d \in Connections : runtimes[d] # NoRuntime =>
        /\ supervisor[runtimes[d]] = "watching"
        /\ transport[runtimes[d]] # "unopened"
        /\ origin[runtimes[d]].connection = d
  BY DEF IInv, TypeOK, RuntimeSlot, PublishedIsWatched, FreshIsNowhere
<1>8. TypeOK'
  BY <1>1, <1>3, <1>4, <1>5 DEF IInv, TypeOK, RuntimeSlot, CallBecomes,
      StatusBecomes
<1>9. (NothingWithoutContext /\ ActiveHasGeneration)'
  BY <1>1, <1>4 DEF IInv, NothingWithoutContext, ActiveHasGeneration,
      StatusBecomes, Exists
<1>10. HandlersHaveGoals'
  BY <1>3 DEF IInv, HandlersHaveGoals, CallBecomes, At
<1>11. GoalsArePast'
  <2>1. GoalIsPast(goal)'
    <3>1. /\ goal.connection = c
          /\ goal.configuration = connections[c].configuration
          /\ goal.attempt.version = connections[c].version
          /\ goal.incarnation = incarnation[c]
      BY <1>2 DEF GoalFor, AttemptOf
    <3>2. connections[c].version \in Nat /\ incarnation[c] \in Nat
      BY DEF IInv, TypeOK, ConnectionState
    <3> QED BY <3>1, <3>2, <1>1, <1>4 DEF GoalIsPast, StatusBecomes
  <2>2. \A old \in Goal : GoalIsPast(old) => GoalIsPast(old)'
    BY <1>1, <1>4 DEF StatusBecomes, GoalIsPast, Goal, Exists
  <2> QED BY <2>1, <2>2, <1>1, <1>3 DEF IInv, GoalsArePast, CallBecomes
<1>12. FreshIsNowhere'
  BY <1>1, <1>3, <1>7 DEF IInv, FreshIsNowhere, CallBecomes, Closing
<1>13. OpenedIsExclusive'
  BY <1>1, <1>3, <1>7 DEF IInv, OpenedIsExclusive, CallBecomes, Closing, At
<1>14. HeldIsUnpublished'
  BY <1>3, <1>6, <1>7, NoRuntimeAssumption DEF IInv, TypeOK, CallState,
      HeldIsUnpublished, CallBecomes, Closing
<1>15. /\ PublishedIsWatched'
       /\ PublishedIffConnected'
       /\ LeaseOfExistingConnection'
  BY <1>1, <1>4, <1>6 DEF IInv, PublishedIsWatched, PublishedIffConnected,
      LeaseOfExistingConnection, StatusBecomes, AttemptOf, Exists
<1>16. OpenTransportIsOwned'
  <2>1. \A s \in Runtimes : Owned(s) => Owned(s)'
    BY <1>3, <1>6 DEF Owned, Registered, CallBecomes, Closing, At
  <2> QED BY <2>1, <1>1, <1>4, OwnedFrame DEF IInv, StatusBecomes, Exists
<1> QED BY <1>8, <1>9, <1>10, <1>11, <1>12, <1>13, <1>14, <1>15, <1>16 DEF IInv

\* What a disconnect closes it has taken out of its slot.
LEMMA DisconnectClosesKeeps ==
  ASSUME IInv, NEW p \in Calls, DisconnectCloses(p)
  PROVE  IInv'
<1>1. UNCHANGED <<contextExists, connections, runtimes, leases, supervisor,
                  origin, incarnation, stopping>>
  BY DEF DisconnectCloses
<1>2. /\ At(p, "disconnecting")
      /\ CallBecomes(p, [pc |-> "closed", goal |-> call[p].goal, held |-> {}])
  <2>1. /\ At(p, "disconnecting")
        /\ call' = [call EXCEPT ![p].pc = "closed", ![p].held = {}]
    BY DEF DisconnectCloses
  <2> QED BY <2>1 DEF IInv, TypeOK, CallState, CallPcs, CallBecomes
<1>3. transport' = [r \in Runtimes |->
          IF r \in call[p].held THEN "closed" ELSE transport[r]]
  BY DEF DisconnectCloses
<1>4. \A r \in call[p].held :
        /\ r \in Runtimes /\ transport[r] # "unopened"
        /\ \A c \in Connections : runtimes[c] # r
        /\ \A q \in Calls : At(q, "opened") => r \notin call[q].held
  <2> SUFFICES ASSUME NEW r \in call[p].held
               PROVE  /\ r \in Runtimes /\ transport[r] # "unopened"
                      /\ \A c \in Connections : runtimes[c] # r
                      /\ \A q \in Calls :
                           At(q, "opened") => r \notin call[q].held
    OBVIOUS
  <2>1. r \in Runtimes
    BY DEF IInv, TypeOK, CallState
  <2>2. Closing(p) /\ ~At(p, "opened")
    BY <1>2 DEF Closing, At
  <2>3. /\ transport[r] # "unopened"
        /\ \A c \in Connections : runtimes[c] # r
    BY <2>1, <2>2 DEF IInv, FreshIsNowhere, HeldIsUnpublished
  <2>4. \A q \in Calls : At(q, "opened") => r \notin call[q].held
    BY <2>2 DEF IInv, OpenedIsExclusive
  <2> QED BY <2>1, <2>3, <2>4
<1>5. TypeOK'
  BY <1>1, <1>2, <1>3 DEF IInv, TypeOK, CallBecomes
<1>6. HandlersHaveGoals'
  BY <1>2 DEF IInv, HandlersHaveGoals, CallBecomes, At
<1>7. GoalsArePast'
  BY <1>1, <1>2, GoalsFrame DEF IInv, CallBecomes
<1>8. (FreshIsNowhere /\ OpenedIsExclusive /\ HeldIsUnpublished)'
  BY <1>1, <1>2, <1>3, <1>4, CustodyFrame DEF IInv, CallBecomes, Closing, At
<1>9. PublishedIsWatched'
  BY <1>1, <1>3, <1>4, NoRuntimeAssumption DEF IInv, TypeOK, RuntimeSlot,
      PublishedIsWatched, AttemptOf
<1>10. OpenTransportIsOwned'
  <2>1. \A s \in Runtimes : transport'[s] = "open" =>
          transport[s] = "open" /\ (Owned(s) => Owned(s)')
    BY <1>1, <1>2, <1>3 DEF Owned, Registered, CallBecomes, Closing, At
  <2> QED BY <2>1, <1>1, OwnedFrame DEF IInv, Exists
<1>11. /\ NothingWithoutContext'
       /\ ActiveHasGeneration'
       /\ PublishedIffConnected'
       /\ LeaseOfExistingConnection'
  BY <1>1 DEF IInv, NothingWithoutContext, ActiveHasGeneration,
      PublishedIffConnected, LeaseOfExistingConnection, Exists
<1> QED BY <1>5, <1>6, <1>7, <1>8, <1>9, <1>10, <1>11 DEF IInv

\* The completion changes a status that is still disconnecting.
LEMMA DisconnectReturnsKeeps ==
  ASSUME IInv, NEW p \in Calls, DisconnectReturns(p)
  PROVE  IInv'
<1> DEFINE c == call[p].goal.connection
<1>1. UNCHANGED <<contextExists, runtimes, leases, transport, supervisor,
                  origin, incarnation, stopping>>
  BY DEF DisconnectReturns
<1>2. /\ At(p, "closed")
      /\ CallBecomes(p, [pc |-> "idle", goal |-> NoGoal, held |-> {}])
  BY ReturnEffect DEF IInv, DisconnectReturns, CallPcs
<1>3. c \in Connections
  BY <1>2 DEF IInv, HandlersHaveGoals, At, Goal
<1>4. \/ UNCHANGED connections
      \/ /\ contextExists
         /\ connections[c].status = "disconnecting"
         /\ StatusBecomes(c, "disconnected")
  BY <1>3, WithStatusEffect DEF IInv, DisconnectReturns, ConnectionClosed,
      ConnectionStatus, AttemptIsPending, IsPending
<1>5. TypeOK'
  BY <1>1, <1>2, <1>4 DEF IInv, TypeOK, CallBecomes, StatusBecomes
<1>6. (NothingWithoutContext /\ ActiveHasGeneration)'
  BY <1>1, <1>3, <1>4 DEF IInv, NothingWithoutContext, ActiveHasGeneration,
      StatusBecomes, Exists
<1>7. HandlersHaveGoals'
  BY <1>2 DEF IInv, HandlersHaveGoals, CallBecomes, At
<1>8. GoalsArePast'
  BY <1>1, <1>2, <1>3, <1>4, GoalsFrame DEF IInv, CallBecomes, StatusBecomes,
      Exists
<1>9. (FreshIsNowhere /\ OpenedIsExclusive /\ HeldIsUnpublished)'
  BY <1>1, <1>2, CustodyFrame DEF IInv, CallBecomes, Closing, At
<1>10. /\ PublishedIsWatched'
       /\ PublishedIffConnected'
       /\ LeaseOfExistingConnection'
  BY <1>1, <1>3, <1>4 DEF IInv, PublishedIsWatched, PublishedIffConnected,
      LeaseOfExistingConnection, StatusBecomes, AttemptOf, Exists
<1>11. OpenTransportIsOwned'
  <2>1. \A s \in Runtimes : Owned(s) => Owned(s)'
    BY <1>1, <1>2 DEF Owned, Registered, CallBecomes, Closing, At
  <2> QED BY <2>1, <1>1, <1>3, <1>4, OwnedFrame DEF IInv, StatusBecomes, Exists
<1> QED BY <1>5, <1>6, <1>7, <1>8, <1>9, <1>10, <1>11 DEF IInv

\* A lease is armed for a connected entry, hence of a later generation than 0.
LEMMA PauseBeginsKeeps ==
  ASSUME IInv, NEW p \in Calls, NEW c \in Connections, PauseBegins(p, c)
  PROVE  IInv'
<1>1. UNCHANGED <<contextExists, connections, runtimes, leases, transport,
                  supervisor, origin, incarnation, stopping>>
  BY DEF PauseBegins
<1>2. PICK goal \in Goal : goal = GoalFor(connections, c)
  BY GoalForType DEF IInv, TypeOK
<1>3. /\ At(p, "idle")
      /\ CallBecomes(p, [pc |-> "arming", goal |-> goal, held |-> {runtimes[c]}])
  <2>1. Start(p, "arming", goal, {runtimes[c]})
    BY <1>2 DEF PauseBegins
  <2>2. {runtimes[c]} \in SUBSET Runtimes
    BY DEF IInv, TypeOK, RuntimeSlot, PauseBegins
  <2> QED BY <2>1, <2>2, StartEffect DEF IInv, CallPcs
<1>4. goal.attempt.generation # 0
  BY <1>2 DEF IInv, PublishedIffConnected, ActiveHasGeneration, PauseBegins,
      GoalFor, AttemptOf
<1>5. TypeOK'
  BY <1>1, <1>3 DEF IInv, TypeOK, CallBecomes
<1>6. HandlersHaveGoals'
  BY <1>3, <1>4 DEF IInv, HandlersHaveGoals, CallBecomes, At
<1>7. GoalsArePast'
  <2>1. GoalIsPast(goal)'
    <3>1. /\ goal.connection = c
          /\ goal.configuration = connections[c].configuration
          /\ goal.attempt.version = connections[c].version
          /\ goal.incarnation = incarnation[c]
      BY <1>2 DEF GoalFor, AttemptOf
    <3>2. connections[c].version \in Nat /\ incarnation[c] \in Nat
      BY DEF IInv, TypeOK, ConnectionState
    <3> QED BY <3>1, <3>2, <1>1 DEF GoalIsPast
  <2> QED BY <2>1, <1>1, <1>3 DEF IInv, GoalsArePast, GoalIsPast, Exists,
        CallBecomes
<1>8. (FreshIsNowhere /\ OpenedIsExclusive /\ HeldIsUnpublished)'
  BY <1>1, <1>3, CustodyFrame DEF IInv, CallBecomes, Closing, At
<1>9. OpenTransportIsOwned'
  <2>1. \A s \in Runtimes : Owned(s) => Owned(s)'
    BY <1>1, <1>3 DEF Owned, Registered, CallBecomes, Closing, At
  <2> QED BY <2>1, <1>1, OwnedFrame DEF IInv, Exists
<1>10. /\ NothingWithoutContext'
      /\ ActiveHasGeneration'
      /\ PublishedIsWatched'
      /\ PublishedIffConnected'
      /\ LeaseOfExistingConnection'
  BY <1>1 DEF IInv, NothingWithoutContext, ActiveHasGeneration,
      PublishedIsWatched, PublishedIffConnected, LeaseOfExistingConnection,
      Exists, AttemptOf
<1> QED BY <1>5, <1>6, <1>7, <1>8, <1>9, <1>10 DEF IInv

\* A lease that is stored has the generation of an existing entry.
LEMMA PauseReturnsKeeps ==
  ASSUME IInv, NEW p \in Calls, PauseReturns(p)
  PROVE  IInv'
<1> DEFINE c == call[p].goal.connection
<1>1. UNCHANGED <<contextExists, connections, runtimes, transport, supervisor,
                  origin, incarnation, stopping>>
  BY DEF PauseReturns
<1>2. /\ At(p, "arming")
      /\ CallBecomes(p, [pc |-> "idle", goal |-> NoGoal, held |-> {}])
  BY ReturnEffect DEF IInv, PauseReturns
<1>3. /\ leases' \in [Connections -> RuntimeSlot]
      /\ \A d \in Connections : leases'[d] # NoRuntime =>
           leases[d] # NoRuntime \/ (d = c /\ LeaseIsCurrent(p))
  BY DEF IInv, TypeOK, RuntimeSlot, CallState, PauseReturns
<1>4. \A d \in Connections : d = c /\ LeaseIsCurrent(p) => Exists(connections, d)
  BY <1>2 DEF IInv, NothingWithoutContext, HandlersHaveGoals, LeaseIsCurrent,
      NoConnection
<1>5. TypeOK'
  BY <1>1, <1>2, <1>3 DEF IInv, TypeOK, CallBecomes
<1>6. HandlersHaveGoals'
  BY <1>2 DEF IInv, HandlersHaveGoals, CallBecomes, At
<1>7. GoalsArePast'
  BY <1>1, <1>2, GoalsFrame DEF IInv, CallBecomes
<1>8. (FreshIsNowhere /\ OpenedIsExclusive /\ HeldIsUnpublished)'
  BY <1>1, <1>2, CustodyFrame DEF IInv, CallBecomes, Closing, At
<1>9. LeaseOfExistingConnection'
  BY <1>1, <1>3, <1>4 DEF IInv, LeaseOfExistingConnection, Exists
<1>10. OpenTransportIsOwned'
  <2>1. \A s \in Runtimes : Owned(s) => Owned(s)'
    BY <1>1, <1>2 DEF Owned, Registered, CallBecomes, Closing, At
  <2> QED BY <2>1, <1>1, OwnedFrame DEF IInv, Exists
<1>11. /\ NothingWithoutContext'
       /\ ActiveHasGeneration'
       /\ PublishedIsWatched'
       /\ PublishedIffConnected'
  BY <1>1 DEF IInv, NothingWithoutContext, ActiveHasGeneration,
      PublishedIsWatched, PublishedIffConnected, Exists, AttemptOf
<1> QED BY <1>5, <1>6, <1>7, <1>8, <1>9, <1>10, <1>11 DEF IInv

\* Dropping a lease touches nothing else.
LEMMA PauseOffKeeps ==
  ASSUME IInv, NEW c \in Connections, PauseOff(c)
  PROVE  IInv'
<1>1. UNCHANGED <<contextExists, connections, runtimes, transport, supervisor,
                  origin, call, incarnation, stopping>>
  BY DEF PauseOff
<1>2. leases' = [leases EXCEPT ![c] = NoRuntime]
  BY DEF PauseOff
<1>3. TypeOK'
  BY <1>1, <1>2 DEF IInv, TypeOK, RuntimeSlot
<1>4. LeaseOfExistingConnection'
  BY <1>1, <1>2 DEF IInv, TypeOK, LeaseOfExistingConnection, Exists
<1>5. /\ NothingWithoutContext'
      /\ ActiveHasGeneration'
      /\ HandlersHaveGoals'
      /\ GoalsArePast'
      /\ FreshIsNowhere'
      /\ OpenedIsExclusive'
      /\ HeldIsUnpublished'
      /\ PublishedIsWatched'
      /\ PublishedIffConnected'
      /\ OpenTransportIsOwned'
  BY <1>1 DEF IInv, NothingWithoutContext, ActiveHasGeneration,
      HandlersHaveGoals, GoalsArePast, FreshIsNowhere, OpenedIsExclusive,
      HeldIsUnpublished, PublishedIsWatched, PublishedIffConnected,
      OpenTransportIsOwned, Exists, At, GoalIsPast, Closing, AttemptOf, Owned,
      Registered
<1> QED BY <1>3, <1>4, <1>5 DEF IInv

\* A lost transport stays where it is.
LEMMA TransportIsLostKeeps ==
  ASSUME IInv, NEW r \in Runtimes, TransportIsLost(r)
  PROVE  IInv'
<1>1. UNCHANGED <<contextExists, connections, runtimes, leases, supervisor,
                  origin, call, incarnation, stopping>>
  BY DEF TransportIsLost
<1>2. /\ transport[r] = "open"
      /\ transport' = [transport EXCEPT ![r] = "lost"]
  BY DEF TransportIsLost
<1>3. TypeOK'
  BY <1>1, <1>2 DEF IInv, TypeOK
<1>4. (FreshIsNowhere /\ OpenedIsExclusive /\ HeldIsUnpublished)'
  BY <1>1, <1>2, CustodyFrame DEF IInv, TypeOK, Closing, At
<1>5. PublishedIsWatched'
  BY <1>1, <1>2 DEF IInv, TypeOK, RuntimeSlot, PublishedIsWatched, AttemptOf
<1>6. OpenTransportIsOwned'
  <2>1. \A s \in Runtimes : transport'[s] = "open" =>
          transport[s] = "open" /\ (Owned(s) => Owned(s)')
    BY <1>1, <1>2 DEF IInv, TypeOK, Owned, Registered, Closing
  <2> QED BY <2>1, <1>1, OwnedFrame DEF IInv, Exists
<1>7. /\ NothingWithoutContext'
      /\ ActiveHasGeneration'
      /\ HandlersHaveGoals'
      /\ GoalsArePast'
      /\ PublishedIffConnected'
      /\ LeaseOfExistingConnection'
  BY <1>1 DEF IInv, NothingWithoutContext, ActiveHasGeneration,
      HandlersHaveGoals, GoalsArePast, PublishedIffConnected,
      LeaseOfExistingConnection, Exists, At, GoalIsPast
<1> QED BY <1>3, <1>4, <1>5, <1>6, <1>7 DEF IInv

\* Closing a watched runtime leaves it to its supervisor: no handler has just
\* opened it.
LEMMA TargetUpdateIsRejectedKeeps ==
  ASSUME IInv, NEW r \in Runtimes, TargetUpdateIsRejected(r)
  PROVE  IInv'
<1>1. UNCHANGED <<contextExists, connections, runtimes, leases, supervisor,
                  origin, call, incarnation, stopping>>
  BY DEF TargetUpdateIsRejected
<1>2. /\ supervisor[r] # "none" /\ transport[r] # "unopened"
      /\ transport' = [transport EXCEPT ![r] = "closed"]
  BY DEF TargetUpdateIsRejected
<1>3. TypeOK'
  BY <1>1, <1>2 DEF IInv, TypeOK
<1>4. \A q \in Calls : At(q, "opened") => r \notin call[q].held
  BY <1>2 DEF IInv, OpenedIsExclusive
<1>5. (FreshIsNowhere /\ OpenedIsExclusive /\ HeldIsUnpublished)'
  BY <1>1, <1>2, <1>4, CustodyFrame DEF IInv, TypeOK, Closing, At
<1>6. PublishedIsWatched'
  BY <1>1 DEF IInv, PublishedIsWatched, AttemptOf
<1>7. OpenTransportIsOwned'
  <2>1. \A s \in Runtimes : transport'[s] = "open" =>
          transport[s] = "open" /\ (Owned(s) => Owned(s)')
    BY <1>1, <1>2 DEF IInv, TypeOK, Owned, Registered, Closing
  <2> QED BY <2>1, <1>1, OwnedFrame DEF IInv, Exists
<1>8. /\ NothingWithoutContext'
      /\ ActiveHasGeneration'
      /\ HandlersHaveGoals'
      /\ GoalsArePast'
      /\ PublishedIffConnected'
      /\ LeaseOfExistingConnection'
  BY <1>1 DEF IInv, NothingWithoutContext, ActiveHasGeneration,
      HandlersHaveGoals, GoalsArePast, PublishedIffConnected,
      LeaseOfExistingConnection, Exists, At, GoalIsPast
<1> QED BY <1>3, <1>4, <1>5, <1>6, <1>7, <1>8 DEF IInv

\* A supervisor unpublishes its own runtime, whose transport has ended.
LEMMA SupervisorWakesKeeps ==
  ASSUME IInv, NEW r \in Runtimes, SupervisorWakes(r)
  PROVE  IInv'
<1> DEFINE c == origin[r].connection
<1>1. /\ UNCHANGED <<contextExists, transport, origin, call, incarnation, stopping>>
      /\ supervisor[r] = "watching" /\ transport[r] \in {"lost", "closed"}
      /\ supervisor' = [supervisor EXCEPT ![r] = "closing"]
  BY DEF SupervisorWakes
<1>2. c \in Connections
  BY <1>1 DEF IInv, FreshIsNowhere, Goal
<1>3. \/ /\ runtimes[c] = r
         /\ runtimes' = [runtimes EXCEPT ![c] = NoRuntime]
         /\ leases' = [leases EXCEPT ![c] = NoRuntime]
         /\ contextExists /\ connections[c].status = "connected"
         /\ StatusBecomes(c, "failed")
      \/ runtimes[c] # r /\ UNCHANGED <<connections, runtimes, leases>>
  <2>1. CASE runtimes[c] = r
    <3>1. /\ connections[c].status = "connected"
          /\ AttemptOf(connections, c) = origin[r].attempt
      BY <2>1, <1>2, NoRuntimeAssumption
          DEF IInv, PublishedIffConnected, PublishedIsWatched
    <3>2. contextExists
      BY <3>1, <1>2 DEF IInv, NothingWithoutContext, NoConnection
    <3>3. StatusBecomes(c, "failed")
      <4>1. connections' = WithStatus(connections, c, "failed")
        BY <2>1, <3>1 DEF SupervisorWakes, IsCurrentRuntime, ObserveClosed,
            IsPending
      <4> QED BY <4>1, <1>2, WithStatusEffect DEF IInv, ConnectionStatus
    <3> QED BY <2>1, <3>1, <3>2, <3>3 DEF SupervisorWakes, IsCurrentRuntime
  <2>2. CASE runtimes[c] # r
    BY <2>2 DEF SupervisorWakes, IsCurrentRuntime
  <2> QED BY <2>1, <2>2
<1>4. \A d \in Connections :
        /\ runtimes'[d] = IF runtimes[d] = r THEN NoRuntime ELSE runtimes[d]
        /\ leases'[d] \in {leases[d], NoRuntime}
  BY <1>2, <1>3, NoRuntimeAssumption DEF IInv, TypeOK, PublishedIsWatched
<1>5. \A s \in Runtimes :
        supervisor'[s] = IF s = r THEN "closing" ELSE supervisor[s]
  BY <1>1 DEF IInv, TypeOK
<1>6. TypeOK'
  BY <1>1, <1>3 DEF IInv, TypeOK, RuntimeSlot, StatusBecomes
<1>7. (NothingWithoutContext /\ ActiveHasGeneration)'
  BY <1>1, <1>2, <1>3 DEF IInv, NothingWithoutContext, ActiveHasGeneration,
      StatusBecomes, Exists
<1>8. GoalsArePast'
  BY <1>1, <1>2, <1>3, GoalsFrame DEF IInv, StatusBecomes, Exists
<1>9. (FreshIsNowhere /\ OpenedIsExclusive)'
  BY <1>1, <1>5 DEF IInv, FreshIsNowhere, OpenedIsExclusive, Closing, At
<1>10. HeldIsUnpublished'
  BY <1>1, <1>4, NoRuntimeAssumption DEF IInv, TypeOK, CallState,
      HeldIsUnpublished, Closing
<1>11. PublishedIsWatched'
  BY <1>1, <1>2, <1>3, <1>4, <1>5 DEF IInv, TypeOK, RuntimeSlot,
      PublishedIsWatched, StatusBecomes, AttemptOf
<1>12. (PublishedIffConnected /\ LeaseOfExistingConnection)'
  BY <1>1, <1>2, <1>3, <1>4 DEF IInv, TypeOK, PublishedIffConnected,
      LeaseOfExistingConnection, StatusBecomes, Exists
<1>13. OpenTransportIsOwned'
  <2>1. \A s \in Runtimes : transport'[s] = "open" =>
          transport[s] = "open" /\ (Owned(s) => Owned(s)')
    BY <1>1, <1>4 DEF Owned, Registered, Closing
  <2> QED BY <2>1, <1>1, <1>2, <1>3, OwnedFrame DEF IInv, StatusBecomes, Exists
<1>14. HandlersHaveGoals'
  BY <1>1 DEF IInv, HandlersHaveGoals, At
<1> QED BY <1>6, <1>7, <1>8, <1>9, <1>10, <1>11, <1>12, <1>13, <1>14 DEF IInv

\* A supervisor closes its runtime after it has unpublished it.
LEMMA SupervisorClosesKeeps ==
  ASSUME IInv, NEW r \in Runtimes, SupervisorCloses(r)
  PROVE  IInv'
<1>1. UNCHANGED <<contextExists, connections, runtimes, leases, origin, call,
                  incarnation, stopping>>
  BY DEF SupervisorCloses
<1>2. /\ supervisor[r] = "closing"
      /\ transport' = [transport EXCEPT ![r] = "closed"]
      /\ supervisor' = [supervisor EXCEPT ![r] = "done"]
  BY DEF SupervisorCloses
<1>3. \A s \in Runtimes \ {r} :
        transport'[s] = transport[s] /\ supervisor'[s] = supervisor[s]
  BY <1>2 DEF IInv, TypeOK
<1>4. /\ \A c \in Connections : runtimes[c] # r
      /\ transport'[r] = "closed" /\ transport[r] # "unopened"
  BY <1>2, NoRuntimeAssumption DEF IInv, TypeOK, PublishedIsWatched,
      FreshIsNowhere
<1>5. TypeOK'
  BY <1>1, <1>2 DEF IInv, TypeOK
<1>6. FreshIsNowhere'
  BY <1>1, <1>3, <1>4 DEF IInv, FreshIsNowhere, Closing
<1>7. OpenedIsExclusive'
  BY <1>1, <1>2, <1>3 DEF IInv, OpenedIsExclusive, Closing, At
<1>8. PublishedIsWatched'
  BY <1>1, <1>3, <1>4 DEF IInv, TypeOK, RuntimeSlot, PublishedIsWatched,
      AttemptOf
<1>9. OpenTransportIsOwned'
  <2>1. \A s \in Runtimes : transport'[s] = "open" =>
          transport[s] = "open" /\ (Owned(s) => Owned(s)')
    BY <1>1, <1>3, <1>4 DEF Owned, Registered, Closing
  <2> QED BY <2>1, <1>1, OwnedFrame DEF IInv, Exists
<1>10. /\ NothingWithoutContext'
       /\ ActiveHasGeneration'
       /\ HandlersHaveGoals'
       /\ GoalsArePast'
       /\ HeldIsUnpublished'
       /\ PublishedIffConnected'
       /\ LeaseOfExistingConnection'
  BY <1>1 DEF IInv, NothingWithoutContext, ActiveHasGeneration,
      HandlersHaveGoals, GoalsArePast, HeldIsUnpublished,
      PublishedIffConnected, LeaseOfExistingConnection, Exists, At,
      GoalIsPast, Closing
<1> QED BY <1>5, <1>6, <1>7, <1>8, <1>9, <1>10 DEF IInv

-----------------------------------------------------------------------------
(***************************************************************************)
(* The invariant.                                                          *)
(***************************************************************************)

\* Nothing is configured, opened or in flight when the daemon starts.
LEMMA InitKeeps == Init => IInv
<1> SUFFICES ASSUME Init PROVE IInv
  OBVIOUS
<1>1. TypeOK
  BY DEF Init, TypeOK, NoConnections, NoConnection, ConnectionState,
      RuntimeSlot, CallState, CallPcs, IdleCall
<1>2. \A c \in Connections :
        connections[c] = NoConnection /\ runtimes[c] = NoRuntime
                                      /\ leases[c] = NoRuntime
  BY DEF Init, NoConnections
<1>3. \A p \in Calls : call[p] = IdleCall
  BY DEF Init
<1>4. NothingWithoutContext /\ ActiveHasGeneration
  BY <1>2 DEF NothingWithoutContext, ActiveHasGeneration, NoConnection
<1>5. HandlersHaveGoals /\ OpenedIsExclusive /\ HeldIsUnpublished
  BY <1>3 DEF HandlersHaveGoals, OpenedIsExclusive, HeldIsUnpublished, Closing,
      At, IdleCall
<1>6. GoalsArePast
  BY <1>3, NoGoalAssumption DEF Init, GoalsArePast, IdleCall
<1>7. FreshIsNowhere /\ OpenTransportIsOwned
  BY <1>3 DEF Init, FreshIsNowhere, OpenTransportIsOwned, Closing, IdleCall
<1>8. /\ PublishedIsWatched
      /\ PublishedIffConnected
      /\ LeaseOfExistingConnection
  BY <1>2 DEF PublishedIsWatched, PublishedIffConnected,
      LeaseOfExistingConnection, NoConnection
<1> QED BY <1>1, <1>4, <1>5, <1>6, <1>7, <1>8 DEF IInv

\* A step that changes nothing preserves it.
LEMMA StutterKeeps ==
  ASSUME IInv, UNCHANGED vars
  PROVE  IInv'
<1>1. UNCHANGED <<contextExists, connections, runtimes, leases, transport,
                  supervisor, origin, call, incarnation, stopping>>
  BY DEF vars
<1>2. /\ TypeOK'
      /\ NothingWithoutContext'
      /\ ActiveHasGeneration'
      /\ GoalsArePast'
  BY <1>1 DEF IInv, TypeOK, NothingWithoutContext, ActiveHasGeneration,
      GoalsArePast, GoalIsPast, Exists
<1>3. /\ HandlersHaveGoals'
      /\ FreshIsNowhere'
      /\ OpenedIsExclusive'
      /\ HeldIsUnpublished'
  BY <1>1 DEF IInv, HandlersHaveGoals, FreshIsNowhere, OpenedIsExclusive,
      HeldIsUnpublished, Closing, At
<1>4. /\ PublishedIsWatched'
      /\ PublishedIffConnected'
      /\ LeaseOfExistingConnection'
  BY <1>1 DEF IInv, PublishedIsWatched, PublishedIffConnected,
      LeaseOfExistingConnection, AttemptOf, Exists
<1>5. OpenTransportIsOwned'
  BY <1>1 DEF IInv, OpenTransportIsOwned, Owned, Registered, Closing, Exists
<1> QED BY <1>2, <1>3, <1>4, <1>5 DEF IInv

\* Requests preserve it.
LEMMA RequestKeeps ==
  ASSUME IInv, Request
  PROVE  IInv'
<1>1. CASE PutContext
  BY <1>1, PutContextKeeps
<1>2. CASE \E c \in Connections, configuration \in Configurations :
              ConfigureConnection(c, configuration)
  BY <1>2, ConfigureConnectionKeeps
<1>3. CASE \E c \in Connections : DeleteConnection(c) \/ PauseOff(c)
  BY <1>3, DeleteConnectionKeeps, PauseOffKeeps
<1>4. CASE \E p \in Calls : DeleteContext(p) \/ Shutdown(p)
  BY <1>4, DeleteContextKeeps, ShutdownKeeps
<1>5. CASE \E p \in Calls, c \in Connections :
              ConnectBegins(p, c) \/ DisconnectBegins(p, c) \/ PauseBegins(p, c)
  BY <1>5, ConnectBeginsKeeps, DisconnectBeginsKeeps, PauseBeginsKeeps
<1> QED BY <1>1, <1>2, <1>3, <1>4, <1>5 DEF Request

\* Whatever a handler does next preserves it.
LEMMA HandlerStepKeeps ==
  ASSUME IInv, NEW p \in Calls, HandlerStep(p)
  PROVE  IInv'
<1>1. CASE ClearingCloses(p)
  BY <1>1, ClearingClosesKeeps
<1>2. CASE ClearingReturns(p)
  BY <1>2, ClearingReturnsKeeps
<1>3. CASE ConnectOpens(p)
  BY <1>3, ConnectOpensKeeps
<1>4. CASE ConnectIsRefused(p)
  BY <1>4, ConnectIsRefusedKeeps
<1>5. CASE ConnectFindsNoContext(p)
  BY <1>5, ConnectFindsNoContextKeeps
<1>6. CASE ConnectIsStale(p)
  BY <1>6, ConnectIsStaleKeeps
<1>7. CASE ConnectPublishes(p)
  BY <1>7, ConnectPublishesKeeps
<1>8. CASE ConnectCannotStage(p)
  BY <1>8, ConnectCannotStageKeeps
<1>9. CASE ConnectFails(p)
  BY <1>9, ConnectFailsKeeps
<1>10. CASE ConnectDiscards(p)
  BY <1>10, ConnectDiscardsKeeps
<1>11. CASE DisconnectCloses(p)
  BY <1>11, DisconnectClosesKeeps
<1>12. CASE DisconnectReturns(p)
  BY <1>12, DisconnectReturnsKeeps
<1>13. CASE PauseReturns(p)
  BY <1>13, PauseReturnsKeeps
<1> QED
  BY <1>1, <1>2, <1>3, <1>4, <1>5, <1>6, <1>7, <1>8, <1>9, <1>10, <1>11,
      <1>12, <1>13 DEF HandlerStep

\* Every step preserves it.
LEMMA NextKeeps ==
  ASSUME IInv, [Next]_vars
  PROVE  IInv'
<1>1. CASE Request
  BY <1>1, RequestKeeps
<1>2. CASE \E p \in Calls : HandlerStep(p)
  BY <1>2, HandlerStepKeeps
<1>3. CASE \E r \in Runtimes : \/ TransportIsLost(r)
                                \/ TargetUpdateIsRejected(r)
                                \/ SupervisorStep(r)
  BY <1>3, TransportIsLostKeeps, TargetUpdateIsRejectedKeeps,
     SupervisorWakesKeeps, SupervisorClosesKeeps DEF SupervisorStep
<1>4. CASE UNCHANGED vars
  BY <1>4, StutterKeeps
<1> QED BY <1>1, <1>2, <1>3, <1>4 DEF Next

\* IInv holds in every state the daemon reaches.
THEOREM Invariance == Spec => []IInv
<1>1. Init => IInv
  BY InitKeeps
<1>2. IInv /\ [Next]_vars => IInv'
  BY NextKeeps
<1> QED BY <1>1, <1>2, PTL DEF Spec

-----------------------------------------------------------------------------
(***************************************************************************)
(* The safety properties.                                                  *)
(***************************************************************************)

\* Every variable, the locals of the handlers included, keeps its type.
THEOREM TypeCorrectness == Spec => []TypeOK
<1>1. IInv => TypeOK
  BY DEF IInv
<1> QED BY <1>1, Invariance, PTL

\* state.runtimes and the connection status agree in every state, although
\* four kinds of task write them.
THEOREM PublishedExactlyWhileConnected == Spec => []PublishedIffConnected
<1>1. IInv => PublishedIffConnected
  BY DEF IInv
<1> QED BY <1>1, Invariance, PTL

\* Late completions never publish a runtime of another attempt or recipe.
THEOREM PublishedOfCurrentAttempt == Spec => []PublishedForCurrentAttempt
<1>1. ASSUME IInv PROVE PublishedForCurrentAttempt
  <2> SUFFICES ASSUME NEW c \in Connections, runtimes[c] # NoRuntime
               PROVE  LET goal == origin[runtimes[c]] IN
                        /\ goal.connection = c
                        /\ goal.attempt = AttemptOf(connections, c)
                        /\ goal.incarnation = incarnation[c] =>
                             goal.configuration = connections[c].configuration
    BY DEF PublishedForCurrentAttempt
  <2>1. runtimes[c] \in Runtimes /\ Exists(connections, c)
    BY <1>1 DEF IInv, TypeOK, RuntimeSlot, PublishedIffConnected, Exists
  <2>2. /\ transport[runtimes[c]] # "unopened"
        /\ origin[runtimes[c]].connection = c
        /\ origin[runtimes[c]].attempt = AttemptOf(connections, c)
    BY <1>1, <2>1 DEF IInv, PublishedIsWatched, FreshIsNowhere
  <2>3. origin[runtimes[c]] \in Goal
    BY <1>1, <2>1, <2>2 DEF IInv, FreshIsNowhere
  <2>4. GoalIsPast(origin[runtimes[c]])
    BY <1>1, <2>1, <2>3 DEF IInv, GoalsArePast
  <2> QED BY <2>1, <2>2, <2>4 DEF GoalIsPast, AttemptOf
<1> QED BY <1>1, Invariance, PTL

\* No operation finds a runtime that a handler has given up or not published.
THEOREM HeldNeverPublished == Spec => []HeldIsUnpublished
<1>1. IInv => HeldIsUnpublished
  BY DEF IInv
<1> QED BY <1>1, Invariance, PTL

\* Pause leases end with the connection entry.
THEOREM LeasesOfExistingConnections == Spec => []LeaseOfExistingConnection
<1>1. IInv => LeaseOfExistingConnection
  BY DEF IInv
<1> QED BY <1>1, Invariance, PTL

\* Nothing leaks a transport while its connection entry exists.
THEOREM NoTransportLeak == Spec => []OpenTransportIsOwned
<1>1. IInv => OpenTransportIsOwned
  BY DEF IInv
<1> QED BY <1>1, Invariance, PTL

-----------------------------------------------------------------------------
(***************************************************************************)
(* ConnectionService implements ConnectionLifecycle, and runtimes leave    *)
(* state.runtimes only through their owner.  Both are statements about one *)
(* step taken from a state in which IInv holds.  The actions fall in two   *)
(* kinds: those that leave the connections, the published slots and the    *)
(* set of runtimes ever published alone and are stutters of the lifecycle, *)
(* and those that take one connection from one phase to another.           *)
(***************************************************************************)

-----------------------------------------------------------------------------
(***************************************************************************)
(* The abstract state.                                                     *)
(***************************************************************************)

\* The phases that the connection statuses stand for.
LEMMA PhaseOfStatus ==
  /\ PhaseOf("absent") = "absent"
  /\ PhaseOf("disconnected") = "idle"
  /\ PhaseOf("failed") = "idle"
  /\ PhaseOf("connecting") = "opening"
  /\ PhaseOf("connected") = "live"
  /\ PhaseOf("disconnecting") = "closing"
BY DEF PhaseOf

\* A step that changes the status of one connection moves it to the phase of
\* its new status.
LEMMA StatusEnters ==
  ASSUME NEW c \in Connections, NEW status, connections'[c].status = status,
         \A d \in Connections \ {c} :
           connections'[d].status = connections[d].status
  PROVE  Lifecycle!Enter(c, PhaseOf(status))
BY DEF Lifecycle!Enter

\* Steps that the lifecycle does not see.
LEMMA StepIsQuiet ==
  ASSUME UNCHANGED <<connections, runtimes, stopping>>,
         \A r \in Runtimes : supervisor'[r] = "none" <=> supervisor[r] = "none"
  PROVE  UNCHANGED Lifecycle!abstractVars
BY DEF Lifecycle!abstractVars

\* A step of the lifecycle, or one that the lifecycle does not see.
Implemented == [Lifecycle!LifecycleNext]_(Lifecycle!abstractVars)

\* A status change alone is a lifecycle step when the phases allow it.
LEMMA StatusStep ==
  ASSUME NEW c \in Connections, NEW old, NEW new,
         connections[c].status = old, connections'[c].status = new,
         \A d \in Connections \ {c} :
           connections'[d].status = connections[d].status,
         UNCHANGED <<runtimes, supervisor, stopping>>,
         \/ PhaseOf(old) \in {"absent", "idle"} /\ PhaseOf(new) = "idle"
         \/ PhaseOf(old) = "idle" /\ PhaseOf(new) \in {"absent", "opening"}
         \/ PhaseOf(old) \in {"opening", "closing"} /\ PhaseOf(new) = "idle"
  PROVE  Implemented
<1>1. Lifecycle!Enter(c, PhaseOf(new))
  BY StatusEnters
<1>2. Lifecycle!LifecycleStep(c)
  BY <1>1 DEF Lifecycle!LifecycleStep, Lifecycle!Configure, Lifecycle!Remove,
      Lifecycle!Open, Lifecycle!OpenFails, Lifecycle!Closed
<1> QED BY <1>2 DEF Implemented, Lifecycle!LifecycleNext

-----------------------------------------------------------------------------
(***************************************************************************)
(* The actions.                                                            *)
(***************************************************************************)
\* Putting, replacing and deleting an entry, and starting to connect it.
LEMMA ConfigurationIsImplemented ==
  ASSUME IInv, NEW c \in Connections,
         \/ \E configuration \in Configurations :
              ConfigureConnection(c, configuration)
         \/ DeleteConnection(c)
         \/ \E p \in Calls : ConnectBegins(p, c)
  PROVE  Implemented
<1>1. UNCHANGED <<runtimes, supervisor, stopping>>
  BY DEF ConfigureConnection, DeleteConnection, ConnectBegins
<1>2. /\ connections[c].status \in {"absent", "disconnected", "failed"}
      /\ \/ connections'[c].status = "disconnected"
         \/ /\ connections[c].status # "absent"
            /\ connections'[c].status \in {"absent", "connecting"}
      /\ \A d \in Connections \ {c} : connections'[d] = connections[d]
  <2>1. CASE \E configuration \in Configurations :
               ConfigureConnection(c, configuration)
    BY <2>1 DEF IInv, TypeOK, ConnectionState, ConnectionStatus,
        ConfigureConnection,
        MayPutConnection, IsActive, ActiveStatuses, PutConnection
  <2>2. CASE DeleteConnection(c)
    BY <2>2 DEF IInv, TypeOK, ConnectionState, ConnectionStatus,
        DeleteConnection,
        MayRemoveConnection, RemoveConnection, Exists, IsActive, ActiveStatuses,
        NoConnection
  <2>3. CASE \E p \in Calls : ConnectBegins(p, c)
    <3>1. /\ MayConnect(connections, c)
          /\ connections' = ConnectConnection(connections, c)
      BY <2>3 DEF ConnectBegins
    <3> QED BY <3>1 DEF IInv, TypeOK, ConnectionState, ConnectionStatus,
          MayConnect, ConnectConnection, Exists, IsActive, ActiveStatuses
  <2> QED BY <2>1, <2>2, <2>3
<1> QED BY <1>1, <1>2, PhaseOfStatus, StatusStep

\* A disconnect unlinks the runtime in the step that leaves its phase.
LEMMA DisconnectBeginsIsImplemented ==
  ASSUME IInv, NEW p \in Calls, NEW c \in Connections, DisconnectBegins(p, c)
  PROVE  Implemented
<1>1. /\ runtimes' = [runtimes EXCEPT ![c] = NoRuntime]
      /\ UNCHANGED <<supervisor, stopping>>
      /\ connections[c].status \in {"connecting", "connected", "failed"}
  BY DEF DisconnectBegins, MayDisconnect
<1>2. StatusBecomes(c, "disconnecting")
  BY WithStatusEffect DEF IInv, DisconnectBegins, DisconnectConnection,
      ConnectionStatus, ActiveStatuses
<1>3. Lifecycle!Enter(c, "closing")
  BY <1>2, StatusEnters, PhaseOfStatus DEF StatusBecomes
<1>4. Lifecycle!Close(c)
  BY <1>1, <1>3, PhaseOfStatus DEF Lifecycle!Close, Lifecycle!Unlink
<1> QED BY <1>4 DEF Implemented, Lifecycle!LifecycleNext,
      Lifecycle!LifecycleStep

\* Deleting the context removes every connection and link at once.
LEMMA DeleteContextIsImplemented ==
  ASSUME NEW p \in Calls, DeleteContext(p)
  PROVE  Implemented
<1>1. /\ \A c \in Connections : connections'[c].status = "absent"
      /\ runtimes' = [c \in Connections |-> NoRuntime]
      /\ UNCHANGED <<supervisor, stopping>>
  BY DEF DeleteContext, NoConnections, NoConnection
<1>2. Lifecycle!RemoveAll
  BY <1>1, PhaseOfStatus DEF Lifecycle!RemoveAll
<1> QED BY <1>2 DEF Implemented, Lifecycle!LifecycleNext

\* Shutdown breaks the links and leaves the phases.
LEMMA ShutdownIsImplemented ==
  ASSUME NEW p \in Calls, Shutdown(p)
  PROVE  Implemented
<1>1. /\ stopping' = TRUE
      /\ runtimes' = [c \in Connections |-> NoRuntime]
      /\ UNCHANGED <<connections, supervisor>>
  BY DEF Shutdown
<1>2. Lifecycle!Stop
  BY <1>1 DEF Lifecycle!Stop
<1> QED BY <1>2 DEF Implemented, Lifecycle!LifecycleNext

\* The published runtime was never published before: nothing watches it yet.
LEMMA ConnectPublishesIsImplemented ==
  ASSUME IInv, NEW p \in Calls, ConnectPublishes(p)
  PROVE  Implemented
<1>1. PICK c \in Connections : At(p, "opened") /\ c = call[p].goal.connection
  BY DEF IInv, ConnectPublishes, HandlersHaveGoals, At, Goal
<1>2. PICK r \in Runtimes :
        /\ supervisor[r] = "none"
        /\ runtimes' = [runtimes EXCEPT ![c] = r]
        /\ supervisor' = [supervisor EXCEPT ![r] = "watching"]
  <2>1. PICK r \in Runtimes : call[p].held = {r} /\ supervisor[r] = "none"
    BY <1>1 DEF IInv, OpenedIsExclusive
  <2> QED BY <1>1, <2>1 DEF ConnectPublishes
<1>3. connections[c].status = "connecting" /\ StatusBecomes(c, "connected")
  BY <1>1, WithStatusEffect DEF IInv, ConnectPublishes, ConnectionOpened,
      ConnectionStatus, ActiveStatuses, AttemptIsPending, IsPending
<1>4. Lifecycle!Enter(c, "live") /\ UNCHANGED stopping
  BY <1>1, <1>3, StatusEnters, PhaseOfStatus DEF StatusBecomes,
      ConnectPublishes
<1>5. {s \in Runtimes : supervisor[s] # "none"}' =
        {s \in Runtimes : supervisor[s] # "none"} \cup {r}
  BY <1>2 DEF IInv, TypeOK
<1>6. Lifecycle!GoLive(c)
  BY <1>1, <1>2, <1>3, <1>4, <1>5, PhaseOfStatus DEF Lifecycle!GoLive
<1>7. Lifecycle!LifecycleStep(c)
  BY <1>6 DEF Lifecycle!LifecycleStep
<1> QED BY <1>7 DEF Implemented, Lifecycle!LifecycleNext

\* A connect that fails, and a disconnect that ends, make the entry idle.
LEMMA CompletionIsImplemented ==
  ASSUME IInv, NEW p \in Calls,
         ConnectCannotStage(p) \/ ConnectFails(p) \/ DisconnectReturns(p)
  PROVE  Implemented
<1> DEFINE c == call[p].goal.connection
<1>1. c \in Connections
  BY DEF IInv, HandlersHaveGoals, At, Goal, ConnectCannotStage, ConnectFails,
      DisconnectReturns
<1>2. UNCHANGED <<supervisor, stopping>>
  BY DEF ConnectCannotStage, ConnectFails, DisconnectReturns
<1>3. \/ UNCHANGED connections
      \/ connections[c].status = "connecting" /\ StatusBecomes(c, "failed")
      \/ connections[c].status = "disconnecting" /\ StatusBecomes(c, "disconnected")
  <2>1. \/ UNCHANGED connections
        \/ /\ connections[c].status = "connecting"
           /\ connections' = WithStatus(connections, c, "failed")
        \/ /\ connections[c].status = "disconnecting"
           /\ connections' = WithStatus(connections, c, "disconnected")
    BY DEF ConnectCannotStage, ConnectFails, DisconnectReturns,
        ConnectionClosed,
        ConnectionOpenFailed, AttemptIsPending, IsPending
  <2> QED BY <2>1, <1>1, WithStatusEffect DEF IInv, ConnectionStatus
<1>4. UNCHANGED runtimes
  <2>1. CASE ConnectFails(p)
    <3>1. runtimes[c] = NoRuntime
      BY <2>1, <1>1 DEF IInv, PublishedIffConnected, ConnectFails,
          AttemptIsPending, IsPending
    <3> QED BY <2>1, <3>1 DEF IInv, TypeOK, ConnectFails
  <2>2. CASE ~ConnectFails(p)
    BY <2>2 DEF ConnectCannotStage, DisconnectReturns
  <2> QED BY <2>1, <2>2
<1>5. CASE UNCHANGED connections
  BY <1>2, <1>4, <1>5, StepIsQuiet DEF Implemented
<1>6. CASE connections[c].status = "connecting" /\ StatusBecomes(c, "failed")
  BY <1>1, <1>2, <1>4, <1>6, StatusStep, PhaseOfStatus DEF StatusBecomes
<1>7. CASE /\ connections[c].status = "disconnecting"
           /\ StatusBecomes(c, "disconnected")
  BY <1>1, <1>2, <1>4, <1>7, StatusStep, PhaseOfStatus DEF StatusBecomes
<1> QED BY <1>3, <1>5, <1>6, <1>7

\* A supervisor unlinks its own runtime or changes nothing abstract.
LEMMA SupervisorWakesIsImplemented ==
  ASSUME IInv, NEW r \in Runtimes, SupervisorWakes(r)
  PROVE  Implemented
<1> DEFINE c == origin[r].connection
<1>1. supervisor[r] = "watching" /\ c \in Connections
  BY DEF IInv, SupervisorWakes, FreshIsNowhere, Goal
<1>2. \A s \in Runtimes : supervisor'[s] = "none" <=> supervisor[s] = "none"
  BY <1>1 DEF IInv, TypeOK, SupervisorWakes
<1>3. CASE runtimes[c] # r
  BY <1>2, <1>3, StepIsQuiet DEF SupervisorWakes, IsCurrentRuntime, Implemented
<1>4. CASE runtimes[c] = r
  <2>1. /\ connections[c].status = "connected"
        /\ AttemptOf(connections, c) = origin[r].attempt
    BY <1>1, <1>4, NoRuntimeAssumption
        DEF IInv, PublishedIffConnected, PublishedIsWatched
  <2>2. /\ runtimes' = [runtimes EXCEPT ![c] = NoRuntime]
        /\ connections' = WithStatus(connections, c, "failed")
        /\ UNCHANGED stopping
    BY <1>4, <2>1 DEF SupervisorWakes, IsCurrentRuntime, ObserveClosed,
        IsPending
  <2>3. StatusBecomes(c, "failed")
    BY <1>1, <2>2, WithStatusEffect DEF IInv, ConnectionStatus
  <2>4. Lifecycle!Enter(c, "idle")
    BY <1>1, <2>3, StatusEnters, PhaseOfStatus DEF StatusBecomes
  <2>5. Lifecycle!Lose(c)
    BY <1>2, <2>1, <2>2, <2>4, <1>1, PhaseOfStatus
        DEF Lifecycle!Lose, Lifecycle!Unlink
  <2> QED BY <1>1, <2>5 DEF Implemented, Lifecycle!LifecycleNext,
        Lifecycle!LifecycleStep
<1> QED BY <1>3, <1>4

\* Every other action is invisible.
LEMMA OtherIsImplemented ==
  ASSUME IInv,
         \/ PutContext
         \/ \E c \in Connections : PauseOff(c)
         \/ \E p \in Calls, c \in Connections : PauseBegins(p, c)
         \/ \E p \in Calls :
              \/ ClearingCloses(p) \/ ClearingReturns(p)
              \/ ConnectOpens(p) \/ ConnectIsRefused(p)
              \/ ConnectFindsNoContext(p) \/ ConnectIsStale(p)
              \/ ConnectDiscards(p) \/ DisconnectCloses(p) \/ PauseReturns(p)
         \/ \E r \in Runtimes : \/ TransportIsLost(r)
                               \/ TargetUpdateIsRejected(r)
                               \/ SupervisorCloses(r)
         \/ UNCHANGED vars
  PROVE  Implemented
<1>1. UNCHANGED <<connections, runtimes, stopping>>
  BY DEF PutContext, PauseOff, PauseBegins, ClearingCloses,
      ClearingReturns, ConnectOpens, ConnectIsRefused,
      ConnectFindsNoContext, ConnectIsStale, ConnectDiscards, DisconnectCloses,
      PauseReturns, TransportIsLost, TargetUpdateIsRejected, SupervisorCloses,
      vars
<1>2. \A r \in Runtimes : supervisor'[r] = "none" <=> supervisor[r] = "none"
  <2>1. CASE UNCHANGED supervisor
    BY <2>1
  <2>2. CASE \E r \in Runtimes : SupervisorCloses(r)
    BY <2>2 DEF IInv, TypeOK, SupervisorCloses
  <2> QED
    BY <2>1, <2>2 DEF PutContext, PauseOff, PauseBegins, ClearingCloses,
        ClearingReturns, ConnectOpens, ConnectIsRefused,
        ConnectFindsNoContext, ConnectIsStale, ConnectDiscards,
        DisconnectCloses, PauseReturns, TransportIsLost,
        TargetUpdateIsRejected, vars
<1> QED BY <1>1, <1>2, StepIsQuiet DEF Implemented

\* Every step of the daemon is a step of the lifecycle or a stutter.
LEMMA NextIsImplemented ==
  ASSUME IInv, [Next]_vars
  PROVE  Implemented
<1>1. CASE Request
  BY <1>1, ConfigurationIsImplemented, DeleteContextIsImplemented,
     ShutdownIsImplemented, DisconnectBeginsIsImplemented, OtherIsImplemented DEF Request
<1>2. CASE \E p \in Calls : HandlerStep(p)
  <2>1. PICK p \in Calls : HandlerStep(p)
    BY <1>2
  <2>2. CASE ConnectPublishes(p)
    BY <2>2, ConnectPublishesIsImplemented
  <2>3. CASE ConnectCannotStage(p) \/ ConnectFails(p) \/ DisconnectReturns(p)
    BY <2>3, CompletionIsImplemented
  <2>4. CASE \/ ClearingCloses(p) \/ ClearingReturns(p)
             \/ ConnectOpens(p) \/ ConnectIsRefused(p)
             \/ ConnectFindsNoContext(p) \/ ConnectIsStale(p)
             \/ ConnectDiscards(p) \/ DisconnectCloses(p) \/ PauseReturns(p)
    BY <2>4, OtherIsImplemented
  <2> QED BY <2>1, <2>2, <2>3, <2>4 DEF HandlerStep
<1>3. CASE \E r \in Runtimes : \/ TransportIsLost(r)
                                \/ TargetUpdateIsRejected(r)
                                \/ SupervisorStep(r)
  BY <1>3, SupervisorWakesIsImplemented, OtherIsImplemented DEF SupervisorStep
<1>4. CASE UNCHANGED vars
  BY <1>4, OtherIsImplemented
<1> QED BY <1>1, <1>2, <1>3, <1>4 DEF Next

-----------------------------------------------------------------------------
\* The daemon implements the lifecycle: connections only take documented
\* transitions, and a link is always made to a runtime never linked before.
THEOREM Refinement == Spec => ImplementsLifecycle
<1>1. Init => Lifecycle!LifecycleInit
  BY PhaseOfStatus DEF Init, NoConnections, NoConnection,
     Lifecycle!LifecycleInit
<1>2. IInv /\ [Next]_vars => [Lifecycle!LifecycleNext]_(Lifecycle!abstractVars)
  BY NextIsImplemented DEF Implemented
<1> QED BY <1>1, <1>2, Invariance, PTL
      DEF Spec, ImplementsLifecycle, Lifecycle!LifecycleSpec

\* The step that OnlyOwnerUnpublishes allows.
OwnerUnpublishes ==
    \A c \in Connections :
      runtimes[c] # NoRuntime /\ runtimes'[c] # runtimes[c] =>
        /\ runtimes'[c] = NoRuntime
        /\ \/ transport[runtimes[c]] # "open"
           \/ connections'[c].status = "disconnecting"
           \/ ~contextExists'
           \/ stopping'

\* The five actions that write state.runtimes.
LEMMA RuntimesWriters ==
  ASSUME IInv, [Next]_vars
  PROVE  \/ UNCHANGED runtimes
         \/ \E p \in Calls : \/ DeleteContext(p) \/ Shutdown(p)
                             \/ ConnectPublishes(p)
                             \/ \E c \in Connections : DisconnectBegins(p, c)
         \/ \E r \in Runtimes : SupervisorWakes(r)
<1>1. CASE Request
  BY <1>1 DEF Request, PutContext, ConfigureConnection, DeleteConnection,
      PauseOff, ConnectBegins, PauseBegins
<1>2. ASSUME NEW p \in Calls, ConnectFails(p) PROVE UNCHANGED runtimes
  <2>1. call[p].goal.connection \in Connections
    BY <1>2 DEF IInv, ConnectFails, HandlersHaveGoals, At, Goal
  <2>2. runtimes[call[p].goal.connection] = NoRuntime
    BY <1>2, <2>1 DEF IInv, PublishedIffConnected, ConnectFails,
        AttemptIsPending, IsPending
  <2> QED BY <1>2, <2>1, <2>2 DEF IInv, TypeOK, ConnectFails
<1>3. CASE \E p \in Calls : HandlerStep(p)
  BY <1>2, <1>3 DEF HandlerStep, ClearingCloses, ClearingReturns,
      ConnectOpens, ConnectIsRefused, ConnectFindsNoContext, ConnectIsStale,
      ConnectCannotStage, ConnectDiscards, DisconnectCloses,
      DisconnectReturns, PauseReturns
<1>4. CASE \E r \in Runtimes : \/ TransportIsLost(r)
                                \/ TargetUpdateIsRejected(r)
                                \/ SupervisorStep(r)
  BY <1>4 DEF TransportIsLost, TargetUpdateIsRejected, SupervisorStep, SupervisorCloses
<1>5. CASE UNCHANGED vars
  BY <1>5 DEF vars
<1> QED BY <1>1, <1>3, <1>4, <1>5 DEF Next

\* A runtime leaves its slot only through a disconnect or deletion of its own
\* connection, after its own transport ended, or when the daemon stops.
THEOREM OwnersUnpublish == Spec => OnlyOwnerUnpublishes
<1>1. ASSUME IInv, [Next]_vars PROVE OwnerUnpublishes
  <2>1. CASE UNCHANGED runtimes
    BY <2>1 DEF OwnerUnpublishes
  <2>2. CASE \E p \in Calls : DeleteContext(p) \/ Shutdown(p)
    BY <2>2 DEF OwnerUnpublishes, DeleteContext, Shutdown
  <2>3. CASE \E p \in Calls : ConnectPublishes(p)
    <3>1. PICK p \in Calls : ConnectPublishes(p)
      BY <2>3
    <3>2. call[p].goal.connection \in Connections
      BY <1>1, <3>1 DEF IInv, ConnectPublishes, HandlersHaveGoals, At, Goal
    <3>3. runtimes[call[p].goal.connection] = NoRuntime
      BY <1>1, <3>1, <3>2 DEF IInv, PublishedIffConnected, ConnectPublishes,
          AttemptIsPending, IsPending
    <3> QED BY <1>1, <3>1, <3>2, <3>3 DEF IInv, TypeOK, ConnectPublishes,
        OwnerUnpublishes
  <2>4. CASE \E p \in Calls, c \in Connections : DisconnectBegins(p, c)
    <3>1. PICK p \in Calls, c \in Connections : DisconnectBegins(p, c)
      BY <2>4
    <3>2. connections'[c].status = "disconnecting"
      BY <1>1, <3>1 DEF IInv, TypeOK, ConnectionState, DisconnectBegins,
          DisconnectConnection, WithStatus
    <3>3. runtimes' = [runtimes EXCEPT ![c] = NoRuntime]
      BY <3>1 DEF DisconnectBegins
    <3> QED BY <1>1, <3>2, <3>3 DEF IInv, TypeOK, OwnerUnpublishes
  <2>5. CASE \E r \in Runtimes : SupervisorWakes(r)
    <3>1. PICK r \in Runtimes : SupervisorWakes(r)
      BY <2>5
    <3>2. /\ transport[r] # "open"
          /\ \A c \in Connections : runtimes'[c] # runtimes[c] =>
               runtimes[c] = r /\ runtimes'[c] = NoRuntime
      BY <1>1, <3>1 DEF IInv, TypeOK, SupervisorWakes, IsCurrentRuntime
    <3> QED BY <3>2 DEF OwnerUnpublishes
  <2> QED BY <1>1, <2>1, <2>2, <2>3, <2>4, <2>5, RuntimesWriters
<1>2. IInv /\ [Next]_vars => [OwnerUnpublishes]_vars
  BY <1>1
<1> QED BY <1>2, Invariance, PTL
      DEF Spec, OnlyOwnerUnpublishes, OwnerUnpublishes
=============================================================================
