-------------------------- MODULE SupervisionProofs --------------------------
(***************************************************************************)
(* Proofs about the two components that watch over a connection while it   *)
(* is in use.                                                              *)
(*                                                                         *)
(* IdleSupervision: what the supervisor disconnects is idle and due, for   *)
(* every set of connections, every finite set of operations and for all    *)
(* timeouts, "inf" included.                                               *)
(*                                                                         *)
(* PauseChildrenLease: the count of the pause leases is exact, and pausing *)
(* is turned off after the last one, for every finite set of handlers and  *)
(* for all bounds.                                                         *)
(***************************************************************************)
EXTENDS IdleSupervision, PauseChildrenLease, FiniteSetTheorems, SequenceTheorems, TLAPS

-----------------------------------------------------------------------------
(***************************************************************************)
(* Idle supervision.                                                       *)
(***************************************************************************)
ClockState == [age : Nat, operations : Int]

Typed ==
    /\ status \in [Connections -> {"disconnected", "connecting", "connected", "disconnecting"}]
    /\ default \in Timeouts
    /\ override \in [Connections -> Timeouts \cup {Inherit}]
    /\ incarnation \in [Connections -> 0..MaxConnects]
    /\ tracked \in [Connections -> BOOLEAN]
    /\ clock \in [Connections -> [Incarnations -> ClockState]]
    /\ opener \in [Connections -> Operations \cup {Nobody}]
    /\ guards \in [Operations -> SUBSET (Connections \X Incarnations)]
    /\ closer \in [Connections -> {"none", "caller", "supervisor"}]
    /\ unused \in [Connections -> Nat]

Users(c, i) == {o \in Operations : <<c, i>> \in guards[o]}

\* A clock counts the operations that hold a guard of it.
GuardsAreCounted ==
    \A c \in Connections, i \in Incarnations :
        clock[c][i].operations = Cardinality(Users(c, i))

\* There is no guard of a clock that is still to be made.
GuardsAreOfMadeClocks ==
    \A o \in Operations, c \in Connections, i \in Incarnations :
        <<c, i>> \in guards[o] => i <= incarnation[c]

\* Who opens a connection holds its clock until it is open.
OpenersHoldGuards ==
    \A c \in Connections : status[c] = "connecting" =>
        opener[c] \in Operations /\ <<c, incarnation[c]>> \in guards[opener[c]]

TrackedAreOpen ==
    \A c \in Connections : tracked[c] =>
        status[c] \in {"connecting", "connected"} /\ incarnation[c] \in Incarnations

\* A clock that nobody holds does not run ahead of the time since its connection was
\* used or found blocked.
AgesAreUnused ==
    \A c \in Connections : tracked[c] /\ Clock(c).operations = 0 =>
        Clock(c).age <= unused[c]

IInv ==
    /\ Typed /\ GuardsAreCounted /\ GuardsAreOfMadeClocks /\ OpenersHoldGuards
    /\ TrackedAreOpen /\ AgesAreUnused

-----------------------------------------------------------------------------
\* The operations that hold a clock are finitely many.
LEMMA UsersAreFinite ==
    ASSUME NEW c \in Connections, NEW i \in Incarnations
    PROVE  IsFiniteSet(Users(c, i)) /\ Cardinality(Users(c, i)) \in Nat
<1>1. Users(c, i) \in SUBSET Operations
  BY DEF Users
<1>2. IsFiniteSet(Users(c, i))
  BY <1>1, IdleAssumption, FS_Subset
<1> QED BY <1>2, FS_CardinalityType

\* A clock that counts zero operations is held by none.
LEMMA NobodyUses ==
    ASSUME NEW c \in Connections, NEW i \in Incarnations, Cardinality(Users(c, i)) = 0
    PROVE  \A o \in Operations : <<c, i>> \notin guards[o]
<1>1. Users(c, i) = {}
  BY UsersAreFinite, FS_EmptySet
<1> QED BY <1>1 DEF Users

\* Ages and unused times are counted up to the same bound.
LEMMA CountedUp ==
    ASSUME NEW a \in Nat, NEW b \in Nat
    PROVE  /\ Min({a + 1, Never}) \in Nat
           /\ a <= b => Min({a + 1, Never}) <= Min({b + 1, Never})
<1>1. Never \in Nat
  <2>1. PICK longest \in Timeouts \cup {1} : \A t \in Timeouts \cup {1} : t <= longest
    <3>1. PICK m \in Timeouts : \A t \in Timeouts : t <= m
      BY IdleAssumption
    <3>2. CASE m >= 1
      BY <3>1, <3>2
    <3>3. CASE m < 1
      BY <3>1, <3>3, IdleAssumption
    <3> QED BY <3>1, <3>2, <3>3, IdleAssumption
  <2>2. Never \in Timeouts \cup {1}
    BY <2>1, IdleAssumption DEF Never, Max
  <2> QED BY <2>2, IdleAssumption
<1>2. \A n \in Nat : /\ Min({n + 1, Never}) \in {n + 1, Never}
                     /\ Min({n + 1, Never}) <= n + 1
                     /\ Min({n + 1, Never}) <= Never
  <2> SUFFICES ASSUME NEW n \in Nat
               PROVE  /\ Min({n + 1, Never}) \in {n + 1, Never}
                      /\ Min({n + 1, Never}) <= n + 1
                      /\ Min({n + 1, Never}) <= Never
    OBVIOUS
  <2>1. \E x \in {n + 1, Never} : \A y \in {n + 1, Never} : x <= y
    BY <1>1
  <2> QED BY <2>1 DEF Min
<1> QED BY <1>1, <1>2

\* The initial states satisfy IInv.
LEMMA InitIsInvariant == Init => IInv
<1> SUFFICES ASSUME Init PROVE IInv
  OBVIOUS
<1>1. NewClock \in ClockState /\ NewClock.operations = 0
  BY DEF NewClock, ClockState
<1>2. Typed
  BY <1>1, IdleAssumption DEF Typed, Init
<1>3. \A c \in Connections, i \in Incarnations :
        Users(c, i) = {} /\ clock[c][i] = NewClock
  BY DEF Init, Users
<1>4. GuardsAreCounted
  BY <1>1, <1>3, FS_EmptySet DEF GuardsAreCounted
<1>5. GuardsAreOfMadeClocks /\ OpenersHoldGuards /\ TrackedAreOpen /\ AgesAreUnused
  BY DEF Init, GuardsAreOfMadeClocks, OpenersHoldGuards, TrackedAreOpen, AgesAreUnused
<1> QED BY <1>2, <1>4, <1>5 DEF IInv

-----------------------------------------------------------------------------
(***************************************************************************)
(* Steps that use no clock                                                 *)
(***************************************************************************)
LEMMA StatusKeeps ==
    ASSUME IInv, UNCHANGED <<incarnation, opener, guards, clock, unused>>, Typed',
           \A c \in Connections : tracked'[c] =>
              tracked[c] /\ status'[c] \in {"connecting", "connected"},
           \A c \in Connections : status'[c] = "connecting" => status[c] = "connecting"
    PROVE  IInv'
<1>1. GuardsAreCounted'
  BY DEF IInv, GuardsAreCounted, Users
<1>2. GuardsAreOfMadeClocks' /\ OpenersHoldGuards'
  BY DEF IInv, GuardsAreOfMadeClocks, OpenersHoldGuards
<1>3. TrackedAreOpen' /\ AgesAreUnused'
  BY DEF IInv, TrackedAreOpen, AgesAreUnused, Clock
<1> QED BY <1>1, <1>2, <1>3 DEF IInv

\* Refreshing clocks leaves their counts, and resets some ages.
LEMMA RefreshedClocks ==
    ASSUME Typed, NEW S
    PROVE  /\ Refreshed(S) \in [Connections -> [Incarnations -> ClockState]]
           /\ \A c \in Connections, i \in Incarnations :
                /\ Refreshed(S)[c][i].operations = clock[c][i].operations
                /\ Refreshed(S)[c][i].age \in {0, clock[c][i].age}
                /\ c \in S /\ i = incarnation[c] /\ Examined(c) /\ Blocked(c) =>
                       Refreshed(S)[c][i].age = 0
<1>1. ASSUME NEW c \in Connections, NEW i \in Incarnations
      PROVE  /\ Refreshed(S)[c][i] \in ClockState
             /\ Refreshed(S)[c][i].operations = clock[c][i].operations
             /\ Refreshed(S)[c][i].age \in {0, clock[c][i].age}
             /\ c \in S /\ i = incarnation[c] /\ Examined(c) /\ Blocked(c) =>
                    Refreshed(S)[c][i].age = 0
  <2>1. clock[c][i] \in ClockState
    BY DEF Typed
  <2>2. Refreshed(S)[c][i] =
          IF c \in S /\ i = incarnation[c] /\ Examined(c) /\ Blocked(c)
          THEN [clock[c][i] EXCEPT !.age = 0] ELSE clock[c][i]
    BY DEF Refreshed
  <2> QED BY <2>1, <2>2 DEF ClockState
<1>2. Refreshed(S) \in [Connections -> [Incarnations -> ClockState]]
  BY <1>1 DEF Refreshed
<1> QED BY <1>1, <1>2

\* A connection is disconnected by a caller or by the supervisor.
LEMMA GiveUpKeeps ==
    ASSUME IInv, NEW c \in Connections, NEW by \in {"caller", "supervisor"}, GiveUp(c, by),
           UNCHANGED <<policyVars, useVars, unused>>,
           clock' = clock \/ clock' = Refreshed({c})
    PROVE  IInv'
<1>0. UNCHANGED <<default, override, incarnation, opener, guards>> /\ Typed
  BY DEF policyVars, useVars, IInv
<1>1. clock' \in [Connections -> [Incarnations -> ClockState]]
      /\ \A d \in Connections, i \in Incarnations :
            clock'[d][i].operations = clock[d][i].operations
  BY <1>0, RefreshedClocks DEF Typed
<1>2. Typed'
  BY <1>0, <1>1 DEF GiveUp, Typed
<1>3. \A d \in Connections : d # c =>
        tracked'[d] = tracked[d] /\ status'[d] = status[d] /\ clock'[d] = clock[d]
  BY <1>0 DEF GiveUp, Typed, Refreshed
<1>4. ~tracked'[c] /\ status'[c] = "disconnecting"
  BY <1>0 DEF GiveUp, Typed
<1>5. GuardsAreCounted'
  BY <1>0, <1>1 DEF IInv, GuardsAreCounted, Users
<1>6. GuardsAreOfMadeClocks' /\ OpenersHoldGuards'
  BY <1>0, <1>3, <1>4 DEF IInv, GuardsAreOfMadeClocks, OpenersHoldGuards
<1>7. TrackedAreOpen' /\ AgesAreUnused'
  BY <1>0, <1>3, <1>4 DEF IInv, TrackedAreOpen, AgesAreUnused, Clock
<1> QED BY <1>2, <1>5, <1>6, <1>7 DEF IInv

\* Steps that change no count, guard or status keep what is said of them.
LEMMA CountsKeep ==
    ASSUME IInv, UNCHANGED <<status, incarnation, opener, guards, tracked>>,
           \A c \in Connections, i \in Incarnations :
               clock'[c][i].operations = clock[c][i].operations
    PROVE  GuardsAreCounted' /\ GuardsAreOfMadeClocks' /\ OpenersHoldGuards' /\ TrackedAreOpen'
<1>1. GuardsAreCounted'
  BY DEF IInv, GuardsAreCounted, Users
<1>2. GuardsAreOfMadeClocks'
  BY DEF IInv, GuardsAreOfMadeClocks
<1>3. OpenersHoldGuards' /\ TrackedAreOpen'
  BY DEF IInv, OpenersHoldGuards, TrackedAreOpen
<1> QED BY <1>1, <1>2, <1>3

\* A look renews the clocks of the connections it finds blocked.
LEMMA TickKeeps ==
    ASSUME IInv, Tick
    PROVE  IInv'
<1>0. /\ Typed
      /\ UNCHANGED <<status, default, override, incarnation, opener, guards, tracked,
                     blocked, relayed, closer>>
      /\ clock' = Refreshed(Connections)
      /\ unused' = UnusedSince({c \in Connections : Examined(c) /\ Blocked(c)})
  BY DEF IInv, Tick, policyVars, useVars, blockVars
<1>1. /\ clock' \in [Connections -> [Incarnations -> ClockState]]
      /\ \A c \in Connections, i \in Incarnations :
           /\ clock'[c][i].operations = clock[c][i].operations
           /\ clock'[c][i].age \in {0, clock[c][i].age}
           /\ i = incarnation[c] /\ Examined(c) /\ Blocked(c) => clock'[c][i].age = 0
  BY <1>0, RefreshedClocks
<1>2. /\ unused' \in [Connections -> Nat]
      /\ \A c \in Connections : unused'[c] = IF Examined(c) /\ Blocked(c) THEN 0 ELSE unused[c]
  BY <1>0 DEF UnusedSince, Typed
<1>3. Typed'
  BY <1>0, <1>1, <1>2 DEF Typed
<1>4. GuardsAreCounted' /\ GuardsAreOfMadeClocks' /\ OpenersHoldGuards' /\ TrackedAreOpen'
  BY <1>0, <1>1, CountsKeep
<1>5. AgesAreUnused'
  <2> SUFFICES ASSUME NEW c \in Connections, tracked[c], Clock(c)'.operations = 0
               PROVE  Clock(c)'.age <= unused'[c]
    BY <1>0 DEF AgesAreUnused
  <2>1. incarnation[c] \in Incarnations /\ status[c] \in {"connecting", "connected"}
    BY DEF IInv, TrackedAreOpen
  <2>2. Clock(c).operations = 0 /\ Clock(c)'.age \in {0, Clock(c).age}
    BY <1>0, <1>1, <2>1 DEF Clock
  <2>3. Clock(c).age <= unused[c] /\ Clock(c).age \in Nat /\ unused[c] \in Nat
    BY <1>0, <2>1, <2>2 DEF IInv, AgesAreUnused, Clock, Typed, ClockState
  <2>4. CASE Examined(c) /\ Blocked(c)
    BY <1>0, <1>1, <1>2, <2>1, <2>4 DEF Clock
  <2>5. CASE ~(Examined(c) /\ Blocked(c))
    BY <1>2, <2>2, <2>3, <2>5
  <2> QED BY <2>4, <2>5
<1> QED BY <1>3, <1>4, <1>5 DEF IInv

\* The second look of the supervisor, in disconnect_connection_internal.
LEMMA DisconnectExpiredKeeps ==
    ASSUME IInv, NEW c \in Connections, DisconnectExpired(c)
    PROVE  IInv'
<1>1. CASE Expired(c)
  BY <1>1, GiveUpKeeps DEF DisconnectExpired
<1>2. CASE ~Expired(c)
  <2>0. /\ Typed
        /\ UNCHANGED <<status, default, override, incarnation, opener, guards, tracked,
                       blocked, relayed, closer, unused>>
        /\ clock' = Refreshed({c})
    BY <1>2 DEF IInv, DisconnectExpired, policyVars, useVars
  <2>1. /\ clock' \in [Connections -> [Incarnations -> ClockState]]
        /\ \A d \in Connections, i \in Incarnations :
             /\ clock'[d][i].operations = clock[d][i].operations
             /\ clock'[d][i].age \in {0, clock[d][i].age}
    BY <2>0, RefreshedClocks
  <2>2. Typed'
    BY <2>0, <2>1 DEF Typed
  <2>3. GuardsAreCounted' /\ GuardsAreOfMadeClocks' /\ OpenersHoldGuards' /\ TrackedAreOpen'
    BY <2>0, <2>1, CountsKeep
  <2>4. AgesAreUnused'
    <3> SUFFICES ASSUME NEW d \in Connections, tracked[d], Clock(d)'.operations = 0
                 PROVE  Clock(d)'.age <= unused[d]
      BY <2>0 DEF AgesAreUnused
    <3>1. incarnation[d] \in Incarnations
      BY DEF IInv, TrackedAreOpen
    <3>2. Clock(d).operations = 0 /\ Clock(d)'.age \in {0, Clock(d).age}
      BY <2>0, <2>1, <3>1 DEF Clock
    <3>3. Clock(d).age <= unused[d] /\ unused[d] \in Nat
      BY <2>0, <3>2 DEF IInv, AgesAreUnused, Typed
    <3> QED BY <3>2, <3>3
  <2> QED BY <2>2, <2>3, <2>4 DEF IInv
<1> QED BY <1>1, <1>2

\* The first look of the supervisor at all connections.
LEMMA PassKeeps == ASSUME IInv, Pass PROVE IInv'
<1>0. /\ Typed
      /\ UNCHANGED <<status, default, override, incarnation, opener, guards, tracked,
                     blocked, relayed, closer>>
  BY DEF IInv, Pass, policyVars, useVars, blockVars
<1>1. \A c \in Connections, i \in Incarnations :
        /\ clock'[c][i] \in ClockState
        /\ clock'[c][i].operations = clock[c][i].operations
        /\ clock'[c][i].age \in {clock[c][i].age, Min({clock[c][i].age + 1, Never})}
        /\ i = incarnation[c] /\ tracked[c] =>
               clock'[c][i].age = Min({clock[c][i].age + 1, Never})
  <2> SUFFICES ASSUME NEW c \in Connections, NEW i \in Incarnations
               PROVE  /\ clock'[c][i] \in ClockState
                      /\ clock'[c][i].operations = clock[c][i].operations
                      /\ clock'[c][i].age \in
                             {clock[c][i].age, Min({clock[c][i].age + 1, Never})}
                      /\ i = incarnation[c] /\ tracked[c] =>
                             clock'[c][i].age = Min({clock[c][i].age + 1, Never})
    OBVIOUS
  <2> DEFINE older == Min({clock[c][i].age + 1, Never})
  <2>1. clock[c][i] \in ClockState /\ clock[c][i].age \in Nat
    BY <1>0 DEF Typed, ClockState
  <2>2. older \in Nat
    BY <2>1, CountedUp
  <2>3. clock'[c][i] = IF i = incarnation[c] /\ tracked[c]
                       THEN [clock[c][i] EXCEPT !.age = older] ELSE clock[c][i]
    BY <2>1 DEF Pass, ClockState
  <2> HIDE DEF older
  <2>4. /\ clock'[c][i] \in ClockState
        /\ clock'[c][i].operations = clock[c][i].operations
        /\ clock'[c][i].age \in {clock[c][i].age, older}
        /\ i = incarnation[c] /\ tracked[c] => clock'[c][i].age = older
    BY <2>1, <2>2, <2>3 DEF ClockState
  <2> QED BY <2>4 DEF older
<1>2. clock' \in [Connections -> [Incarnations -> ClockState]]
  BY <1>1 DEF Pass
<1>3. \A c \in Connections : unused[c] \in Nat /\ unused'[c] = Min({unused[c] + 1, Never})
  BY <1>0 DEF Pass, Typed
<1>4. unused' \in [Connections -> Nat]
  <2>1. \A c \in Connections : unused'[c] \in Nat
    BY <1>3, CountedUp
  <2> QED BY <2>1 DEF Pass
<1>5. Typed'
  BY <1>0, <1>2, <1>4 DEF Typed
<1>6. GuardsAreCounted' /\ GuardsAreOfMadeClocks' /\ OpenersHoldGuards' /\ TrackedAreOpen'
  BY <1>0, <1>1, CountsKeep
<1>7. AgesAreUnused'
  <2> SUFFICES ASSUME NEW c \in Connections, tracked[c], Clock(c)'.operations = 0
               PROVE  Clock(c)'.age <= unused'[c]
    BY <1>0 DEF AgesAreUnused
  <2>1. incarnation[c] \in Incarnations
    BY DEF IInv, TrackedAreOpen
  <2>2. /\ Clock(c).operations = 0
        /\ Clock(c)'.age = Min({Clock(c).age + 1, Never})
    BY <1>0, <1>1, <2>1 DEF Clock
  <2>3. Clock(c).age <= unused[c] /\ Clock(c).age \in Nat /\ unused[c] \in Nat
    BY <1>0, <2>1, <2>2 DEF IInv, AgesAreUnused, Clock, Typed, ClockState
  <2> QED BY <1>3, <2>2, <2>3, CountedUp
<1> QED BY <1>5, <1>6, <1>7 DEF IInv

-----------------------------------------------------------------------------
(***************************************************************************)
(* Operations                                                              *)
(***************************************************************************)
LEMMA UsedClocks ==
    ASSUME Typed, NEW held, NEW change \in Int
    PROVE  /\ Used(held, change) \in [Connections -> [Incarnations -> ClockState]]
           /\ \A c \in Connections, i \in Incarnations :
                IF <<c, i>> \in held
                THEN /\ Used(held, change)[c][i].age = 0
                     /\ Used(held, change)[c][i].operations = clock[c][i].operations + change
                ELSE Used(held, change)[c][i] = clock[c][i]
<1>1. ASSUME NEW c \in Connections, NEW i \in Incarnations
      PROVE  /\ Used(held, change)[c][i] \in ClockState
             /\ IF <<c, i>> \in held
                THEN /\ Used(held, change)[c][i].age = 0
                     /\ Used(held, change)[c][i].operations = clock[c][i].operations + change
                ELSE Used(held, change)[c][i] = clock[c][i]
  <2>1. clock[c][i] \in ClockState
    BY DEF Typed
  <2>2. Used(held, change)[c][i] =
          IF <<c, i>> \in held
          THEN [age |-> 0, operations |-> clock[c][i].operations + change]
          ELSE clock[c][i]
    BY DEF Used
  <2> QED BY <2>1, <2>2 DEF ClockState
<1>2. Used(held, change) \in [Connections -> [Incarnations -> ClockState]]
  BY <1>1 DEF Used
<1> QED BY <1>1, <1>2

\* An operation guards the clocks of the present connections only.
LEMMA ClocksAreMade ==
    ASSUME IInv, NEW S \in SUBSET Connections
    PROVE  /\ Clocks(S) \subseteq Connections \X Incarnations
           /\ \A c \in Connections, i \in Incarnations :
                 <<c, i>> \in Clocks(S) => i = incarnation[c]
BY DEF IInv, TrackedAreOpen, Clocks

\* Only the ages of clocks that are used are reset, with the time without use.
LEMMA UseKeepsAges ==
    ASSUME IInv, NEW held \in SUBSET (Connections \X Incarnations), NEW change \in Int,
           clock' = Used(held, change), unused' = UnusedSince(Current(held)),
           UNCHANGED <<status, incarnation, tracked>>
    PROVE  /\ clock' \in [Connections -> [Incarnations -> ClockState]]
           /\ unused' \in [Connections -> Nat]
           /\ TrackedAreOpen' /\ AgesAreUnused'
<1>0. Typed
  BY DEF IInv
<1>1. /\ clock' \in [Connections -> [Incarnations -> ClockState]]
      /\ \A c \in Connections, i \in Incarnations :
           IF <<c, i>> \in held THEN clock'[c][i].age = 0 ELSE clock'[c][i] = clock[c][i]
  BY <1>0, UsedClocks
<1>2. unused' \in [Connections -> Nat]
  BY <1>0 DEF Typed, UnusedSince
<1>3. \A c \in Connections :
        unused'[c] = IF <<c, incarnation[c]>> \in held THEN 0 ELSE unused[c]
  BY <1>0 DEF UnusedSince, Current
<1>4. TrackedAreOpen'
  BY DEF IInv, TrackedAreOpen
<1>5. AgesAreUnused'
  <2> SUFFICES ASSUME NEW c \in Connections, tracked[c], Clock(c)'.operations = 0
               PROVE  Clock(c)'.age <= unused'[c]
    BY DEF AgesAreUnused
  <2>1. incarnation[c] \in Incarnations
    BY DEF IInv, TrackedAreOpen
  <2>2. CASE <<c, incarnation[c]>> \in held
    BY <1>1, <1>3, <2>1, <2>2 DEF Clock
  <2>3. CASE <<c, incarnation[c]>> \notin held
    <3>1. Clock(c)' = Clock(c)
      BY <1>1, <2>1, <2>3 DEF Clock
    <3> QED BY <1>3, <2>3, <3>1 DEF IInv, AgesAreUnused
  <2> QED BY <2>2, <2>3
<1> QED BY <1>1, <1>2, <1>4, <1>5

\* An operation begins and takes its guards.
LEMMA BeginKeeps ==
    ASSUME IInv, NEW o \in Operations, NEW S \in SUBSET Connections, Begin(o, S)
    PROVE  IInv'
<1> DEFINE held == Clocks(S)
<1>0. /\ Typed /\ guards[o] = {} /\ guards' = [guards EXCEPT ![o] = held]
      /\ clock' = Used(held, 1) /\ unused' = UnusedSince(Current(held))
      /\ UNCHANGED <<status, default, override, incarnation, opener, tracked, closer>>
  BY DEF IInv, Begin, policyVars
<1>1. /\ held \in SUBSET (Connections \X Incarnations)
      /\ \A c \in Connections, i \in Incarnations : <<c, i>> \in held => i = incarnation[c]
  BY ClocksAreMade
<1> HIDE DEF held
<1>2. /\ clock' \in [Connections -> [Incarnations -> ClockState]]
      /\ unused' \in [Connections -> Nat]
      /\ TrackedAreOpen' /\ AgesAreUnused'
  BY <1>0, <1>1, UseKeepsAges
<1>3. /\ guards' \in [Operations -> SUBSET (Connections \X Incarnations)]
      /\ guards'[o] = held /\ \A p \in Operations \ {o} : guards'[p] = guards[p]
  BY <1>0, <1>1 DEF Typed
<1>4. Typed'
  BY <1>0, <1>2, <1>3 DEF Typed
<1>5. GuardsAreCounted'
  <2> SUFFICES ASSUME NEW c \in Connections, NEW i \in Incarnations
               PROVE  clock'[c][i].operations = Cardinality(Users(c, i)')
    BY DEF GuardsAreCounted
  <2>1. clock[c][i].operations = Cardinality(Users(c, i))
    BY DEF IInv, GuardsAreCounted
  <2>2. CASE <<c, i>> \in held
    <3>1. Users(c, i)' = Users(c, i) \cup {o} /\ o \notin Users(c, i)
      BY <1>0, <1>3, <2>2 DEF Users
    <3>2. Cardinality(Users(c, i)') = Cardinality(Users(c, i)) + 1
      BY <3>1, UsersAreFinite, FS_AddElement
    <3>3. clock'[c][i].operations = clock[c][i].operations + 1
      BY <1>0, <2>2, UsedClocks
    <3> QED BY <2>1, <3>2, <3>3
  <2>3. CASE <<c, i>> \notin held
    <3>1. Users(c, i)' = Users(c, i)
      BY <1>0, <1>3, <2>3 DEF Users
    <3>2. clock'[c][i] = clock[c][i]
      BY <1>0, <2>3, UsedClocks
    <3> QED BY <2>1, <3>1, <3>2
  <2> QED BY <2>2, <2>3
<1>6. GuardsAreOfMadeClocks'
  <2> SUFFICES ASSUME NEW p \in Operations, NEW c \in Connections, NEW i \in Incarnations,
                      <<c, i>> \in guards'[p]
               PROVE  i <= incarnation[c]
    BY <1>0 DEF GuardsAreOfMadeClocks
  <2>1. CASE p = o
    BY <1>1, <1>3, <2>1 DEF Incarnations
  <2>2. CASE p # o
    BY <1>3, <2>2 DEF IInv, GuardsAreOfMadeClocks
  <2> QED BY <2>1, <2>2
<1>7. OpenersHoldGuards'
  <2> SUFFICES ASSUME NEW c \in Connections, status[c] = "connecting"
               PROVE  opener[c] \in Operations /\ <<c, incarnation[c]>> \in guards'[opener[c]]
    BY <1>0 DEF OpenersHoldGuards
  <2>1. opener[c] \in Operations /\ <<c, incarnation[c]>> \in guards[opener[c]]
    BY DEF IInv, OpenersHoldGuards
  <2>2. opener[c] # o
    BY <1>0, <2>1
  <2> QED BY <1>3, <2>1, <2>2
<1> QED BY <1>2, <1>4, <1>5, <1>6, <1>7 DEF IInv

\* An operation ends and drops its guards.
LEMMA EndKeeps ==
    ASSUME IInv, NEW o \in Operations, End(o)
    PROVE  IInv'
<1> DEFINE held == guards[o]
<1>0. /\ Typed /\ guards' = [guards EXCEPT ![o] = {}]
      /\ clock' = Used(held, -1) /\ unused' = UnusedSince(Current(held))
      /\ \A c \in Connections : status[c] = "connecting" => opener[c] # o
      /\ UNCHANGED <<status, default, override, incarnation, opener, tracked, closer>>
  BY DEF IInv, End, policyVars
<1>1. held \in SUBSET (Connections \X Incarnations)
  BY <1>0 DEF Typed
<1>2. /\ clock' \in [Connections -> [Incarnations -> ClockState]]
      /\ unused' \in [Connections -> Nat]
      /\ TrackedAreOpen' /\ AgesAreUnused'
  BY <1>0, <1>1, UseKeepsAges
<1>3. /\ guards' \in [Operations -> SUBSET (Connections \X Incarnations)]
      /\ guards'[o] = {} /\ \A p \in Operations \ {o} : guards'[p] = guards[p]
  BY <1>0 DEF Typed
<1>4. Typed'
  BY <1>0, <1>2, <1>3 DEF Typed
<1>5. GuardsAreCounted'
  <2> SUFFICES ASSUME NEW c \in Connections, NEW i \in Incarnations
               PROVE  clock'[c][i].operations = Cardinality(Users(c, i)')
    BY DEF GuardsAreCounted
  <2>1. clock[c][i].operations = Cardinality(Users(c, i))
    BY DEF IInv, GuardsAreCounted
  <2>2. CASE <<c, i>> \in held
    <3>1. Users(c, i)' = Users(c, i) \ {o} /\ o \in Users(c, i)
      BY <1>0, <1>3, <2>2 DEF Users
    <3>2. Cardinality(Users(c, i)') = Cardinality(Users(c, i)) - 1
      BY <3>1, UsersAreFinite, FS_RemoveElement
    <3>3. clock'[c][i].operations = clock[c][i].operations + (-1)
      BY <1>0, <2>2, UsedClocks
    <3> QED BY <2>1, <3>2, <3>3, UsersAreFinite
  <2>3. CASE <<c, i>> \notin held
    <3>1. Users(c, i)' = Users(c, i)
      BY <1>0, <1>3, <2>3 DEF Users
    <3>2. clock'[c][i] = clock[c][i]
      BY <1>0, <2>3, UsedClocks
    <3> QED BY <2>1, <3>1, <3>2
  <2> QED BY <2>2, <2>3
<1>6. GuardsAreOfMadeClocks'
  BY <1>0, <1>3 DEF IInv, GuardsAreOfMadeClocks
<1>7. OpenersHoldGuards'
  BY <1>0, <1>3 DEF IInv, OpenersHoldGuards
<1> QED BY <1>2, <1>4, <1>5, <1>6, <1>7 DEF IInv

\* connect_connection makes a new clock and guards it.
LEMMA ConnectKeeps ==
    ASSUME IInv, NEW o \in Operations, NEW c \in Connections, Connect(o, c)
    PROVE  IInv'
<1> DEFINE next == incarnation[c] + 1
<1>0. /\ Typed /\ guards[o] = {} /\ status[c] = "disconnected"
      /\ status' = [status EXCEPT ![c] = "connecting"]
      /\ incarnation' = [incarnation EXCEPT ![c] = next]
      /\ tracked' = [tracked EXCEPT ![c] = TRUE]
      /\ clock' = [clock EXCEPT ![c] = [clock[c] EXCEPT ![next] = HeldClock]]
      /\ opener' = [opener EXCEPT ![c] = o]
      /\ guards' = [guards EXCEPT ![o] = {<<c, next>>}]
      /\ unused' = [unused EXCEPT ![c] = 0]
      /\ UNCHANGED <<default, override, closer>>
  BY DEF IInv, Connect, policyVars, Typed
<1>1. next \in Incarnations /\ incarnation[c] \in Nat
  <2>1. incarnation[c] \in 0..MaxConnects
    BY <1>0 DEF Typed
  <2>2. incarnation[c] < MaxConnects
    BY <2>1, IdleAssumption DEF Connect
  <2> QED BY <2>1, <2>2, IdleAssumption DEF Incarnations
<1> HIDE DEF next
<1>2. HeldClock \in ClockState /\ HeldClock.operations = 1 /\ HeldClock.age = 0
  BY DEF HeldClock, ClockState
<1>3. /\ status'[c] = "connecting" /\ incarnation'[c] = next /\ opener'[c] = o
      /\ \A d \in Connections \ {c} :
           /\ status'[d] = status[d] /\ incarnation'[d] = incarnation[d]
           /\ tracked'[d] = tracked[d] /\ opener'[d] = opener[d]
           /\ unused'[d] = unused[d] /\ clock'[d] = clock[d]
  BY <1>0 DEF Typed
<1>4. /\ guards'[o] = {<<c, next>>}
      /\ \A p \in Operations \ {o} : guards'[p] = guards[p]
  BY <1>0 DEF Typed
<1>5. /\ clock'[c] \in [Incarnations -> ClockState] /\ clock'[c][next] = HeldClock
      /\ \A i \in Incarnations \ {next} : clock'[c][i] = clock[c][i]
  BY <1>0, <1>1, <1>2 DEF Typed
<1>6. Typed'
  <2>1. clock' \in [Connections -> [Incarnations -> ClockState]]
    BY <1>0, <1>5 DEF Typed
  <2>2. incarnation' \in [Connections -> 0..MaxConnects]
    BY <1>0, <1>1 DEF Typed, Incarnations
  <2>3. guards' \in [Operations -> SUBSET (Connections \X Incarnations)]
    BY <1>0, <1>1 DEF Typed
  <2>4. unused' \in [Connections -> Nat]
    BY <1>0 DEF Typed
  <2>5. /\ status' \in [Connections -> {"disconnected", "connecting", "connected",
                                        "disconnecting"}]
        /\ tracked' \in [Connections -> BOOLEAN]
        /\ opener' \in [Connections -> Operations \cup {Nobody}]
    BY <1>0 DEF Typed
  <2> QED BY <1>0, <2>1, <2>2, <2>3, <2>4, <2>5 DEF Typed
<1>7. \A p \in Operations : <<c, next>> \notin guards[p]
  BY <1>0, <1>1 DEF IInv, GuardsAreOfMadeClocks, next
<1>8. GuardsAreCounted'
  <2> SUFFICES ASSUME NEW d \in Connections, NEW i \in Incarnations
               PROVE  clock'[d][i].operations = Cardinality(Users(d, i)')
    BY DEF GuardsAreCounted
  <2>1. CASE d = c /\ i = next
    <3>1. Users(d, i)' = {o}
      BY <1>4, <1>7, <2>1 DEF Users
    <3> QED BY <1>2, <1>5, <2>1, <3>1, FS_Singleton
  <2>2. CASE ~(d = c /\ i = next)
    <3>1. Users(d, i)' = Users(d, i)
      BY <1>0, <1>4, <2>2 DEF Users
    <3>2. clock'[d][i] = clock[d][i]
      BY <1>3, <1>5, <2>2
    <3> QED BY <3>1, <3>2 DEF IInv, GuardsAreCounted
  <2> QED BY <2>1, <2>2
<1>9. GuardsAreOfMadeClocks'
  <2> SUFFICES ASSUME NEW p \in Operations, NEW d \in Connections, NEW i \in Incarnations,
                      <<d, i>> \in guards'[p]
               PROVE  i <= incarnation'[d]
    BY DEF GuardsAreOfMadeClocks
  <2>0. incarnation[d] \in Nat /\ i \in Nat
    BY <1>0 DEF Typed, Incarnations
  <2>1. CASE p = o
    BY <1>3, <1>4, <2>0, <2>1
  <2>2. CASE p # o
    <3>1. i <= incarnation[d]
      BY <1>4, <2>2 DEF IInv, GuardsAreOfMadeClocks
    <3>2. incarnation'[d] \in {incarnation[d], incarnation[d] + 1}
      BY <1>3 DEF next
    <3> QED BY <2>0, <3>1, <3>2
  <2> QED BY <2>1, <2>2
<1>10. OpenersHoldGuards'
  <2> SUFFICES ASSUME NEW d \in Connections, status'[d] = "connecting"
               PROVE  /\ opener'[d] \in Operations
                      /\ <<d, incarnation'[d]>> \in guards'[opener'[d]]
    BY DEF OpenersHoldGuards
  <2>1. CASE d = c
    BY <1>3, <1>4, <2>1
  <2>2. CASE d # c
    <3>1. opener[d] \in Operations /\ <<d, incarnation[d]>> \in guards[opener[d]]
      BY <1>3, <2>2 DEF IInv, OpenersHoldGuards
    <3>2. opener[d] # o
      BY <1>0, <3>1
    <3> QED BY <1>3, <1>4, <2>2, <3>1, <3>2
  <2> QED BY <2>1, <2>2
<1>11. TrackedAreOpen'
  BY <1>1, <1>3 DEF IInv, TrackedAreOpen
<1>12. AgesAreUnused'
  <2> SUFFICES ASSUME NEW d \in Connections, tracked'[d], Clock(d)'.operations = 0
               PROVE  Clock(d)'.age <= unused'[d]
    BY DEF AgesAreUnused
  <2>1. d # c
    BY <1>2, <1>3, <1>5 DEF Clock
  <2>2. Clock(d)' = Clock(d) /\ tracked[d] /\ unused'[d] = unused[d]
    BY <1>3, <2>1 DEF Clock
  <2> QED BY <2>2 DEF IInv, AgesAreUnused
<1> QED BY <1>6, <1>8, <1>9, <1>10, <1>11, <1>12 DEF IInv

\* A connection opens, closes, is lost, or is blocked.
LEMMA ConnectionStepKeeps ==
    ASSUME IInv, NEW c \in Connections,
           Opened(c) \/ Disconnect(c) \/ Closed(c) \/ Lost(c) \/ Block(c)
    PROVE  IInv'
<1>0. Typed /\ TrackedAreOpen
  BY DEF IInv
<1>1. CASE Disconnect(c)
  <2>1. GiveUp(c, "caller") /\ clock' = clock /\ UNCHANGED <<policyVars, useVars, unused>>
    BY <1>1 DEF Disconnect
  <2> QED BY <2>1, GiveUpKeeps
<1>2. CASE Opened(c) \/ Closed(c) \/ Lost(c) \/ Block(c)
  <2>1. UNCHANGED <<default, override, incarnation, opener, guards, clock, unused>>
    BY <1>2 DEF Opened, Closed, Lost, Block, policyVars, useVars
  <2>2. /\ status' \in [Connections -> {"disconnected", "connecting", "connected",
                                        "disconnecting"}]
        /\ tracked' \in [Connections -> BOOLEAN]
        /\ closer' \in [Connections -> {"none", "caller", "supervisor"}]
    BY <1>0, <1>2 DEF Opened, Closed, Lost, Block, Typed
  <2>3. Typed'
    BY <1>0, <2>1, <2>2 DEF Typed
  <2>4. \A d \in Connections :
          /\ tracked'[d] => tracked[d] /\ status'[d] \in {"connecting", "connected"}
          /\ status'[d] = "connecting" => status[d] = "connecting"
    <3>1. CASE Opened(c)
      BY <1>0, <3>1 DEF Opened, Typed, TrackedAreOpen
    <3>2. CASE Closed(c)
      BY <1>0, <3>2 DEF Closed, Typed, TrackedAreOpen
    <3>3. CASE Lost(c)
      BY <1>0, <3>3 DEF Lost, Typed, TrackedAreOpen
    <3>4. CASE Block(c)
      BY <1>0, <3>4 DEF Block, TrackedAreOpen
    <3> QED BY <1>2, <3>1, <3>2, <3>3, <3>4
  <2> QED BY <2>1, <2>3, <2>4, StatusKeeps
<1> QED BY <1>1, <1>2

\* Timeouts and the relay change.
LEMMA SettingsKeep == ASSUME IInv, SetPolicy \/ Relay PROVE IInv'
<1>0. Typed /\ TrackedAreOpen
  BY DEF IInv
<1>1. UNCHANGED <<status, incarnation, opener, guards, tracked, clock, unused, closer>>
  BY DEF SetPolicy, Relay, useVars
<1>2. default' \in Timeouts /\ override' \in [Connections -> Timeouts \cup {Inherit}]
  BY <1>0 DEF SetPolicy, Relay, policyVars, Typed
<1>3. Typed'
  BY <1>0, <1>1, <1>2 DEF Typed
<1>4. \A c \in Connections :
        /\ tracked'[c] => tracked[c] /\ status'[c] \in {"connecting", "connected"}
        /\ status'[c] = "connecting" => status[c] = "connecting"
  BY <1>0, <1>1 DEF TrackedAreOpen
<1> QED BY <1>1, <1>3, <1>4, StatusKeeps

-----------------------------------------------------------------------------
\* IInv is inductive.
LEMMA NextKeeps == IInv /\ [Next]_vars => IInv'
<1> SUFFICES ASSUME IInv, [Next]_vars PROVE IInv'
  OBVIOUS
<1>1. ASSUME NEW o \in Operations, NEW c \in Connections, Begin(o, {c}) \/ Connect(o, c)
      PROVE  IInv'
  BY <1>1, BeginKeeps, ConnectKeeps
<1>2. ASSUME NEW o \in Operations, Begin(o, Connections) \/ End(o) PROVE IInv'
  BY <1>2, BeginKeeps, EndKeeps
<1>3. ASSUME NEW c \in Connections,
             Opened(c) \/ Disconnect(c) \/ Closed(c) \/ Lost(c) \/ Block(c)
      PROVE  IInv'
  BY <1>3, ConnectionStepKeeps
<1>4. ASSUME NEW c \in Connections, DisconnectExpired(c) PROVE IInv'
  BY <1>4, DisconnectExpiredKeeps
<1>5. CASE SetPolicy \/ Relay
  BY <1>5, SettingsKeep
<1>6. CASE Tick
  BY <1>6, TickKeeps
<1>7. CASE Pass
  BY <1>7, PassKeeps
<1>8. CASE UNCHANGED vars
  <2>1. /\ UNCHANGED <<incarnation, opener, guards, clock, unused>>
        /\ UNCHANGED <<status, default, override, tracked, closer>>
    BY <1>8 DEF vars
  <2>2. Typed' /\ TrackedAreOpen
    BY <2>1 DEF IInv, Typed
  <2>3. \A c \in Connections :
          /\ tracked'[c] => tracked[c] /\ status'[c] \in {"connecting", "connected"}
          /\ status'[c] = "connecting" => status[c] = "connecting"
    BY <2>1, <2>2 DEF TrackedAreOpen
  <2> QED BY <2>1, <2>2, <2>3, StatusKeeps
<1> QED BY <1>1, <1>2, <1>3, <1>4, <1>5, <1>6, <1>7, <1>8 DEF Next

\* Clocks count their guards and do not run ahead of the time without use.
THEOREM Invariance == Spec => []IInv
<1>1. IInv /\ [Next]_vars => IInv'
  BY NextKeeps
<1> QED BY <1>1, InitIsInvariant, PTL DEF Spec

\* What the supervisor disconnects was neither used nor found blocked for its
\* timeout, which is finite, is not blocked and is used by no operation.
THEOREM WhatEndsIsIdle == Spec => IdleDisconnectIsDue
<1>1. ASSUME IInv, [Next]_vars, NEW c \in Connections,
             closer[c] = "none", closer'[c] = "supervisor"
      PROVE  /\ unused[c] >= Timeout(c)
             /\ Timeout(c) # Infinite
             /\ ~Blocked(c)
             /\ \A o \in Operations : <<c, incarnation[c]>> \notin guards[o]
  <2>1. Expired(c)
    <3>0. Typed
      BY <1>1 DEF IInv
    <3>1. closer' # closer
      BY <1>1
    <3>2. \E d \in Connections : Disconnect(d) \/ Closed(d) \/ DisconnectExpired(d) \/ Lost(d)
      BY <1>1, <3>1
      DEF Next, Begin, End, Connect, Opened, Block, SetPolicy, Relay, Tick, Pass, vars
    <3>3. PICK d \in Connections : Disconnect(d) \/ Closed(d) \/ DisconnectExpired(d) \/ Lost(d)
      BY <3>2
    <3>4. DisconnectExpired(d) /\ Expired(d) /\ closer' = [closer EXCEPT ![d] = "supervisor"]
      BY <1>1, <3>0, <3>1, <3>3 DEF Disconnect, Closed, Lost, DisconnectExpired, GiveUp, Typed
    <3>5. d = c
      BY <1>1, <3>0, <3>4 DEF Typed
    <3> QED BY <3>4, <3>5
  <2>2. tracked[c] /\ Clock(c).operations = 0 /\ Clock(c).age >= Timeout(c)
    BY <2>1 DEF Expired, Examined
  <2>3. incarnation[c] \in Incarnations
    BY <1>1, <2>2 DEF IInv, TrackedAreOpen
  <2>4. unused[c] >= Timeout(c)
    <3>0. Typed
      BY <1>1 DEF IInv
    <3>1. Clock(c).age \in Nat /\ unused[c] \in Nat
      BY <2>3, <3>0 DEF Typed, Clock, ClockState
    <3>2. Clock(c).age <= unused[c]
      BY <1>1, <2>2 DEF IInv, AgesAreUnused
    <3>3. Timeout(c) \in Int
      <4>1. default \in Timeouts /\ override[c] \in Timeouts \cup {Inherit}
        BY <3>0 DEF Typed
      <4>2. Timeouts \subseteq Nat
        BY IdleAssumption
      <4>3. CASE override[c] = Inherit
        BY <4>1, <4>2, <4>3 DEF Timeout
      <4>4. CASE override[c] # Inherit
        <5>1. override[c] \in Timeouts
          BY <4>1, <4>4
        <5>2. override[c] \in Nat
          BY <5>1, <4>2
        <5>3. Timeout(c) = override[c]
          BY <4>4 DEF Timeout
        <5> QED BY <5>2, <5>3
      <4> QED BY <4>3, <4>4
    <3> QED BY <2>2, <3>1, <3>2, <3>3
  <2>5. \A o \in Operations : <<c, incarnation[c]>> \notin guards[o]
    <3>1. Cardinality(Users(c, incarnation[c])) = 0
      BY <1>1, <2>2, <2>3 DEF IInv, GuardsAreCounted, Clock
    <3> QED BY <2>3, <3>1, NobodyUses
  <2> QED BY <2>1, <2>4, <2>5 DEF Expired, Examined
<1>2. IInv /\ [Next]_vars =>
        [\A c \in Connections :
            closer[c] = "none" /\ closer'[c] = "supervisor" =>
               /\ unused[c] >= Timeout(c)
               /\ Timeout(c) # Infinite
               /\ ~Blocked(c)
               /\ \A o \in Operations : <<c, incarnation[c]>> \notin guards[o]]_vars
  BY <1>1
<1>3. Spec => []IInv
  BY Invariance
<1> QED BY <1>2, <1>3, PTL DEF Spec, IdleDisconnectIsDue

-----------------------------------------------------------------------------
(***************************************************************************)
(* Pause leases.                                                           *)
(***************************************************************************)
Holders == {p \in Calls : HoldsLease(p)}
InSlot == IF slot THEN 1 ELSE 0

\* A frame that somebody waits for has a handler that awaits its ack, and each
\* handler waits for one frame: no other frame moves a handler.
SendersAwait ==
    /\ \A i \in 1..Len(wire) : wire[i].from # NoCall => call[wire[i].from] = "sent"
    /\ \A i, j \in 1..Len(wire) :
          wire[i].from # NoCall /\ wire[i].from = wire[j].from => i = j

\* What the bridge comes to when it has applied all frames.
Ending == IF wire = <<>> THEN armed ELSE wire[Len(wire)].enabled

\* If pausing ends up turned on and no client has asked for it, a lease is alive
\* or a task is on its way that turns pausing off.
OffIsComing ==
    bridge = "open" /\ Ending /\ ~wanted => demand # 0 \/ disarming # 0

LeaseIInv == TypeOK /\ DemandCountsLeases /\ SendersAwait /\ OffIsComing

-----------------------------------------------------------------------------
(***************************************************************************)
(* Counting                                                                *)
(***************************************************************************)
\* Only the handlers that exist can hold leases, so their number is a number.
LEMMA HoldersAreFinite == IsFiniteSet(Holders) /\ Cardinality(Holders) \in Nat
<1>1. Holders \in SUBSET Calls
  BY DEF Holders
<1>2. IsFiniteSet(Holders)
  BY <1>1, CallsAssumption, FS_Subset
<1> QED BY <1>2, FS_CardinalityType

\* A handler that acquires a lease is one holder more.
LEMMA OneMoreHolder ==
    ASSUME NEW p \in Calls, ~HoldsLease(p), HoldsLease(p)',
           \A q \in Calls \ {p} : call'[q] = call[q]
    PROVE  Cardinality(Holders') = Cardinality(Holders) + 1
<1>1. Holders' = Holders \cup {p} /\ p \notin Holders
  BY DEF Holders, HoldsLease
<1> QED BY <1>1, HoldersAreFinite, FS_AddElement

\* A handler that gives its lease away is one holder less.
LEMMA OneHolderLess ==
    ASSUME NEW p \in Calls, HoldsLease(p), ~HoldsLease(p)',
           \A q \in Calls \ {p} : call'[q] = call[q]
    PROVE  /\ Cardinality(Holders') = Cardinality(Holders) - 1
           /\ Cardinality(Holders) # 0
<1>1. Holders' = Holders \ {p} /\ p \in Holders
  BY DEF Holders, HoldsLease
<1>2. Cardinality(Holders') = Cardinality(Holders) - 1
  BY <1>1, HoldersAreFinite, FS_RemoveElement
<1>3. Cardinality(Holders) # 0
  BY <1>1, HoldersAreFinite, FS_EmptySet
<1> QED BY <1>2, <1>3

\* Steps that no lease changes hands in keep the number of holders.
LEMMA SameHolders ==
    ASSUME \A q \in Calls : HoldsLease(q)' <=> HoldsLease(q)
    PROVE  Cardinality(Holders') = Cardinality(Holders)
<1>1. Holders' = Holders
  BY DEF Holders
<1> QED BY <1>1

\* A lease that is held, in a handler or in the slot, is counted.
LEMMA LeasesAreCounted ==
    ASSUME LeaseIInv
    PROVE  /\ demand = Cardinality(Holders) + InSlot
           /\ demand \in Nat
           /\ slot => demand # 0
           /\ \A p \in Calls : HoldsLease(p) => demand # 0
<1>1. demand = Cardinality(Holders) + InSlot
  BY DEF LeaseIInv, DemandCountsLeases, Holders, InSlot
<1>2. ASSUME NEW p \in Calls, HoldsLease(p) PROVE Cardinality(Holders) # 0
  <2>1. p \in Holders
    BY <1>2 DEF Holders
  <2> QED BY <2>1, HoldersAreFinite, FS_EmptySet
<1> QED BY <1>1, <1>2, HoldersAreFinite DEF InSlot, LeaseIInv, TypeOK

-----------------------------------------------------------------------------
(***************************************************************************)
(* Frames                                                                  *)
(***************************************************************************)
LEMMA FramesAreTyped ==
    ASSUME TypeOK
    PROVE  \A i \in 1..Len(wire) :
              /\ wire[i] \in Frame
              /\ wire[i].enabled \in BOOLEAN
              /\ wire[i].from \in Calls \cup {NoCall}
<1>1. wire \in Seq(Frame)
  BY DEF TypeOK
<1>2. \A i \in 1..Len(wire) : wire[i] \in Frame
  BY <1>1
<1> QED BY <1>2 DEF Frame

\* Handlers that await an answer keep their frame when the socket is left alone.
LEMMA SendersFrame ==
    ASSUME SendersAwait, UNCHANGED wire, TypeOK,
           \A q \in Calls : call[q] = "sent" => call'[q] = "sent"
    PROVE  SendersAwait'
<1>1. \A i \in 1..Len(wire) : wire[i].from \in Calls \cup {NoCall}
  BY FramesAreTyped
<1> QED BY <1>1 DEF SendersAwait

\* What turns pausing off stays on its way.
LEMMA OffFrame ==
    ASSUME OffIsComing, UNCHANGED <<wire, bridge, armed, wanted>>,
           demand # 0 \/ disarming # 0 => demand' # 0 \/ disarming' # 0
    PROVE  OffIsComing'
  BY DEF OffIsComing, Ending

\* Releasing the last lease spawns a disarm.
LEMMA ReleaseEffect ==
    ASSUME TypeOK, Release, demand # 0
    PROVE  /\ demand' \in Nat /\ demand' = demand - 1
           /\ disarming' \in Nat
           /\ demand' # 0 \/ disarming' # 0
  BY DEF TypeOK, Release

-----------------------------------------------------------------------------
(***************************************************************************)
(* The invariant is inductive                                              *)
(***************************************************************************)
LEMMA Initially == LeaseInit => LeaseIInv
<1> SUFFICES ASSUME LeaseInit PROVE LeaseIInv
  OBVIOUS
<1>1. TypeOK
  <2>1. <<>> \in Seq(Frame)
    OBVIOUS
  <2>2. [p \in Calls |-> "idle"] \in [Calls -> CallPcs]
    BY DEF CallPcs
  <2>3. 0 \in Nat /\ 0 \in 0 .. MaxClientRequests
    BY FrameBoundAssumption
  <2> QED BY <2>1, <2>2, <2>3 DEF LeaseInit, TypeOK
<1>2. DemandCountsLeases
  <2>1. {p \in Calls : HoldsLease(p)} = {}
    BY DEF LeaseInit, HoldsLease
  <2> QED BY <2>1, FS_EmptySet DEF LeaseInit, DemandCountsLeases
<1>3. SendersAwait /\ OffIsComing
  BY DEF LeaseInit, SendersAwait, OffIsComing, Ending
<1> QED BY <1>1, <1>2, <1>3 DEF LeaseIInv

\* arm() begins, or finds no bridge.
LEMMA ArmBeginsKeeps ==
    ASSUME LeaseIInv, NEW p \in Calls, ArmBegins(p) \/ ArmIsUnavailable(p)
    PROVE  LeaseIInv'
<1>1. TypeOK'
  BY DEF ArmBegins, ArmIsUnavailable, LeaseIInv, TypeOK, Goto, CallPcs
<1>2. DemandCountsLeases'
  <2>1. \A q \in Calls : HoldsLease(q)' <=> HoldsLease(q)
    BY DEF ArmBegins, ArmIsUnavailable, LeaseIInv, TypeOK, Goto, At, HoldsLease
  <2>2. {q \in Calls : HoldsLease(q)}' = {q \in Calls : HoldsLease(q)}
    BY <2>1
  <2> QED BY <2>2 DEF ArmBegins, ArmIsUnavailable, LeaseIInv, DemandCountsLeases
<1>3. SendersAwait'
  <2>1. \A q \in Calls : call[q] = "sent" => call'[q] = "sent"
    BY DEF ArmBegins, ArmIsUnavailable, LeaseIInv, TypeOK, Goto, At
  <2> QED BY <2>1, SendersFrame DEF ArmBegins, ArmIsUnavailable, LeaseIInv
<1>4. OffIsComing'
  BY OffFrame DEF ArmBegins, ArmIsUnavailable, LeaseIInv
<1> QED BY <1>1, <1>2, <1>3, <1>4 DEF LeaseIInv

\* arm() takes a lease from the registry.
LEMMA ArmAcquiresKeeps ==
    ASSUME LeaseIInv, NEW p \in Calls, ArmAcquires(p)
    PROVE  LeaseIInv'
<1>1. TypeOK'
  BY DEF ArmAcquires, LeaseIInv, TypeOK, Goto, CallPcs
<1>2. DemandCountsLeases'
  <2>1. Cardinality(Holders') = Cardinality(Holders) + 1
    <3>1. ~HoldsLease(p) /\ HoldsLease(p)' /\ \A q \in Calls \ {p} : call'[q] = call[q]
      BY DEF ArmAcquires, LeaseIInv, TypeOK, Goto, At, HoldsLease
    <3> QED BY <3>1, OneMoreHolder
  <2>2. demand' = Cardinality(Holders') + InSlot'
    BY <2>1, LeasesAreCounted, HoldersAreFinite DEF ArmAcquires, InSlot
  <2> QED BY <2>2 DEF DemandCountsLeases, Holders, InSlot
<1>3. SendersAwait'
  <2>1. \A q \in Calls : call[q] = "sent" => call'[q] = "sent"
    BY DEF ArmAcquires, LeaseIInv, TypeOK, Goto, At
  <2> QED BY <2>1, SendersFrame DEF ArmAcquires, LeaseIInv
<1>4. OffIsComing'
  <2>1. demand' # 0
    BY DEF ArmAcquires, LeaseIInv, TypeOK
  <2> QED BY <2>1, OffFrame DEF ArmAcquires, LeaseIInv
<1> QED BY <1>1, <1>2, <1>3, <1>4 DEF LeaseIInv

\* arm() reads the demand; it will write a frame if its lease is the only one.
LEMMA ArmReadsDemandKeeps ==
    ASSUME LeaseIInv, NEW p \in Calls, ArmReadsDemand(p)
    PROVE  LeaseIInv'
<1>1. TypeOK'
  BY DEF ArmReadsDemand, LeaseIInv, TypeOK, Goto, CallPcs
<1>2. DemandCountsLeases'
  <2>1. \A q \in Calls : HoldsLease(q)' <=> HoldsLease(q)
    BY DEF ArmReadsDemand, LeaseIInv, TypeOK, Goto, At, HoldsLease
  <2>2. {q \in Calls : HoldsLease(q)}' = {q \in Calls : HoldsLease(q)}
    BY <2>1
  <2> QED BY <2>2 DEF ArmReadsDemand, LeaseIInv, DemandCountsLeases
<1>3. SendersAwait'
  <2>1. \A q \in Calls : call[q] = "sent" => call'[q] = "sent"
    BY DEF ArmReadsDemand, LeaseIInv, TypeOK, Goto, At
  <2> QED BY <2>1, SendersFrame DEF ArmReadsDemand, LeaseIInv
<1>4. OffIsComing'
  BY OffFrame DEF ArmReadsDemand, LeaseIInv
<1> QED BY <1>1, <1>2, <1>3, <1>4 DEF LeaseIInv

\* The only frame of a handler is the one it writes now.
LEMMA ArmSendsKeeps ==
    ASSUME LeaseIInv, NEW p \in Calls, ArmSends(p)
    PROVE  LeaseIInv'
<1> DEFINE frame == [enabled |-> TRUE, from |-> p]
<1>1. TypeOK'
  <2>1. frame \in Frame
    BY DEF Frame
  <2>2. Append(wire, frame) \in Seq(Frame)
    BY <2>1 DEF LeaseIInv, TypeOK
  <2>3. call' \in [Calls -> CallPcs]
    BY DEF ArmSends, LeaseIInv, TypeOK, Goto, CallPcs
  <2> QED BY <2>2, <2>3 DEF ArmSends, LeaseIInv, TypeOK, Written
<1>2. DemandCountsLeases'
  <2>1. \A q \in Calls : HoldsLease(q)' <=> HoldsLease(q)
    BY DEF ArmSends, LeaseIInv, TypeOK, Goto, At, HoldsLease
  <2>2. {q \in Calls : HoldsLease(q)}' = {q \in Calls : HoldsLease(q)}
    BY <2>1
  <2> QED BY <2>2 DEF ArmSends, LeaseIInv, DemandCountsLeases
<1>3. \A q \in Calls : call[q] = "sent" => call'[q] = "sent"
  BY DEF ArmSends, LeaseIInv, TypeOK, Goto, At
<1>4. CASE bridge # "open"
  <2>1. SendersAwait'
    BY <1>3, <1>4, SendersFrame DEF ArmSends, LeaseIInv
  <2>2. OffIsComing'
    BY <1>4, OffFrame DEF ArmSends, LeaseIInv
  <2> QED BY <1>1, <1>2, <2>1, <2>2 DEF LeaseIInv
<1>5. CASE bridge = "open"
  <2>1. /\ Len(wire') = Len(wire) + 1 /\ wire'[Len(wire')] = frame /\ wire' # <<>>
        /\ Len(wire) \in Nat
        /\ \A i \in 1..Len(wire) : wire'[i] = wire[i]
    BY <1>5 DEF ArmSends, Written, LeaseIInv, TypeOK
  <2>2. call[p] = "sending" /\ call'[p] = "sent"
    BY <1>5 DEF ArmSends, Goto, At, LeaseIInv, TypeOK
  <2>3. SendersAwait'
    <3>1. \A i \in 1..Len(wire) :
             wire[i].from # NoCall => call'[wire[i].from] = "sent" /\ wire[i].from # p
      BY <1>3, <2>2, FramesAreTyped DEF LeaseIInv, SendersAwait, At
    <3>2. \A i \in 1..Len(wire') : i \in 1..Len(wire) \/ i = Len(wire')
      BY <2>1
    <3>3. frame.from = p
      OBVIOUS
    <3>4. \A i \in 1..Len(wire') : wire'[i].from # NoCall => call'[wire'[i].from] = "sent"
      BY <2>1, <2>2, <3>1, <3>2, <3>3
    <3>5. \A i, j \in 1..Len(wire') :
             wire'[i].from # NoCall /\ wire'[i].from = wire'[j].from => i = j
      BY <2>1, <3>1, <3>2, <3>3 DEF LeaseIInv, SendersAwait
    <3> QED BY <3>4, <3>5 DEF SendersAwait
  <2>4. OffIsComing'
    <3>1. demand # 0
      BY <2>2, LeasesAreCounted DEF HoldsLease, At
    <3> QED BY <3>1 DEF OffIsComing, ArmSends
  <2> QED BY <1>1, <1>2, <2>3, <2>4 DEF LeaseIInv
<1> QED BY <1>4, <1>5

\* The answer to the frame does not come in time.
LEMMA ArmTimesOutKeeps ==
    ASSUME LeaseIInv, NEW p \in Calls, ArmTimesOut(p)
    PROVE  LeaseIInv'
<1>1. /\ Len(wire') = Len(wire) /\ wire' \in Seq(Frame) /\ Len(wire) \in Nat
      /\ \A i \in 1..Len(wire) :
            /\ wire'[i].enabled = wire[i].enabled
            /\ wire'[i].from = IF wire[i].from = p THEN NoCall ELSE wire[i].from
  <2>1. wire \in Seq(Frame) /\ DOMAIN wire = 1..Len(wire) /\ Len(wire) \in Nat
    BY DEF LeaseIInv, TypeOK
  <2>2. \A i \in 1..Len(wire) :
          /\ wire'[i] = IF wire[i].from = p THEN [wire[i] EXCEPT !.from = NoCall] ELSE wire[i]
          /\ wire'[i] \in Frame
          /\ wire'[i].enabled = wire[i].enabled
          /\ wire'[i].from = IF wire[i].from = p THEN NoCall ELSE wire[i].from
    <3> SUFFICES ASSUME NEW i \in 1..Len(wire)
                 PROVE  /\ wire'[i] = IF wire[i].from = p THEN [wire[i] EXCEPT !.from = NoCall]
                                                          ELSE wire[i]
                        /\ wire'[i] \in Frame
                        /\ wire'[i].enabled = wire[i].enabled
                        /\ wire'[i].from = IF wire[i].from = p THEN NoCall ELSE wire[i].from
      OBVIOUS
    <3>1. wire[i] \in Frame
      BY FramesAreTyped DEF LeaseIInv
    <3>2. wire'[i] = IF wire[i].from = p THEN [wire[i] EXCEPT !.from = NoCall] ELSE wire[i]
      BY <2>1 DEF ArmTimesOut
    <3> QED BY <3>1, <3>2 DEF Frame
  <2>3. wire' \in [1..Len(wire) -> Frame]
    BY <2>1, <2>2 DEF ArmTimesOut
  <2>4. wire' \in Seq(Frame) /\ Len(wire') = Len(wire)
    BY <2>1, <2>3
  <2> QED BY <2>1, <2>2, <2>4
<1>2. TypeOK'
  <2>1. call' \in [Calls -> CallPcs]
    BY DEF ArmTimesOut, LeaseIInv, TypeOK, Goto, CallPcs
  <2> QED BY <1>1, <2>1 DEF ArmTimesOut, LeaseIInv, TypeOK
<1>3. DemandCountsLeases'
  <2>1. \A q \in Calls : HoldsLease(q)' <=> HoldsLease(q)
    BY DEF ArmTimesOut, LeaseIInv, TypeOK, Goto, At, HoldsLease
  <2>2. {q \in Calls : HoldsLease(q)}' = {q \in Calls : HoldsLease(q)}
    BY <2>1
  <2> QED BY <2>2 DEF ArmTimesOut, LeaseIInv, DemandCountsLeases
<1>4. SendersAwait'
  <2>1. \A q \in Calls \ {p} : call[q] = "sent" => call'[q] = "sent"
    BY DEF ArmTimesOut, LeaseIInv, TypeOK, Goto, At
  <2>2. \A i \in 1..Len(wire) :
           wire'[i].from # NoCall => wire'[i].from = wire[i].from /\ wire[i].from \in Calls \ {p}
    BY <1>1, FramesAreTyped DEF LeaseIInv
  <2>3. \A i \in 1..Len(wire') : wire'[i].from # NoCall => call'[wire'[i].from] = "sent"
    BY <1>1, <2>1, <2>2 DEF LeaseIInv, SendersAwait
  <2>4. \A i, j \in 1..Len(wire') :
           wire'[i].from # NoCall /\ wire'[i].from = wire'[j].from => i = j
    BY <1>1, <2>2 DEF LeaseIInv, SendersAwait
  <2> QED BY <2>3, <2>4 DEF SendersAwait
<1>5. OffIsComing'
  <2>1. /\ wire = <<>> <=> Len(wire) = 0
        /\ wire' = <<>> <=> Len(wire') = 0
    BY <1>1 DEF LeaseIInv, TypeOK
  <2>2. Ending' = Ending
    BY <1>1, <2>1 DEF Ending, ArmTimesOut
  <2> QED BY <2>2 DEF OffIsComing, ArmTimesOut, LeaseIInv
<1> QED BY <1>2, <1>3, <1>4, <1>5 DEF LeaseIInv

\* arm() returns: its lease is stored, replaces another, or is dropped.
LEMMA ArmReturnsKeeps ==
    ASSUME LeaseIInv, NEW p \in Calls, ArmReturns(p)
    PROVE  LeaseIInv'
<1>1. /\ HoldsLease(p) /\ ~HoldsLease(p)'
      /\ \A q \in Calls \ {p} : call'[q] = call[q]
      /\ call' \in [Calls -> CallPcs]
  BY DEF ArmReturns, LeaseIInv, TypeOK, Goto, At, HoldsLease, CallPcs
<1>2. /\ Cardinality(Holders') = Cardinality(Holders) - 1
      /\ Cardinality(Holders) # 0
  BY <1>1, OneHolderLess
<1>3. demand = Cardinality(Holders) + InSlot /\ demand # 0
  BY <1>1, LeasesAreCounted
<1>4. /\ demand' = Cardinality(Holders') + InSlot'
      /\ demand' \in Nat /\ disarming' \in Nat /\ slot' \in BOOLEAN
      /\ demand # 0 \/ disarming # 0 => demand' # 0 \/ disarming' # 0
  <2>1. CASE ~current
    <3>1. Release /\ UNCHANGED slot
      BY <2>1 DEF ArmReturns
    <3> QED BY <3>1, <1>2, <1>3, ReleaseEffect, HoldersAreFinite DEF InSlot, LeaseIInv, TypeOK
  <2>2. CASE current /\ slot
    <3>1. Release /\ slot' = TRUE
      BY <2>2 DEF ArmReturns
    <3> QED BY <3>1, <2>2, <1>2, <1>3, ReleaseEffect, HoldersAreFinite DEF InSlot, LeaseIInv
  <2>3. CASE current /\ ~slot
    <3>1. UNCHANGED <<demand, disarming>> /\ slot' = TRUE
      BY <2>3 DEF ArmReturns
    <3> QED BY <3>1, <2>3, <1>2, <1>3, HoldersAreFinite DEF InSlot, LeaseIInv, TypeOK
  <2> QED BY <2>1, <2>2, <2>3 DEF LeaseIInv, TypeOK
<1>5. TypeOK'
  BY <1>1, <1>4 DEF ArmReturns, LeaseIInv, TypeOK
<1>6. DemandCountsLeases'
  BY <1>4 DEF DemandCountsLeases, Holders, InSlot
<1>7. SendersAwait'
  <2>1. \A q \in Calls : call[q] = "sent" => call'[q] = "sent"
    BY DEF ArmReturns, LeaseIInv, TypeOK, Goto, At
  <2> QED BY <2>1, SendersFrame DEF ArmReturns, LeaseIInv
<1>8. OffIsComing'
  BY <1>4, OffFrame DEF ArmReturns, LeaseIInv
<1> QED BY <1>5, <1>6, <1>7, <1>8 DEF LeaseIInv

\* The lease in the slot is released by a request or with the connection.
LEMMA SlotReleased ==
    ASSUME LeaseIInv, PauseOff \/ ConnectionEnds
    PROVE  LeaseIInv'
<1>1. /\ slot' = FALSE /\ UNCHANGED <<call, wire, bridge, armed, wanted, requests>>
      /\ current' \in BOOLEAN
      /\ IF slot THEN Release ELSE UNCHANGED <<demand, disarming>>
  BY DEF PauseOff, ConnectionEnds, LeaseIInv, TypeOK
<1>2. Cardinality(Holders') = Cardinality(Holders)
  BY <1>1, SameHolders DEF HoldsLease
<1>3. demand = Cardinality(Holders) + InSlot /\ (slot => demand # 0)
  BY LeasesAreCounted
<1>4. /\ demand' = Cardinality(Holders') + InSlot'
      /\ demand' \in Nat /\ disarming' \in Nat
      /\ demand # 0 \/ disarming # 0 => demand' # 0 \/ disarming' # 0
  <2>1. CASE slot
    BY <2>1, <1>1, <1>2, <1>3, ReleaseEffect, HoldersAreFinite DEF InSlot, LeaseIInv
  <2>2. CASE ~slot
    BY <2>2, <1>1, <1>2, <1>3 DEF InSlot, LeaseIInv, TypeOK
  <2> QED BY <2>1, <2>2
<1>5. TypeOK'
  BY <1>1, <1>4 DEF LeaseIInv, TypeOK
<1>6. DemandCountsLeases'
  BY <1>4 DEF DemandCountsLeases, Holders, InSlot
<1>7. SendersAwait'
  BY <1>1, SendersFrame DEF LeaseIInv
<1>8. OffIsComing'
  BY <1>1, <1>4, OffFrame DEF LeaseIInv
<1> QED BY <1>5, <1>6, <1>7, <1>8 DEF LeaseIInv

\* A frame that nobody waits for is appended to what is on its way.
LEMMA FrameAppended ==
    ASSUME TypeOK, SendersAwait, UNCHANGED call, NEW flag \in BOOLEAN,
           wire' = Written(flag, NoCall)
    PROVE  /\ wire' \in Seq(Frame)
           /\ SendersAwait'
           /\ Ending' = flag
<1> DEFINE frame == [enabled |-> flag, from |-> NoCall]
<1>1. wire' = Append(wire, frame) /\ frame \in Frame /\ wire \in Seq(Frame)
  BY DEF Written, Frame, TypeOK
<1>2. /\ Len(wire') = Len(wire) + 1 /\ wire'[Len(wire')] = frame /\ wire' # <<>>
      /\ Len(wire) \in Nat
      /\ \A i \in 1..Len(wire) : wire'[i] = wire[i]
      /\ wire' \in Seq(Frame)
  BY <1>1
<1>3. \A i \in 1..Len(wire') : i \in 1..Len(wire) \/ wire'[i].from = NoCall
  BY <1>2
<1>4. SendersAwait'
  BY <1>2, <1>3 DEF SendersAwait
<1> QED BY <1>2, <1>4 DEF Ending

\* A task spawned by the last drop writes its frame.
LEMMA DisarmKeeps == ASSUME LeaseIInv, Disarm PROVE LeaseIInv'
<1>1. \A q \in Calls : HoldsLease(q)' <=> HoldsLease(q)
  BY DEF Disarm, HoldsLease
<1>2. DemandCountsLeases'
  <2>1. {q \in Calls : HoldsLease(q)}' = {q \in Calls : HoldsLease(q)}
    BY <1>1
  <2> QED BY <2>1 DEF Disarm, LeaseIInv, DemandCountsLeases
<1>3. CASE bridge = "open"
  <2>1. wire' \in Seq(Frame) /\ SendersAwait' /\ Ending' = FALSE
    BY <1>3, FrameAppended DEF Disarm, LeaseIInv
  <2>2. disarming' \in Nat
    BY DEF Disarm, LeaseIInv, TypeOK
  <2>3. /\ UNCHANGED <<current, slot, demand, call, bridge, armed, wanted, requests>>
        /\ TypeOK
    BY DEF Disarm, LeaseIInv
  <2>4. wire' \in Seq(Frame)
    BY <2>1
  <2>5. TypeOK'
    BY <2>2, <2>3, <2>4 DEF TypeOK
  <2> QED BY <1>2, <2>1, <2>5 DEF LeaseIInv, OffIsComing
<1>4. CASE bridge # "open"
  <2>1. TypeOK'
    BY <1>4 DEF Disarm, LeaseIInv, TypeOK
  <2>2. SendersAwait'
    BY <1>4, SendersFrame DEF Disarm, LeaseIInv
  <2>3. OffIsComing'
    BY <1>4 DEF Disarm, OffIsComing
  <2> QED BY <1>2, <2>1, <2>2, <2>3 DEF LeaseIInv
<1> QED BY <1>3, <1>4

\* A client sets auto attach itself.
LEMMA ClientSetsKeeps ==
    ASSUME LeaseIInv, NEW wait \in BOOLEAN, ClientSetsAutoAttach(wait)
    PROVE  LeaseIInv'
<1>1. wire' \in Seq(Frame) /\ SendersAwait' /\ Ending' = wait
  BY FrameAppended DEF ClientSetsAutoAttach, LeaseIInv
<1>2. TypeOK'
  BY <1>1, FrameBoundAssumption DEF ClientSetsAutoAttach, LeaseIInv, TypeOK
<1>3. DemandCountsLeases'
  BY DEF ClientSetsAutoAttach, LeaseIInv, DemandCountsLeases, HoldsLease
<1>4. OffIsComing'
  BY <1>1 DEF ClientSetsAutoAttach, OffIsComing
<1> QED BY <1>1, <1>2, <1>3, <1>4 DEF LeaseIInv

\* Whoever waits for the frame at the head is the only one that moves, and
\* waits for no other.
LEMMA BridgeAppliesKeeps == ASSUME LeaseIInv, BridgeApplies PROVE LeaseIInv'
<1>1. /\ wire \in Seq(Frame) /\ wire # <<>> /\ Len(wire) \in Nat /\ Len(wire) # 0
      /\ Head(wire) = wire[1] /\ wire' = Tail(wire)
      /\ wire' \in Seq(Frame) /\ Len(wire') = Len(wire) - 1
      /\ \A i \in 1..Len(wire') : wire'[i] = wire[i + 1]
  BY DEF BridgeApplies, LeaseIInv, TypeOK
<1>2. wire[1].enabled \in BOOLEAN /\ wire[1].from \in Calls \cup {NoCall}
  BY <1>1, FramesAreTyped DEF LeaseIInv
<1>3. \A q \in Calls : call'[q] = IF wire[1].from = q THEN "armed" ELSE call[q]
  BY <1>1 DEF BridgeApplies
<1>4. TypeOK'
  <2>1. call' \in [Calls -> CallPcs]
    BY DEF BridgeApplies, LeaseIInv, TypeOK, CallPcs
  <2> QED BY <1>1, <1>2, <2>1 DEF BridgeApplies, LeaseIInv, TypeOK
<1>5. DemandCountsLeases'
  <2>1. \A q \in Calls : wire[1].from = q => call[q] = "sent"
    BY <1>1, NoCallAssumption DEF LeaseIInv, SendersAwait
  <2>2. \A q \in Calls : HoldsLease(q)' <=> HoldsLease(q)
    BY <1>3, <2>1 DEF HoldsLease
  <2>3. {q \in Calls : HoldsLease(q)}' = {q \in Calls : HoldsLease(q)}
    BY <2>2
  <2> QED BY <2>3 DEF BridgeApplies, LeaseIInv, DemandCountsLeases
<1>6. SendersAwait'
  <2>1. \A i \in 1..Len(wire') : i + 1 \in 1..Len(wire) /\ i + 1 # 1
    BY <1>1
  <2>2. \A i \in 1..Len(wire') : wire'[i].from # NoCall =>
           /\ wire'[i].from \in Calls
           /\ wire'[i].from # wire[1].from
           /\ call[wire'[i].from] = "sent"
    BY <1>1, <2>1, FramesAreTyped DEF LeaseIInv, SendersAwait
  <2>3. \A i \in 1..Len(wire') : wire'[i].from # NoCall => call'[wire'[i].from] = "sent"
    BY <1>3, <2>2
  <2>4. \A i, j \in 1..Len(wire') :
           wire'[i].from # NoCall /\ wire'[i].from = wire'[j].from => i + 1 = j + 1
    BY <1>1, <2>1 DEF LeaseIInv, SendersAwait
  <2>5. \A i, j \in 1..Len(wire') : i + 1 = j + 1 => i = j
    BY <1>1
  <2> QED BY <2>3, <2>4, <2>5 DEF SendersAwait
<1>7. OffIsComing'
  <2>1. Ending' = Ending
    <3>1. CASE Len(wire) = 1
      <4>1. wire' = <<>>
        BY <3>1, <1>1
      <4> QED BY <3>1, <4>1, <1>1 DEF Ending, BridgeApplies
    <3>2. CASE Len(wire) # 1
      <4>1. Len(wire') \in Nat /\ Len(wire') + 1 = Len(wire)
        BY <1>1
      <4>2. Len(wire') # 0
        BY <3>2, <4>1
      <4>3. wire' # <<>>
        BY <4>2
      <4>4. Len(wire') \in 1..Len(wire')
        BY <4>1, <4>2
      <4> QED BY <4>1, <4>3, <4>4, <1>1 DEF Ending
    <3> QED BY <3>1, <3>2
  <2> QED BY <2>1 DEF BridgeApplies, LeaseIInv, OffIsComing
<1> QED BY <1>4, <1>5, <1>6, <1>7 DEF LeaseIInv

\* The control socket closes.
LEMMA BridgeClosesKeeps == ASSUME LeaseIInv, BridgeCloses PROVE LeaseIInv'
<1>1. <<>> \in Seq(Frame) /\ Len(<<>>) = 0
  OBVIOUS
<1>2. TypeOK'
  <2>1. call' \in [Calls -> CallPcs]
    BY DEF BridgeCloses, LeaseIInv, TypeOK, CallPcs
  <2> QED BY <1>1, <2>1 DEF BridgeCloses, LeaseIInv, TypeOK
<1>3. DemandCountsLeases'
  <2>1. \A q \in Calls : HoldsLease(q)' <=> HoldsLease(q)
    BY DEF BridgeCloses, HoldsLease, At
  <2>2. {q \in Calls : HoldsLease(q)}' = {q \in Calls : HoldsLease(q)}
    BY <2>1
  <2> QED BY <2>2 DEF BridgeCloses, LeaseIInv, DemandCountsLeases
<1>4. SendersAwait' /\ OffIsComing'
  BY <1>1 DEF BridgeCloses, SendersAwait, OffIsComing
<1> QED BY <1>2, <1>3, <1>4 DEF LeaseIInv

-----------------------------------------------------------------------------
(***************************************************************************)
(* Theorems                                                                *)
(***************************************************************************)
\* LeaseIInv holds in every reachable state, for all constants: no step of a handler,
\* a spawned task, a client or the bridge disturbs it.
THEOREM LeaseInvariance == LeaseSpec => []LeaseIInv
<1>1. LeaseIInv /\ [LeaseNext]_leaseVars => LeaseIInv'
  <2> SUFFICES ASSUME LeaseIInv, [LeaseNext]_leaseVars PROVE LeaseIInv'
    OBVIOUS
  <2>1. ASSUME NEW p \in Calls, ArmBegins(p) PROVE LeaseIInv'
    BY <2>1, ArmBeginsKeeps
  <2>2. ASSUME NEW p \in Calls, CallStep(p) PROVE LeaseIInv'
    BY <2>2, ArmBeginsKeeps, ArmAcquiresKeeps, ArmReadsDemandKeeps, ArmSendsKeeps,
       ArmTimesOutKeeps, ArmReturnsKeeps DEF CallStep
  <2>3. ASSUME NEW wait \in BOOLEAN, ClientSetsAutoAttach(wait) PROVE LeaseIInv'
    BY <2>3, ClientSetsKeeps
  <2>4. CASE PauseOff \/ ConnectionEnds
    BY <2>4, SlotReleased
  <2>5. CASE Disarm \/ BridgeApplies \/ BridgeCloses
    BY <2>5, DisarmKeeps, BridgeAppliesKeeps, BridgeClosesKeeps
  <2>6. CASE UNCHANGED leaseVars
    BY <2>6 DEF leaseVars, LeaseIInv, TypeOK, DemandCountsLeases, HoldsLease, SendersAwait,
       OffIsComing, Ending
  <2> QED BY <2>1, <2>2, <2>3, <2>4, <2>5, <2>6 DEF LeaseNext
<1> QED BY <1>1, Initially, PTL DEF LeaseSpec

\* The reference count is the number of leases alive: whatever a disconnect, a
\* replacement or a late handler releases, no lease is lost or counted twice.
THEOREM CountIsExact == LeaseSpec => []DemandCountsLeases
<1>1. LeaseIInv => DemandCountsLeases
  BY DEF LeaseIInv
<1> QED BY <1>1, LeaseInvariance, PTL

\* When everything is quiet and nobody wants pausing, the bridge does not pause.
THEOREM PausingEnds == LeaseSpec => []NeverLeftArmed
<1>1. LeaseIInv => NeverLeftArmed
  BY DEF LeaseIInv, OffIsComing, Ending, NeverLeftArmed, Quiescent, TypeOK
<1> QED BY <1>1, LeaseInvariance, PTL
==============================================================================
