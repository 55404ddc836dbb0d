---------------------- MODULE ConnectionServiceInvariant ----------------------
(***************************************************************************)
(* The inductive invariant of ConnectionService: what the locals of the    *)
(* handlers, the supervisors and the published slots must agree on for the *)
(* safety properties of ConnectionService to survive every single step.    *)
(***************************************************************************)
EXTENDS ConnectionService

ASSUME NoGoalAssumption == NoGoal \notin Goal

\* Without its context nothing is configured, and an absent entry has no past.
NothingWithoutContext ==
    \A c \in Connections :
        ~contextExists \/ ~Exists(connections, c) =>
            connections[c] = NoConnection

\* Generations count connects: every status but the first two follows one.
ActiveHasGeneration ==
    \A c \in Connections :
        connections[c].status \notin {"absent", "disconnected"} =>
            connections[c].generation # 0

\* A handler that left its first section knows what it was started for.
HandlersHaveGoals ==
    \A p \in Calls :
        /\ At(p, "idle") => call[p].held = {}
        /\ call[p].pc \notin {"idle", "clearing"} => call[p].goal \in Goal
        /\ At(p, "arming") => call[p].goal.attempt.generation # 0

\* A captured goal is about the present or an earlier entry of its connection,
\* and within one entry the version determines the recipe.
GoalIsPast(goal) ==
    LET c == goal.connection IN
        /\ goal.incarnation <= incarnation[c]
        /\ goal.incarnation = incarnation[c] /\ Exists(connections, c) =>
             /\ goal.attempt.version <= connections[c].version
             /\ goal.attempt.version = connections[c].version =>
                  goal.configuration = connections[c].configuration

GoalsArePast ==
    /\ \A p \in Calls : call[p].goal \in Goal => GoalIsPast(call[p].goal)
    /\ \A r \in Runtimes : origin[r] \in Goal => GoalIsPast(origin[r])

\* A runtime that was not opened yet is nowhere.
FreshIsNowhere ==
    \A r \in Runtimes :
        /\ transport[r] = "unopened" =>
             /\ supervisor[r] = "none"
             /\ \A p \in Calls : Closing(p) => r \notin call[p].held
        /\ transport[r] # "unopened" => origin[r] \in Goal

\* The handler that opened a runtime is the only one to hold it.
OpenedIsExclusive ==
    \A p \in Calls : At(p, "opened") =>
        \E r \in Runtimes :
            /\ call[p].held = {r}
            /\ origin[r] = call[p].goal
            /\ transport[r] \in {"open", "lost"}
            /\ supervisor[r] = "none"
            /\ \A q \in Calls \ {p} : Closing(q) => r \notin call[q].held

\* A published runtime is watched and was opened for the current attempt of its
\* connection.
PublishedIsWatched ==
    \A c \in Connections : runtimes[c] # NoRuntime =>
        /\ supervisor[runtimes[c]] = "watching"
        /\ origin[runtimes[c]].connection = c
        /\ origin[runtimes[c]].attempt = AttemptOf(connections, c)

IInv ==
    /\ TypeOK
    /\ NothingWithoutContext
    /\ ActiveHasGeneration
    /\ HandlersHaveGoals
    /\ GoalsArePast
    /\ FreshIsNowhere
    /\ OpenedIsExclusive
    /\ HeldIsUnpublished
    /\ PublishedIsWatched
    /\ PublishedIffConnected
    /\ LeaseOfExistingConnection
    /\ OpenTransportIsOwned
=============================================================================
