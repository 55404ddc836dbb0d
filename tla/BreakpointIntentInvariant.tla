----------------------- MODULE BreakpointIntentInvariant -----------------------
(***************************************************************************)
(* The inductive invariant of BreakpointIntent.  AppliedWhenSettled speaks *)
(* of the moments when the intent lock is free; LoopAgrees says what holds *)
(* while a handler is on its way, and the other parts are what its steps   *)
(* rely on.                                                                *)
(***************************************************************************)
EXTENDS BreakpointIntent

Fresh(d) == \A b \in Ids : held[d][b] = NoSpec /\ owner[d][b] = "none" /\ mark[d][b] = 0

\* A debugger without an actor has no breakpoints.
DeadAreFresh == \A d \in Debuggers : ~live[d] => Fresh(d)

\* A debugger that is opening is known to its attachment only.
OpeningIsNowhere ==
    \A d \in Debuggers :
        opening[d] # NoTarget =>
            /\ Fresh(d)
            /\ target[d] = opening[d]
            /\ d \notin job.todo
            /\ \A t \in Targets : registered[t] # d
            /\ d \notin stale => exists

\* A debugger is registered for its own target, in a context that exists.
RegisteredForItsTarget ==
    \A t \in Targets :
        registered[t] # NoDebugger => target[registered[t]] = t /\ exists

\* Targets own ids that begin with "log:" and no others.
TargetsOwnLogIds ==
    \A d \in Debuggers, b \in Ids : owner[d][b] = "target" => b \in LogIds

\* Which handler is at which step.
JobShape ==
    /\ job.pc = "check" => job.op \in {"put", "putSpec"} /\ job.id \in Ids
                           /\ job.want \in Intents
    /\ job.pc = "apply" => job.op \in {"put", "putSpec", "delete"} /\ job.id \in Ids
    /\ job.pc = "apply" /\ job.op # "delete" => job.want \in Intents
    /\ job.pc = "apply" /\ job.op = "delete" => job.want = NoIntent
    /\ job.pc = "seed" => job.op = "attach" /\ \A d, e \in job.todo : d = e
    /\ job.pc = "publish" => job.op \in {"put", "putSpec", "attach"}
    /\ job.pc = "logpoint" => job.op = "logpoints" /\ job.id \in LogIds
                              /\ job.want.spec \in Specs

\* A debugger that has been asked and said no still has no logpoint of the id.
AskedOwnsNothing ==
    job.pc = "check" =>
        \A t \in job.want.scope :
            registered[t] # NoDebugger /\ registered[t] \notin job.todo
                => owner[registered[t]][job.id] # "target"

\* While there is an attached debugger to be told, the revision and the intent
\* of the handler are still those of the context.
JobIsCurrent ==
    \A t \in Targets :
        registered[t] \in job.todo =>
            /\ job.pc \in {"apply", "seed"} => job.rev <= revision
            /\ job.pc = "apply" => intent[job.id] = job.want
            /\ job.pc = "seed" => \A b \in job.ids : Applies(b, t)

\* A debugger that is being seeded has been given no logpoint yet.
SeededOwnsNothing ==
    job.pc = "seed" => \A d \in job.todo, b \in Ids : owner[d][b] # "target"

\* The holder of the lock still has to tell d about b.
ToBeTold(d, b) ==
    /\ d \in job.todo
    /\ \/ job.pc = "apply" /\ b = job.id
       \/ job.pc = "seed" /\ b \in job.ids

\* Every attached debugger that runs holds what is intended, unless an error
\* kept it from that or the holder of the lock has not come to it yet.
LoopAgrees ==
    \A t \in Targets, b \in Ids :
        LET d == registered[t]
        IN  d # NoDebugger /\ live[d] /\ <<d, b>> \notin failed \cup skipped
                => ToBeTold(d, b) \/ Agrees(d, t, b)

IInv ==
    /\ TypeOK
    /\ DeadAreFresh
    /\ OpeningIsNowhere
    /\ RegisteredForItsTarget
    /\ TargetsOwnLogIds
    /\ JobShape
    /\ AskedOwnsNothing
    /\ JobIsCurrent
    /\ SeededOwnsNothing
    /\ IntentIsNeverRefused
    /\ CommandsAreNeverStale
    /\ LoopAgrees
=============================================================================
