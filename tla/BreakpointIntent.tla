---------------------------- MODULE BreakpointIntent ----------------------------
(***************************************************************************)
(* The breakpoints that one context intends, and what the debuggers of its *)
(* attached targets hold.  put_breakpoint, put_breakpoint_spec,            *)
(* delete_breakpoint, set_logpoints and the last part of an attachment run *)
(* one at a time under the intent lock of the context; the debuggers are   *)
(* actors that answer one command after the other.  remove_logpoint,       *)
(* detaching, the end of a target, of a runtime or of the context and the  *)
(* death of an actor take no intent lock.                                  *)
(* (service/debugger_service/context.rs, service/debugger_service.rs,      *)
(* service/debugger_service/target_debugger.rs, debugger/target_debugger.rs)*)
(***************************************************************************)
EXTENDS Naturals, FiniteSets

CONSTANTS
    Ids,            \* breakpoint ids
    LogIds,         \* the ids that begin with "log:"
    Specs,          \* location and condition of a breakpoint
    NoSpec,         \* the engine has no breakpoint of an id
    Targets,        \* debuggable targets of the context
    NoTarget,
    Debuggers,      \* instances of TargetDebuggerHandle, reused when gone
    NoDebugger,
    NoId,
    Hosts,          \* bound: <<t, d>> if d may be started for t
    Selected,       \* bound: the scopes a client may ask for
    MaxRevision     \* bound on the revision of the context

ASSUME IdAssumption == LogIds \subseteq Ids /\ NoId \notin Ids
ASSUME NullAssumption ==
    NoSpec \notin Specs /\ NoTarget \notin Targets /\ NoDebugger \notin Debuggers
ASSUME RevisionAssumption == MaxRevision \in Nat \ {0}

VARIABLES
    exists,      \* the context is in state.contexts
    revision,    \* its revision
    intent,      \* its breakpoints
    registered,  \* state.target_debuggers, by target
    opening,     \* target that a started, not yet registered debugger is for
    stale,       \* opening debuggers whose runtime or capability was replaced
    job,         \* what the holder of the intent lock is doing
    target,      \* the target of each debugger
    live,        \* its actor answers
    held,        \* breakpoints in its engine
    owner,       \* breakpoint_owners: owner
    mark,        \* breakpoint_owners: context_revision, 0 for None
    failed,      \* history: <<d, b>> whose last context command was an error
    skipped      \* history: <<d, b>> left out when another debugger failed

contextVars == <<exists, revision, intent>>
attachmentVars == <<registered, opening, stale, target>>
engineVars == <<held, owner, mark>>
historyVars == <<failed, skipped>>
vars == <<contextVars, attachmentVars, job, live, engineVars, historyVars>>

-----------------------------------------------------------------------------
\* A disabled breakpoint, or one whose selector names no target, applies nowhere.
Scopes == {{}, Targets} \cup {{t} : t \in Targets}

NoIntent == [spec |-> NoSpec, scope |-> {}]

Intents == [spec : Specs, scope : Scopes]

Owners == {"none", "context", "target"}

Ops == {"put", "putSpec", "delete", "attach", "logpoints"}

Job == [op : Ops,
        pc : {"check", "apply", "publish", "reply", "seed", "logpoint"},
        id : Ids \cup {NoId},
        want : Intents \cup {NoIntent},
        rev : 0..MaxRevision,
        todo : SUBSET Debuggers,
        ids : SUBSET Ids,       \* breakpoints still to be seeded
        changed : SUBSET Ids]   \* applications still to be published

Free == [op |-> "none", pc |-> "free", id |-> NoId, want |-> NoIntent, rev |-> 0,
         todo |-> {}, ids |-> {}, changed |-> {}]

Registered == {registered[t] : t \in Targets} \ {NoDebugger}

RegisteredIn(scope) == {registered[t] : t \in scope} \ {NoDebugger}

Live == {d \in Debuggers : live[d]}

Applies(b, t) == t \in intent[b].scope

\* set_breakpoint is sent to d, and not remove_breakpoint.
Wanted(d) == job.op # "delete" /\ target[d] \in job.want.scope

InUse(d) ==
    \/ d \in Registered
    \/ opening[d] # NoTarget
    \/ d \in job.todo

\* The attachment lock of the target is held.
Attaching(t) ==
    \/ \E d \in Debuggers : opening[d] = t
    \/ job.op = "attach" /\ \E d \in job.todo : target[d] = t

Init ==
    /\ exists = TRUE
    /\ revision = 1
    /\ intent = [b \in Ids |-> NoIntent]
    /\ registered = [t \in Targets |-> NoDebugger]
    /\ opening = [d \in Debuggers |-> NoTarget]
    /\ stale = {}
    /\ job = Free
    /\ target = [d \in Debuggers |-> NoTarget]
    /\ live = [d \in Debuggers |-> FALSE]
    /\ held = [d \in Debuggers |-> [b \in Ids |-> NoSpec]]
    /\ owner = [d \in Debuggers |-> [b \in Ids |-> "none"]]
    /\ mark = [d \in Debuggers |-> [b \in Ids |-> 0]]
    /\ failed = {}
    /\ skipped = {}

-----------------------------------------------------------------------------
(***************************************************************************)
(* BreakpointOwnership and the engine of one debugger.                     *)
(***************************************************************************)
\* A command older than the watermark is answered Ok and does nothing.
Outdated(d, b, rev) == mark[d][b] > rev

SetMark(d, b, rev) == mark' = [mark EXCEPT ![d][b] = rev]

SetOwner(d, b, o) == owner' = [owner EXCEPT ![d][b] = o]

SetHeld(d, b, s) == held' = [held EXCEPT ![d][b] = s]

\* SetBreakpoints with ContextIntent(rev), one breakpoint, answered Ok.
Installs(d, b, s, rev) ==
    /\ live[d]
    /\ \/ Outdated(d, b, rev) /\ UNCHANGED engineVars
       \/ /\ ~Outdated(d, b, rev)
          /\ owner[d][b] # "target"
          /\ SetHeld(d, b, s)
          /\ SetOwner(d, b, "context")
          /\ SetMark(d, b, rev)

\* RemoveBreakpoint answered Ok: a logpoint of the target stays.
Removes(d, b, rev) ==
    /\ live[d]
    /\ \/ Outdated(d, b, rev) /\ UNCHANGED engineVars
       \/ /\ ~Outdated(d, b, rev)
          /\ SetMark(d, b, rev)
          /\ IF owner[d][b] = "target"
             THEN UNCHANGED <<held, owner>>
             ELSE SetHeld(d, b, NoSpec) /\ SetOwner(d, b, "none")

\* Answered with an error after the engine forgot the breakpoint, or Stopped.
RemovalFails(d, b, rev) ==
    \/ ~live[d] /\ UNCHANGED engineVars
    \/ /\ live[d]
       /\ ~Outdated(d, b, rev)
       /\ owner[d][b] # "target"
       /\ SetHeld(d, b, NoSpec)
       /\ UNCHANGED <<owner, mark>>

\* What run_target owns goes with it.
Ends(d) ==
    /\ live' = [live EXCEPT ![d] = FALSE]
    /\ held' = [held EXCEPT ![d] = [b \in Ids |-> NoSpec]]
    /\ owner' = [owner EXCEPT ![d] = [b \in Ids |-> "none"]]
    /\ mark' = [mark EXCEPT ![d] = [b \in Ids |-> 0]]
    /\ failed' = {f \in failed : f[1] # d}
    /\ skipped' = {f \in skipped : f[1] # d}

\* The command for <<d, b>> is done.
Served(d, b) ==
    /\ failed' = failed \ {<<d, b>>}
    /\ skipped' = skipped \ {<<d, b>>}

\* The handler returns the error of d: nobody asks the others.
Abandons(d, b) ==
    /\ job' = Free
    /\ failed' = failed \cup {<<e, b>> : e \in {d} \cap Live}
    /\ skipped' = skipped \cup {<<e, b>> : e \in (job.todo \ {d}) \cap Live}

-----------------------------------------------------------------------------
(***************************************************************************)
(* put_breakpoint, put_breakpoint_spec.                                    *)
(***************************************************************************)
\* Fault: the debuggers are not asked whether they own a logpoint of the id.
PutBeginsUnchecked(o, b, w) ==
    /\ job = Free
    /\ job' = [Free EXCEPT !.op = o, !.pc = "check", !.id = b, !.want = w]
    /\ UNCHANGED <<contextVars, attachmentVars, live, engineVars, historyVars>>

\* reject_target_logpoint_collision collects the debuggers that it asks.
PutBegins(o, b, w) ==
    /\ job = Free
    /\ o = "put" => w.scope = Targets
    /\ job' = [Free EXCEPT !.op = o, !.pc = "check", !.id = b, !.want = w,
                           !.todo = IF b \in LogIds THEN RegisteredIn(w.scope) ELSE {}]
    /\ UNCHANGED <<contextVars, attachmentVars, live, engineVars, historyVars>>

\* OwnsLogpoint; an owner and a stopped debugger both end the handler.
PutChecksOwner(d) ==
    /\ job.pc = "check"
    /\ d \in job.todo
    /\ job' = IF live[d] /\ owner[d][job.id] # "target"
              THEN [job EXCEPT !.todo = @ \ {d}]
              ELSE Free
    /\ UNCHANGED <<contextVars, attachmentVars, live, engineVars, historyVars>>

\* Fault: only the debuggers that the specification selects are told.
PutCommitsToSelected ==
    /\ job.pc = "check"
    /\ job.todo = {}
    /\ exists
    /\ revision < MaxRevision
    /\ revision' = revision + 1
    /\ intent' = [intent EXCEPT ![job.id] = job.want]
    /\ job' = [job EXCEPT !.pc = "apply", !.rev = revision + 1,
                          !.todo = RegisteredIn(job.want.scope),
                          !.changed = IF Registered = {} THEN {} ELSE {job.id}]
    /\ UNCHANGED <<exists, attachmentVars, live, engineVars, historyVars>>

PutCommits ==
    /\ job.pc = "check"
    /\ job.todo = {}
    /\ exists
    /\ revision < MaxRevision
    /\ revision' = revision + 1
    /\ intent' = [intent EXCEPT ![job.id] = job.want]
    /\ job' = [job EXCEPT !.pc = "apply", !.rev = revision + 1, !.todo = Registered,
                          !.changed = IF Registered = {} THEN {} ELSE {job.id}]
    /\ UNCHANGED <<exists, attachmentVars, live, engineVars, historyVars>>

\* Missing context, mutation options, a failed write.
PutIsRefused ==
    /\ job.pc = "check"
    /\ job.todo = {}
    /\ job' = Free
    /\ UNCHANGED <<contextVars, attachmentVars, live, engineVars, historyVars>>

(***************************************************************************)
(* delete_breakpoint: the lock, then the section, then the debuggers.      *)
(***************************************************************************)
Delete(b) ==
    /\ job = Free
    /\ exists
    /\ b \in LogIds => intent[b] # NoIntent
    /\ intent[b] # NoIntent => revision < MaxRevision
    /\ revision' = IF intent[b] = NoIntent THEN revision ELSE revision + 1
    /\ intent' = [intent EXCEPT ![b] = NoIntent]
    /\ job' = [Free EXCEPT !.op = "delete", !.pc = "apply", !.id = b,
                           !.rev = revision', !.todo = Registered]
    /\ UNCHANGED <<exists, attachmentVars, live, engineVars, historyVars>>

-----------------------------------------------------------------------------
(***************************************************************************)
(* The loop over the debuggers, in an order of their keys that is left open*)
(***************************************************************************)
ApplySet(d) ==
    /\ job.pc = "apply"
    /\ d \in job.todo
    /\ Wanted(d)
    /\ Installs(d, job.id, job.want.spec, job.rev)
    /\ Served(d, job.id)
    /\ job' = [job EXCEPT !.todo = @ \ {d}]
    /\ UNCHANGED <<contextVars, attachmentVars, live>>

\* Only put_breakpoint goes on when a debugger has stopped.
PutSkipsStopped(d) ==
    /\ job.pc = "apply"
    /\ job.op = "put"
    /\ d \in job.todo
    /\ ~live[d]
    /\ job' = [job EXCEPT !.todo = @ \ {d}]
    /\ UNCHANGED <<contextVars, attachmentVars, live, engineVars, historyVars>>

\* Fault: the answer of a stopped debugger is waited for.
SetFailsUnlessStopped(d) ==
    /\ job.pc = "apply"
    /\ d \in job.todo
    /\ Wanted(d)
    /\ live[d]
    /\ Abandons(d, job.id)
    /\ UNCHANGED <<contextVars, attachmentVars, live, engineVars>>

\* A failed installation is rolled back to what the engine held.
SetFails(d) ==
    /\ job.pc = "apply"
    /\ d \in job.todo
    /\ Wanted(d)
    /\ job.op = "put" => live[d]
    /\ Abandons(d, job.id)
    /\ UNCHANGED <<contextVars, attachmentVars, live, engineVars>>

\* Fault: removal does not ask whose the breakpoint is.
ApplyRemoveOfAnyOwner(d) ==
    /\ job.pc = "apply"
    /\ d \in job.todo
    /\ ~Wanted(d)
    /\ live[d]
    /\ SetHeld(d, job.id, NoSpec)
    /\ SetOwner(d, job.id, "none")
    /\ SetMark(d, job.id, job.rev)
    /\ Served(d, job.id)
    /\ job' = [job EXCEPT !.todo = @ \ {d}]
    /\ UNCHANGED <<contextVars, attachmentVars, live>>

ApplyRemove(d) ==
    /\ job.pc = "apply"
    /\ d \in job.todo
    /\ ~Wanted(d)
    /\ Removes(d, job.id, job.rev)
    /\ Served(d, job.id)
    /\ job' = [job EXCEPT !.todo = @ \ {d}]
    /\ UNCHANGED <<contextVars, attachmentVars, live>>

RemoveFails(d) ==
    /\ job.pc = "apply"
    /\ d \in job.todo
    /\ ~Wanted(d)
    /\ job.op # "put"
    /\ RemovalFails(d, job.id, job.rev)
    /\ Abandons(d, job.id)
    /\ UNCHANGED <<contextVars, attachmentVars, live>>

\* delete_breakpoint returns; the others publish, if there were debuggers.
ApplyEnds ==
    /\ job.pc = "apply"
    /\ job.todo = {}
    /\ job' = IF job.op = "delete" THEN Free ELSE [job EXCEPT !.pc = "publish"]
    /\ UNCHANGED <<contextVars, attachmentVars, live, engineVars, historyVars>>

\* publish_breakpoint_application; the revision stays at its bound.
Publish(b) ==
    /\ job.pc = "publish"
    /\ b \in job.changed
    /\ job' = [job EXCEPT !.changed = @ \ {b}]
    /\ revision' = IF exists /\ intent[b] # NoIntent /\ revision < MaxRevision
                   THEN revision + 1 ELSE revision
    /\ UNCHANGED <<exists, intent, attachmentVars, live, engineVars, historyVars>>

PublishEnds ==
    /\ job.pc = "publish"
    /\ job.changed = {}
    /\ job' = IF job.op = "attach" THEN Free ELSE [job EXCEPT !.pc = "reply"]
    /\ UNCHANGED <<contextVars, attachmentVars, live, engineVars, historyVars>>

\* The last section expects the context; a panic drops the guard, too.
Reply ==
    /\ job.pc = "reply"
    /\ job' = Free
    /\ UNCHANGED <<contextVars, attachmentVars, live, engineVars, historyVars>>

-----------------------------------------------------------------------------
(***************************************************************************)
(* attach_target_internal.                                                 *)
(***************************************************************************)
\* Lock of the target, removal of the owner if forced, open, start.
AttachBegins(t, d) ==
    /\ exists
    /\ <<t, d>> \in Hosts
    /\ ~Attaching(t)
    /\ ~InUse(d) /\ ~live[d]
    /\ registered' = [registered EXCEPT ![t] = NoDebugger]
    /\ opening' = [opening EXCEPT ![d] = t]
    /\ target' = [target EXCEPT ![d] = t]
    /\ live' = [live EXCEPT ![d] = TRUE]
    /\ UNCHANGED <<contextVars, stale, job, engineVars, historyVars>>

\* Fault: a failed attachment is not forgotten by what replaced its runtime.
AttachFailsStayingStale(d) ==
    /\ opening[d] # NoTarget
    /\ opening' = [opening EXCEPT ![d] = NoTarget]
    /\ Ends(d)
    /\ UNCHANGED <<contextVars, registered, stale, target, job>>

\* The session does not open, or the checks before it fail.
AttachFails(d) ==
    /\ opening[d] # NoTarget
    /\ opening' = [opening EXCEPT ![d] = NoTarget]
    /\ stale' = stale \ {d}
    /\ Ends(d)
    /\ UNCHANGED <<contextVars, registered, target, job>>

\* Fault: a replaced runtime is not noticed under the lock.
AttachIsRefusedOnConflict(d) ==
    /\ opening[d] # NoTarget
    /\ job = Free
    /\ registered[opening[d]] # NoDebugger
    /\ opening' = [opening EXCEPT ![d] = NoTarget]
    /\ stale' = stale \ {d}
    /\ Ends(d)
    /\ UNCHANGED <<contextVars, registered, target, job>>

\* Under the lock all is checked again; the session of a refused one is closed.
AttachIsRefused(d) ==
    /\ opening[d] # NoTarget
    /\ job = Free
    /\ d \in stale \/ registered[opening[d]] # NoDebugger
    /\ opening' = [opening EXCEPT ![d] = NoTarget]
    /\ stale' = stale \ {d}
    /\ Ends(d)
    /\ UNCHANGED <<contextVars, registered, target, job>>

AttachRegisters(d) ==
    /\ opening[d] # NoTarget
    /\ job = Free
    /\ d \notin stale
    /\ registered[opening[d]] = NoDebugger
    /\ registered' = [registered EXCEPT ![opening[d]] = d]
    /\ opening' = [opening EXCEPT ![d] = NoTarget]
    /\ LET ids == {b \in Ids : Applies(b, opening[d])}
       IN  job' = [Free EXCEPT !.op = "attach", !.pc = "seed", !.rev = revision,
                               !.todo = {d}, !.ids = ids, !.changed = ids]
    /\ UNCHANGED <<contextVars, stale, target, live, engineVars, historyVars>>

\* seed_attached_breakpoints: one command for each, in an order left open.
Seed(d, b) ==
    /\ job.pc = "seed"
    /\ d \in job.todo
    /\ b \in job.ids
    /\ Installs(d, b, intent[b].spec, job.rev)
    /\ job' = [job EXCEPT !.ids = @ \ {b}]
    /\ UNCHANGED <<contextVars, attachmentVars, live, historyVars>>

\* Fault: a debugger that could not be seeded stays registered.
SeedFailsKeepingIt(d) ==
    /\ job.pc = "seed"
    /\ d \in job.todo
    /\ job.ids # {}
    /\ job' = Free
    /\ UNCHANGED <<contextVars, attachmentVars, live, engineVars, historyVars>>

SeedFails(d) ==
    /\ job.pc = "seed"
    /\ d \in job.todo
    /\ job.ids # {}
    /\ registered' = IF registered[target[d]] = d
                     THEN [registered EXCEPT ![target[d]] = NoDebugger]
                     ELSE registered
    /\ Ends(d)
    /\ job' = Free
    /\ UNCHANGED <<contextVars, opening, stale, target>>

SeedEnds ==
    /\ job.pc = "seed"
    /\ job.ids = {}
    /\ job' = [job EXCEPT !.pc = "publish"]
    /\ UNCHANGED <<contextVars, attachmentVars, live, engineVars, historyVars>>

-----------------------------------------------------------------------------
(***************************************************************************)
(* Logpoints of a target.                                                  *)
(***************************************************************************)
\* set_logpoints: the lock, then the debugger that is registered.
LogpointBegins(t, b, s) ==
    /\ job = Free
    /\ registered[t] # NoDebugger
    /\ job' = [Free EXCEPT !.op = "logpoints", !.pc = "logpoint", !.id = b,
                           !.want = [spec |-> s, scope |-> {t}],
                           !.todo = {registered[t]}]
    /\ UNCHANGED <<contextVars, attachmentVars, live, engineVars, historyVars>>

\* SetBreakpoints with TargetGeneration: a breakpoint of the context refuses it.
LogpointInstalls(d) ==
    /\ job.pc = "logpoint"
    /\ d \in job.todo
    /\ live[d]
    /\ owner[d][job.id] # "context"
    /\ SetHeld(d, job.id, job.want.spec)
    /\ SetOwner(d, job.id, "target")
    /\ job' = Free
    /\ UNCHANGED <<contextVars, attachmentVars, live, mark, historyVars>>

LogpointFails ==
    /\ job.pc = "logpoint"
    /\ job' = Free
    /\ UNCHANGED <<contextVars, attachmentVars, live, engineVars, historyVars>>

\* remove_logpoint takes no intent lock; an error comes after the removal.
RemoveLogpoint(d, b) ==
    /\ d \in Registered
    /\ live[d]
    /\ owner[d][b] = "target"
    /\ SetHeld(d, b, NoSpec)
    /\ \/ SetOwner(d, b, "none")
       \/ UNCHANGED owner
    /\ UNCHANGED <<contextVars, attachmentVars, job, live, mark, historyVars>>

-----------------------------------------------------------------------------
(***************************************************************************)
(* What happens without the intent lock.                                   *)
(***************************************************************************)
\* The event stream of the session is closed; the registration stays.
DebuggerStops(d) ==
    /\ live[d]
    /\ Ends(d)
    /\ UNCHANGED <<contextVars, attachmentVars, job>>

\* detach_target, under the attachment lock.
Detach(t) ==
    /\ registered[t] # NoDebugger
    /\ ~Attaching(t)
    /\ registered' = [registered EXCEPT ![t] = NoDebugger]
    /\ UNCHANGED <<contextVars, opening, stale, target, job, live, engineVars,
                   historyVars>>

\* TargetDetached of the registered session, or the target is removed.
TargetLeaves(t) ==
    /\ registered[t] # NoDebugger \/ \E d \in Debuggers : opening[d] = t
    /\ registered' = [registered EXCEPT ![t] = NoDebugger]
    /\ \/ UNCHANGED stale
       \/ stale' = stale \cup {d \in Debuggers : opening[d] = t}
    /\ UNCHANGED <<contextVars, opening, target, job, live, engineVars, historyVars>>

\* Every registration goes, and what is opening belongs to the old runtime.
DropAttachments ==
    /\ registered' = [t \in Targets |-> NoDebugger]
    /\ stale' = {d \in Debuggers : opening[d] # NoTarget}
    /\ UNCHANGED <<opening, target>>

\* Disconnect, loss or replacement of the connection.
RuntimeEnds ==
    /\ DropAttachments
    /\ UNCHANGED <<contextVars, job, live, engineVars, historyVars>>

\* Fault: the debuggers of a deleted context stay registered.
DeleteContextKeepingDebuggers ==
    /\ exists
    /\ exists' = FALSE
    /\ intent' = [b \in Ids |-> NoIntent]
    /\ revision' = 1
    /\ UNCHANGED <<attachmentVars, job, live, engineVars, historyVars>>

DeleteContext ==
    /\ exists
    /\ exists' = FALSE
    /\ intent' = [b \in Ids |-> NoIntent]
    /\ revision' = 1
    /\ DropAttachments
    /\ UNCHANGED <<job, live, engineVars, historyVars>>

\* A new context of the same id starts at revision 1.
PutContext ==
    /\ ~exists
    /\ exists' = TRUE
    /\ UNCHANGED <<revision, intent, attachmentVars, job, live, engineVars, historyVars>>

\* Any other durable change or observation.
ContextChanges ==
    /\ exists
    /\ revision < MaxRevision
    /\ revision' = revision + 1
    /\ UNCHANGED <<exists, intent, attachmentVars, job, live, engineVars, historyVars>>

-----------------------------------------------------------------------------
\* The steps of the holder of the lock; a debugger answers or has stopped.
JobStep ==
    \/ \E d \in Debuggers :
          \/ PutChecksOwner(d)
          \/ ApplySet(d) \/ PutSkipsStopped(d) \/ SetFails(d)
          \/ ApplyRemove(d) \/ RemoveFails(d)
          \/ SeedFails(d) \/ LogpointInstalls(d)
          \/ \E b \in Ids : Seed(d, b)
    \/ PutCommits \/ PutIsRefused \/ ApplyEnds \/ PublishEnds \/ Reply
    \/ SeedEnds \/ LogpointFails
    \/ \E b \in Ids : Publish(b)

Calls ==
    \/ \E b \in Ids :
          \/ \E o \in {"put", "putSpec"}, w \in {i \in Intents : i.scope \in Selected} :
                PutBegins(o, b, w)
          \/ Delete(b)
    \/ \E t \in Targets :
          \/ \E d \in Debuggers : AttachBegins(t, d)
          \/ \E b \in LogIds, s \in Specs : LogpointBegins(t, b, s)
          \/ Detach(t)
    \/ \E d \in Debuggers, b \in LogIds : RemoveLogpoint(d, b)
    \/ DeleteContext \/ PutContext \/ ContextChanges

Surroundings ==
    \/ \E d \in Debuggers : DebuggerStops(d) \/ AttachFails(d)
    \/ \E t \in Targets : TargetLeaves(t)
    \/ RuntimeEnds

AttachTakesLock(d) == AttachIsRefused(d) \/ AttachRegisters(d)

Next ==
    \/ JobStep
    \/ \E d \in Debuggers : AttachTakesLock(d)
    \/ Calls
    \/ Surroundings

Spec == Init /\ [][Next]_vars

\* The lock is a fair queue; its holder is a task that runs until it returns.
FairSpec ==
    /\ Spec
    /\ WF_vars(JobStep)
    /\ \A d \in Debuggers : SF_vars(AttachTakesLock(d))

-----------------------------------------------------------------------------
(***************************************************************************)
(* Properties.                                                             *)
(***************************************************************************)
TypeOK ==
    /\ exists \in BOOLEAN
    /\ revision \in 1..MaxRevision
    /\ intent \in [Ids -> Intents \cup {NoIntent}]
    /\ registered \in [Targets -> Debuggers \cup {NoDebugger}]
    /\ opening \in [Debuggers -> Targets \cup {NoTarget}]
    /\ stale \subseteq {d \in Debuggers : opening[d] # NoTarget}
    /\ job \in Job \cup {Free}
    /\ target \in [Debuggers -> Targets \cup {NoTarget}]
    /\ live \in [Debuggers -> BOOLEAN]
    /\ held \in [Debuggers -> [Ids -> Specs \cup {NoSpec}]]
    /\ owner \in [Debuggers -> [Ids -> Owners]]
    /\ mark \in [Debuggers -> [Ids -> 0..MaxRevision]]
    /\ failed \subseteq Debuggers \X Ids
    /\ skipped \subseteq Debuggers \X Ids

\* What debugger d of target t holds for b is what the context intends there.
Agrees(d, t, b) ==
    IF Applies(b, t)
    THEN owner[d][b] = "context" /\ held[d][b] = intent[b].spec
    ELSE owner[d][b] = "target" \/ (owner[d][b] = "none" /\ held[d][b] = NoSpec)

\* When nobody holds the intent lock, each attached debugger that still runs
\* holds exactly the intended breakpoints, but for those whose last command
\* ended in an error (put_breakpoint, put_breakpoint_spec, delete_breakpoint,
\* seed_attached_breakpoints).
AppliedWhenSettled ==
    job = Free =>
        \A t \in Targets, b \in Ids :
            LET d == registered[t]
            IN  d # NoDebugger /\ live[d] /\ <<d, b>> \notin failed \cup skipped
                    => Agrees(d, t, b)

\* A specification that passed reject_target_logpoint_collision, or that seeds
\* a debugger, is never refused because the target owns a logpoint of its id.
IntentIsNeverRefused ==
    /\ job.pc = "apply" =>
         \A d \in job.todo : Wanted(d) => owner[d][job.id] # "target"
    /\ job.pc = "seed" =>
         \A d \in job.todo, b \in job.ids : owner[d][b] # "target"

\* The watermark of an attached debugger never makes it skip the command of
\* the handler that holds the lock: revisions restart with a new context, so
\* this needs delete_context to drop the debuggers.
CommandsAreNeverStale ==
    /\ job.pc = "apply" => \A d \in job.todo : ~Outdated(d, job.id, job.rev)
    /\ job.pc = "seed" => \A d \in job.todo, b \in job.ids : ~Outdated(d, b, job.rev)
    /\ exists => \A d \in Registered, b \in Ids : mark[d][b] <= revision

\* No command of the context touches a logpoint of the target: while the target
\* owns an id, only its own set_logpoints and remove_logpoint change it.
LogpointsAreTheTargets ==
    [][\A d \in Debuggers, b \in Ids :
         /\ InUse(d)
         /\ owner[d][b] = "target"
         /\ <<held'[d][b], owner'[d][b]>> # <<held[d][b], owner[d][b]>>
         => job' = job \/ job.op = "logpoints"]_vars

\* Whatever dies while it is held, the intent lock is released.
LockIsReleased == job # Free ~> job = Free

\* Every attachment under way is registered or closed in the end.
AttachmentFinishes == \A d \in Debuggers : opening[d] # NoTarget ~> opening[d] = NoTarget
=============================================================================
