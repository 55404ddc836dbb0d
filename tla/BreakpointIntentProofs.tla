------------------------ MODULE BreakpointIntentProofs ------------------------
(***************************************************************************)
(* Proofs about BreakpointIntent: the invariant of                         *)
(* BreakpointIntentInvariant is inductive, and with it what the runs check *)
(* on small instances holds for all ids, targets, debuggers and revisions. *)
(***************************************************************************)
EXTENDS BreakpointIntentInvariant, TLAPS

-----------------------------------------------------------------------------
(***************************************************************************)
(* Shapes.                                                                 *)
(***************************************************************************)
\* The job of a handler, and that of nobody: steps differ, hence records do.
LEMMA JobRecord ==
    ASSUME job \in Job \cup {Free}, job.pc # "free"
    PROVE  job \in Job
  BY DEF Job, Free

\* A scope is a set of targets.
LEMMA ScopesAreTargets == \A w \in Intents \cup {NoIntent} : w.scope \subseteq Targets
  BY DEF Intents, NoIntent, Scopes

-----------------------------------------------------------------------------
(***************************************************************************)
(* The initial state.                                                      *)
(***************************************************************************)
\* An empty context with no debugger satisfies the invariant.
LEMMA InitIInv == Init => IInv
<1> SUFFICES ASSUME Init PROVE IInv
    OBVIOUS
<1>1. TypeOK
    BY RevisionAssumption DEF Init, TypeOK, Owners
<1>2. DeadAreFresh /\ OpeningIsNowhere /\ RegisteredForItsTarget /\ TargetsOwnLogIds
    BY DEF Init, DeadAreFresh, OpeningIsNowhere, RegisteredForItsTarget, TargetsOwnLogIds, Fresh
<1>3. /\ JobShape /\ AskedOwnsNothing /\ JobIsCurrent /\ SeededOwnsNothing
      /\ IntentIsNeverRefused /\ LoopAgrees
    BY DEF Init, Free, JobShape, AskedOwnsNothing, JobIsCurrent, SeededOwnsNothing,
           IntentIsNeverRefused, LoopAgrees
<1>4. CommandsAreNeverStale
    BY DEF Init, Free, CommandsAreNeverStale, Registered
<1> QED
    BY <1>1, <1>2, <1>3, <1>4 DEF IInv

-----------------------------------------------------------------------------
(***************************************************************************)
(* Steps that only move the job on.                                        *)
(***************************************************************************)
OnlyJobChanges == UNCHANGED <<contextVars, attachmentVars, live, engineVars, historyVars>>

\* Only what is registered gets into a job.
LEMMA JobFrame ==
    ASSUME IInv, OnlyJobChanges, job' \in Job \cup {Free},
           \A d \in job'.todo : d \in job.todo \/ d \in Registered
    PROVE  /\ TypeOK' /\ DeadAreFresh' /\ OpeningIsNowhere'
           /\ RegisteredForItsTarget' /\ TargetsOwnLogIds'
<1> USE DEF OnlyJobChanges, contextVars, attachmentVars, engineVars, historyVars
<1>1. TypeOK'
    BY DEF IInv, TypeOK
<1>2. DeadAreFresh'
    BY DEF IInv, DeadAreFresh, Fresh
<1>3. OpeningIsNowhere'
    BY DEF IInv, OpeningIsNowhere, Fresh, Registered
<1>4. RegisteredForItsTarget' /\ TargetsOwnLogIds'
    BY DEF IInv, RegisteredForItsTarget, TargetsOwnLogIds
<1> QED
    BY <1>1, <1>2, <1>3, <1>4

\* The lock may be given up when nobody is left to be told.
LEMMA ReleaseKeeps ==
    ASSUME IInv, OnlyJobChanges, job' = Free,
           job.pc = "apply" => job.todo = {}, job.pc = "seed" => job.ids = {}
    PROVE  IInv'
<1> USE DEF OnlyJobChanges, contextVars, attachmentVars, engineVars, historyVars
<1>1. job'.todo = {} /\ job'.pc = "free" /\ job' \in Job \cup {Free}
    BY DEF Free
<1>2. /\ TypeOK' /\ DeadAreFresh' /\ OpeningIsNowhere'
      /\ RegisteredForItsTarget' /\ TargetsOwnLogIds'
    BY <1>1, JobFrame
<1>3. /\ JobShape' /\ AskedOwnsNothing' /\ JobIsCurrent' /\ SeededOwnsNothing'
      /\ IntentIsNeverRefused'
    BY <1>1 DEF JobShape, AskedOwnsNothing, JobIsCurrent, SeededOwnsNothing,
               IntentIsNeverRefused
<1>4. CommandsAreNeverStale'
    BY <1>1 DEF IInv, CommandsAreNeverStale, Registered
<1>5. LoopAgrees'
    BY DEF IInv, LoopAgrees, ToBeTold, Agrees, Applies
<1> QED
    BY <1>2, <1>3, <1>4, <1>5 DEF IInv

\* A refused put_breakpoint gives the lock up before it changed anything.
LEMMA PutIsRefusedKeeps == IInv /\ PutIsRefused => IInv'
  BY ReleaseKeeps DEF PutIsRefused, OnlyJobChanges

\* The answer of put_breakpoint comes after everyone was told.
LEMMA ReplyKeeps == IInv /\ Reply => IInv'
  BY ReleaseKeeps DEF Reply, OnlyJobChanges

\* A refused set_logpoints leaves its debugger as it was.
LEMMA LogpointFailsKeeps == IInv /\ LogpointFails => IInv'
  BY ReleaseKeeps DEF LogpointFails, OnlyJobChanges

\* A job that begins has nobody to tell yet.
LEMMA BeginKeeps ==
    ASSUME IInv, OnlyJobChanges, job = Free, job' \in Job,
           job'.todo \subseteq Registered,
           job'.pc \in {"check", "logpoint"}, JobShape', AskedOwnsNothing'
    PROVE  IInv'
<1> USE DEF OnlyJobChanges, contextVars, attachmentVars, engineVars, historyVars
<1>1. /\ TypeOK' /\ DeadAreFresh' /\ OpeningIsNowhere'
      /\ RegisteredForItsTarget' /\ TargetsOwnLogIds'
    BY JobFrame
<1>2. JobIsCurrent' /\ SeededOwnsNothing' /\ IntentIsNeverRefused'
    BY DEF JobIsCurrent, SeededOwnsNothing, IntentIsNeverRefused
<1>3. CommandsAreNeverStale'
    BY DEF IInv, CommandsAreNeverStale, Registered
<1>4. LoopAgrees'
    BY DEF IInv, LoopAgrees, ToBeTold, Agrees, Applies, Free
<1> QED
    BY <1>1, <1>2, <1>3, <1>4 DEF IInv

\* Of the debuggers that put_breakpoint does not ask, none owns the id: only ids
\* that begin with "log:" are asked about.
LEMMA PutBeginsKeeps ==
    ASSUME IInv, NEW o \in {"put", "putSpec"}, NEW b \in Ids, NEW w \in Intents,
           PutBegins(o, b, w)
    PROVE  IInv'
<1> DEFINE todo == IF b \in LogIds THEN RegisteredIn(w.scope) ELSE {}
<1>1. w.scope \subseteq Targets
    BY ScopesAreTargets
<1>2. todo \subseteq Registered /\ Registered \subseteq Debuggers
    BY <1>1 DEF RegisteredIn, Registered, IInv, TypeOK
<1>3. job' = [op |-> o, pc |-> "check", id |-> b, want |-> w, rev |-> 0,
              todo |-> todo, ids |-> {}, changed |-> {}]
    BY DEF PutBegins, Free
<1>4. job' \in Job
    BY <1>2, <1>3, RevisionAssumption DEF Job, Ops
<1>5. JobShape'
    BY <1>3 DEF JobShape
<1>6. AskedOwnsNothing'
  <2> SUFFICES ASSUME NEW t \in w.scope, registered[t] # NoDebugger, registered[t] \notin todo
               PROVE  owner[registered[t]][b] # "target"
      BY <1>3 DEF AskedOwnsNothing, PutBegins, attachmentVars, engineVars
  <2>1. b \notin LogIds
      BY DEF RegisteredIn
  <2>2. registered[t] \in Debuggers
      BY <1>1 DEF IInv, TypeOK
  <2> QED
      BY <2>1, <2>2 DEF IInv, TargetsOwnLogIds
<1> QED
    BY <1>2, <1>3, <1>4, <1>5, <1>6, BeginKeeps DEF PutBegins, OnlyJobChanges

\* set_logpoints takes the lock and the debugger that is registered.
LEMMA LogpointBeginsKeeps ==
    ASSUME IInv, NEW t \in Targets, NEW b \in LogIds, NEW s \in Specs,
           LogpointBegins(t, b, s)
    PROVE  IInv'
<1>1. registered[t] \in Registered /\ registered[t] \in Debuggers
    BY DEF LogpointBegins, Registered, IInv, TypeOK
<1>2. job' = [op |-> "logpoints", pc |-> "logpoint", id |-> b,
              want |-> [spec |-> s, scope |-> {t}], rev |-> 0,
              todo |-> {registered[t]}, ids |-> {}, changed |-> {}]
    BY DEF LogpointBegins, Free
<1>3. job' \in Job
    BY <1>1, <1>2, IdAssumption, RevisionAssumption DEF Job, Ops, Intents, Scopes
<1>4. JobShape' /\ AskedOwnsNothing'
    BY <1>2 DEF JobShape, AskedOwnsNothing
<1> QED
    BY <1>1, <1>2, <1>3, <1>4, BeginKeeps DEF LogpointBegins, OnlyJobChanges

\* An answer of OwnsLogpoint ends put_breakpoint, or that debugger owns nothing.
LEMMA PutChecksOwnerKeeps ==
    ASSUME IInv, NEW d \in Debuggers, PutChecksOwner(d)
    PROVE  IInv'
<1> USE DEF OnlyJobChanges, contextVars, attachmentVars, engineVars, historyVars
<1>0. OnlyJobChanges /\ job \in Job
    BY JobRecord DEF PutChecksOwner, IInv, TypeOK
<1>1. CASE ~(live[d] /\ owner[d][job.id] # "target")
    BY <1>0, <1>1, ReleaseKeeps DEF PutChecksOwner
<1>2. CASE live[d] /\ owner[d][job.id] # "target"
  <2>1. job' = [job EXCEPT !.todo = job.todo \ {d}] /\ job.pc = "check"
      BY <1>2 DEF PutChecksOwner
  <2>2. job' \in Job /\ job'.pc = "check" /\ job'.todo = job.todo \ {d}
        /\ job'.want = job.want /\ job'.id = job.id /\ job'.op = job.op
      BY <1>0, <2>1 DEF Job
  <2>3. /\ TypeOK' /\ DeadAreFresh' /\ OpeningIsNowhere'
        /\ RegisteredForItsTarget' /\ TargetsOwnLogIds'
      BY <1>0, <2>2, JobFrame
  <2>4. JobShape' /\ JobIsCurrent' /\ SeededOwnsNothing' /\ IntentIsNeverRefused'
      BY <2>1, <2>2 DEF IInv, JobShape, JobIsCurrent, SeededOwnsNothing, IntentIsNeverRefused
  <2>5. AskedOwnsNothing'
      BY <1>0, <1>2, <2>1, <2>2 DEF IInv, AskedOwnsNothing
  <2>6. CommandsAreNeverStale'
      BY <1>0, <2>2 DEF IInv, CommandsAreNeverStale, Registered
  <2>7. LoopAgrees'
      BY <1>0, <2>1, <2>2 DEF IInv, LoopAgrees, ToBeTold, Agrees, Applies
  <2> QED
      BY <2>2, <2>3, <2>4, <2>5, <2>6, <2>7 DEF IInv
<1> QED
    BY <1>1, <1>2

\* Nobody is left to be told: what remains is to publish and to answer.
LEMMA WindDownKeeps ==
    ASSUME IInv, UNCHANGED <<exists, intent, attachmentVars, live, engineVars, historyVars>>,
           revision' \in revision..MaxRevision, job \in Job,
           job.pc = "apply" => job.todo = {}, job.pc = "seed" => job.ids = {},
           job' \in Job, job'.pc \in {"publish", "reply"}, job'.todo = job.todo, JobShape'
    PROVE  IInv'
<1> USE DEF attachmentVars, engineVars, historyVars
<1>1. TypeOK'
    BY DEF IInv, TypeOK
<1>2. DeadAreFresh' /\ OpeningIsNowhere' /\ RegisteredForItsTarget' /\ TargetsOwnLogIds'
    BY DEF IInv, DeadAreFresh, OpeningIsNowhere, Fresh, RegisteredForItsTarget,
           TargetsOwnLogIds
<1>3. AskedOwnsNothing' /\ JobIsCurrent' /\ SeededOwnsNothing' /\ IntentIsNeverRefused'
    BY DEF AskedOwnsNothing, JobIsCurrent, SeededOwnsNothing, IntentIsNeverRefused
<1>4. CommandsAreNeverStale'
  <2>1. Registered \subseteq Debuggers
      BY DEF IInv, TypeOK, Registered
  <2>2. \A d \in Registered, b \in Ids : mark[d][b] \in Nat
      BY <2>1, RevisionAssumption DEF IInv, TypeOK
  <2>3. revision \in Nat /\ revision' \in Nat /\ revision <= revision'
      BY RevisionAssumption DEF IInv, TypeOK
  <2>4. Registered' = Registered
      BY DEF Registered
  <2> QED
      BY <2>2, <2>3, <2>4 DEF IInv, CommandsAreNeverStale
<1>5. LoopAgrees'
    BY DEF IInv, LoopAgrees, ToBeTold, Agrees, Applies
<1> QED
    BY <1>1, <1>2, <1>3, <1>4, <1>5 DEF IInv

\* The loop ends when every debugger was told; delete_breakpoint returns there.
LEMMA ApplyEndsKeeps == IInv /\ ApplyEnds => IInv'
<1> SUFFICES ASSUME IInv, ApplyEnds PROVE IInv'
    OBVIOUS
<1>1. CASE job.op = "delete"
  <2>1. OnlyJobChanges /\ job' = Free /\ job.todo = {} /\ job.pc = "apply"
      BY <1>1 DEF ApplyEnds, OnlyJobChanges
  <2> QED
      BY <2>1, ReleaseKeeps
<1>2. CASE job.op # "delete"
  <2>1. job \in Job /\ job' = [job EXCEPT !.pc = "publish"]
      BY <1>2, JobRecord DEF ApplyEnds, IInv, TypeOK
  <2>2. job' \in Job /\ job'.pc = "publish" /\ job'.todo = job.todo /\ job'.op = job.op
      BY <2>1 DEF Job
  <2>3. JobShape'
      BY <1>2, <2>2 DEF ApplyEnds, IInv, JobShape
  <2>4. revision' \in revision..MaxRevision
      BY RevisionAssumption DEF ApplyEnds, contextVars, IInv, TypeOK
  <2> QED
      BY <2>1, <2>2, <2>3, <2>4, WindDownKeeps DEF ApplyEnds, contextVars
<1> QED
    BY <1>1, <1>2

\* publish_breakpoint_application touches the revision only.
LEMMA PublishKeeps == ASSUME IInv, NEW b \in Ids, Publish(b) PROVE IInv'
<1>1. job \in Job /\ job' = [job EXCEPT !.changed = job.changed \ {b}]
    BY JobRecord DEF Publish, IInv, TypeOK
<1>2. job' \in Job /\ job'.pc = "publish" /\ job'.todo = job.todo /\ job'.op = job.op
    BY <1>1 DEF Job, Publish
<1>3. JobShape'
    BY <1>2 DEF Publish, IInv, JobShape
<1>4. revision' \in revision..MaxRevision
    BY RevisionAssumption DEF Publish, IInv, TypeOK
<1> QED
    BY <1>1, <1>2, <1>3, <1>4, WindDownKeeps DEF Publish

\* An attachment returns after the publications, put_breakpoint answers first.
LEMMA PublishEndsKeeps == IInv /\ PublishEnds => IInv'
<1> SUFFICES ASSUME IInv, PublishEnds PROVE IInv'
    OBVIOUS
<1>1. CASE job.op = "attach"
    BY <1>1, ReleaseKeeps DEF PublishEnds, OnlyJobChanges
<1>2. CASE job.op # "attach"
  <2>1. job \in Job /\ job' = [job EXCEPT !.pc = "reply"]
      BY <1>2, JobRecord DEF PublishEnds, IInv, TypeOK
  <2>2. job' \in Job /\ job'.pc = "reply" /\ job'.todo = job.todo
      BY <2>1 DEF Job
  <2>3. JobShape'
      BY <2>2 DEF JobShape
  <2>4. revision' \in revision..MaxRevision
      BY RevisionAssumption DEF PublishEnds, contextVars, IInv, TypeOK
  <2> QED
      BY <2>1, <2>2, <2>3, <2>4, WindDownKeeps DEF PublishEnds, contextVars
<1> QED
    BY <1>1, <1>2

\* Seeding ends when no breakpoint is left to be seeded.
LEMMA SeedEndsKeeps == IInv /\ SeedEnds => IInv'
<1> SUFFICES ASSUME IInv, SeedEnds PROVE IInv'
    OBVIOUS
<1>1. job \in Job /\ job' = [job EXCEPT !.pc = "publish"]
    BY JobRecord DEF SeedEnds, IInv, TypeOK
<1>2. job' \in Job /\ job'.pc = "publish" /\ job'.todo = job.todo /\ job'.op = job.op
    BY <1>1 DEF Job
<1>3. JobShape'
    BY <1>2 DEF SeedEnds, IInv, JobShape
<1>4. revision' \in revision..MaxRevision
    BY RevisionAssumption DEF SeedEnds, contextVars, IInv, TypeOK
<1> QED
    BY <1>1, <1>2, <1>3, <1>4, WindDownKeeps DEF SeedEnds, contextVars

-----------------------------------------------------------------------------
(***************************************************************************)
(* Registrations that go, and the life of the context.                     *)
(***************************************************************************)
\* A registration that goes takes obligations away and adds none.
LEMMA ShrinkKeeps ==
    ASSUME IInv,
           UNCHANGED <<contextVars, opening, target, job, live, engineVars, historyVars>>,
           registered' \in [Targets -> Debuggers \cup {NoDebugger}],
           \A t \in Targets : registered'[t] \in {registered[t], NoDebugger},
           stale \subseteq stale', stale' \subseteq {d \in Debuggers : opening[d] # NoTarget}
    PROVE  IInv'
<1> USE DEF contextVars, engineVars, historyVars
<1>1. TypeOK'
    BY DEF IInv, TypeOK
<1>2. NoDebugger \notin job.todo
    BY NullAssumption DEF IInv, TypeOK, Job, Free
<1>3. DeadAreFresh' /\ OpeningIsNowhere' /\ RegisteredForItsTarget' /\ TargetsOwnLogIds'
    BY NullAssumption DEF IInv, DeadAreFresh, OpeningIsNowhere, Fresh, RegisteredForItsTarget,
                          TargetsOwnLogIds
<1>4. JobShape' /\ SeededOwnsNothing' /\ IntentIsNeverRefused'
    BY DEF IInv, JobShape, SeededOwnsNothing, IntentIsNeverRefused, Wanted
<1>5. AskedOwnsNothing'
  <2>1. job.pc = "check" => job.want.scope \subseteq Targets
      BY ScopesAreTargets DEF IInv, JobShape
  <2> QED
      BY <2>1 DEF IInv, AskedOwnsNothing
<1>6. JobIsCurrent'
    BY <1>2 DEF IInv, JobIsCurrent, Applies
<1>7. CommandsAreNeverStale'
  <2>1. Registered' \subseteq Registered
      BY DEF Registered
  <2> QED
      BY <2>1 DEF IInv, CommandsAreNeverStale, Outdated
<1>8. LoopAgrees'
    BY DEF IInv, LoopAgrees, ToBeTold, Agrees, Applies
<1> QED
    BY <1>1, <1>3, <1>4, <1>5, <1>6, <1>7, <1>8 DEF IInv

\* detach_target forgets one registration.
LEMMA DetachKeeps == ASSUME IInv, NEW t \in Targets, Detach(t) PROVE IInv'
  BY ShrinkKeeps DEF Detach, IInv, TypeOK

\* TargetDetached forgets one registration and spoils an opening one.
LEMMA TargetLeavesKeeps == ASSUME IInv, NEW t \in Targets, TargetLeaves(t) PROVE IInv'
<1>1. /\ registered' \in [Targets -> Debuggers \cup {NoDebugger}]
      /\ \A s \in Targets : registered'[s] \in {registered[s], NoDebugger}
    BY DEF TargetLeaves, IInv, TypeOK
<1>2. stale \subseteq stale' /\ stale' \subseteq {d \in Debuggers : opening[d] # NoTarget}
    BY NullAssumption DEF TargetLeaves, IInv, TypeOK
<1> QED
    BY <1>1, <1>2, ShrinkKeeps DEF TargetLeaves

\* The end of a runtime forgets every registration, whoever holds the lock.
LEMMA RuntimeEndsKeeps == IInv /\ RuntimeEnds => IInv'
  BY ShrinkKeeps DEF RuntimeEnds, DropAttachments, IInv, TypeOK

\* delete_context forgets the intent and the debuggers together: a handler on
\* its way tells debuggers that nobody knows any more.
LEMMA DeleteContextKeeps == IInv /\ DeleteContext => IInv'
<1> SUFFICES ASSUME IInv, DeleteContext PROVE IInv'
    OBVIOUS
<1> USE DEF DeleteContext, DropAttachments, engineVars, historyVars
<1>1. TypeOK'
  <2>1. revision' \in 1..MaxRevision /\ exists' \in BOOLEAN
    <3>1. revision' = 1 /\ exists' = FALSE
        OBVIOUS
    <3>2. 1 \in 1..MaxRevision
        BY RevisionAssumption
    <3> QED
        BY <3>1, <3>2
  <2>2. intent' \in [Ids -> Intents \cup {NoIntent}]
      OBVIOUS
  <2>3. registered' \in [Targets -> Debuggers \cup {NoDebugger}]
      OBVIOUS
  <2> QED
      BY <2>1, <2>2, <2>3 DEF IInv, TypeOK
<1>2. NoDebugger \notin job.todo
    BY NullAssumption DEF IInv, TypeOK, Job, Free
<1>3. DeadAreFresh' /\ OpeningIsNowhere' /\ RegisteredForItsTarget' /\ TargetsOwnLogIds'
    BY NullAssumption DEF IInv, TypeOK, DeadAreFresh, OpeningIsNowhere, Fresh,
                          RegisteredForItsTarget, TargetsOwnLogIds
<1>4. JobShape' /\ SeededOwnsNothing' /\ IntentIsNeverRefused'
    BY DEF IInv, JobShape, SeededOwnsNothing, IntentIsNeverRefused, Wanted
<1>5. AskedOwnsNothing' /\ JobIsCurrent' /\ LoopAgrees'
  <2>1. job.pc = "check" => job.want.scope \subseteq Targets
      BY ScopesAreTargets DEF IInv, JobShape
  <2> QED
      BY <1>2, <2>1 DEF AskedOwnsNothing, JobIsCurrent, LoopAgrees
<1>6. CommandsAreNeverStale'
    BY DEF IInv, CommandsAreNeverStale, Outdated
<1> QED
    BY <1>1, <1>3, <1>4, <1>5, <1>6 DEF IInv

\* A new context has no debugger yet, so its first revision is above every mark.
LEMMA PutContextKeeps == IInv /\ PutContext => IInv'
<1> SUFFICES ASSUME IInv, PutContext PROVE IInv'
    OBVIOUS
<1> USE DEF PutContext, attachmentVars, engineVars, historyVars
<1>1. \A t \in Targets : registered[t] = NoDebugger
    BY DEF IInv, RegisteredForItsTarget
<1>2. TypeOK'
    BY DEF IInv, TypeOK
<1>3. DeadAreFresh' /\ OpeningIsNowhere' /\ RegisteredForItsTarget' /\ TargetsOwnLogIds'
    BY DEF IInv, DeadAreFresh, OpeningIsNowhere, Fresh, RegisteredForItsTarget,
           TargetsOwnLogIds
<1>4. JobShape' /\ SeededOwnsNothing' /\ IntentIsNeverRefused' /\ AskedOwnsNothing'
    BY DEF IInv, JobShape, SeededOwnsNothing, IntentIsNeverRefused, Wanted, AskedOwnsNothing
<1>5. JobIsCurrent' /\ LoopAgrees'
    BY DEF IInv, JobIsCurrent, LoopAgrees, Applies, Agrees, ToBeTold
<1>6. CommandsAreNeverStale'
    BY <1>1 DEF IInv, CommandsAreNeverStale, Outdated, Registered
<1> QED
    BY <1>2, <1>3, <1>4, <1>5, <1>6 DEF IInv

\* A revision that another change takes is above every mark, too.
LEMMA ContextChangesKeeps == IInv /\ ContextChanges => IInv'
<1> SUFFICES ASSUME IInv, ContextChanges PROVE IInv'
    OBVIOUS
<1> USE DEF ContextChanges, attachmentVars, engineVars, historyVars
<1>1. revision' \in 1..MaxRevision /\ revision' = revision + 1
    BY RevisionAssumption DEF IInv, TypeOK
<1>2. TypeOK'
    BY <1>1 DEF IInv, TypeOK
<1>3. DeadAreFresh' /\ OpeningIsNowhere' /\ RegisteredForItsTarget' /\ TargetsOwnLogIds'
    BY DEF IInv, DeadAreFresh, OpeningIsNowhere, Fresh, RegisteredForItsTarget,
           TargetsOwnLogIds
<1>4. JobShape' /\ SeededOwnsNothing' /\ IntentIsNeverRefused' /\ AskedOwnsNothing'
    BY DEF IInv, JobShape, SeededOwnsNothing, IntentIsNeverRefused, Wanted, AskedOwnsNothing
<1>5. JobIsCurrent'
  <2>1. job.pc \in {"apply", "seed"} => job.rev \in Nat
      BY RevisionAssumption, JobRecord DEF IInv, TypeOK, Job
  <2> QED
      BY <1>1, <2>1 DEF IInv, TypeOK, JobIsCurrent, Applies
<1>6. CommandsAreNeverStale'
  <2>1. Registered \subseteq Debuggers
      BY DEF IInv, TypeOK, Registered
  <2>2. \A d \in Registered, b \in Ids : mark[d][b] \in Nat
      BY <2>1, RevisionAssumption DEF IInv, TypeOK
  <2> QED
      BY <1>1, <2>2 DEF IInv, TypeOK, CommandsAreNeverStale, Outdated, Registered
<1>7. LoopAgrees'
    BY DEF IInv, LoopAgrees, Applies, Agrees, ToBeTold
<1> QED
    BY <1>2, <1>3, <1>4, <1>5, <1>6, <1>7 DEF IInv

-----------------------------------------------------------------------------
(***************************************************************************)
(* One command to one debugger.                                            *)
(***************************************************************************)
\* What d holds for b becomes s, of owner o, with watermark m; no more changes.
EngineBecomes(d, b, s, o, m) ==
    /\ held' \in [Debuggers -> [Ids -> Specs \cup {NoSpec}]]
    /\ owner' \in [Debuggers -> [Ids -> Owners]]
    /\ mark' \in [Debuggers -> [Ids -> 0..MaxRevision]]
    /\ held'[d][b] = s /\ owner'[d][b] = o /\ mark'[d][b] = m
    /\ \A e \in Debuggers, c \in Ids :
          e # d \/ c # b => /\ held'[e][c] = held[e][c]
                           /\ owner'[e][c] = owner[e][c]
                           /\ mark'[e][c] = mark[e][c]

\* One place of a table changes.
LEMMA TableUpdate ==
    ASSUME NEW S, NEW f \in [Debuggers -> [Ids -> S]], NEW d \in Debuggers, NEW b \in Ids,
           NEW s \in S, NEW g, g = [f EXCEPT ![d][b] = s]
    PROVE  /\ g \in [Debuggers -> [Ids -> S]]
           /\ g[d][b] = s
           /\ \A e \in Debuggers, c \in Ids : e # d \/ c # b => g[e][c] = f[e][c]
  OBVIOUS

\* The tables of the engines, with one place of each set or left alone.
LEMMA TablesBecome ==
    ASSUME TypeOK, NEW d \in Debuggers, NEW b \in Ids,
           NEW s \in Specs \cup {NoSpec}, NEW o \in Owners, NEW m \in 0..MaxRevision,
           SetHeld(d, b, s) \/ (held' = held /\ held[d][b] = s),
           SetOwner(d, b, o) \/ (owner' = owner /\ owner[d][b] = o),
           SetMark(d, b, m) \/ (mark' = mark /\ mark[d][b] = m)
    PROVE  EngineBecomes(d, b, s, o, m)
<1>1. /\ held' \in [Debuggers -> [Ids -> Specs \cup {NoSpec}]]
      /\ held'[d][b] = s
      /\ \A e \in Debuggers, c \in Ids : e # d \/ c # b => held'[e][c] = held[e][c]
  <2>1. held \in [Debuggers -> [Ids -> Specs \cup {NoSpec}]]
      BY DEF TypeOK
  <2>2. CASE SetHeld(d, b, s)
    <3>1. held' = [held EXCEPT ![d][b] = s]
        BY <2>2 DEF SetHeld
    <3> QED
        BY <2>1, <3>1, TableUpdate
  <2>3. CASE held' = held /\ held[d][b] = s
      BY <2>1, <2>3
  <2> QED
      BY <2>2, <2>3
<1>2. /\ owner' \in [Debuggers -> [Ids -> Owners]]
      /\ owner'[d][b] = o
      /\ \A e \in Debuggers, c \in Ids : e # d \/ c # b => owner'[e][c] = owner[e][c]
  <2>1. owner \in [Debuggers -> [Ids -> Owners]]
      BY DEF TypeOK
  <2>2. CASE SetOwner(d, b, o)
    <3>1. owner' = [owner EXCEPT ![d][b] = o]
        BY <2>2 DEF SetOwner
    <3> QED
        BY <2>1, <3>1, TableUpdate
  <2>3. CASE owner' = owner /\ owner[d][b] = o
      BY <2>1, <2>3
  <2> QED
      BY <2>2, <2>3
<1>3. /\ mark' \in [Debuggers -> [Ids -> 0..MaxRevision]]
      /\ mark'[d][b] = m
      /\ \A e \in Debuggers, c \in Ids : e # d \/ c # b => mark'[e][c] = mark[e][c]
  <2>1. mark \in [Debuggers -> [Ids -> 0..MaxRevision]]
      BY DEF TypeOK
  <2>2. CASE SetMark(d, b, m)
    <3>1. mark' = [mark EXCEPT ![d][b] = m]
        BY <2>2 DEF SetMark
    <3> QED
        BY <2>1, <3>1, TableUpdate
  <2>3. CASE mark' = mark /\ mark[d][b] = m
      BY <2>1, <2>3
  <2> QED
      BY <2>2, <2>3
<1> QED
    BY <1>1, <1>2, <1>3 DEF EngineBecomes

\* A command that is not outdated installs the breakpoint for the context.
LEMMA InstallEffect ==
    ASSUME TypeOK, NEW d \in Debuggers, NEW b \in Ids, NEW s \in Specs \cup {NoSpec},
           NEW r \in 0..MaxRevision, Installs(d, b, s, r), ~Outdated(d, b, r)
    PROVE  EngineBecomes(d, b, s, "context", r)
  BY TablesBecome DEF Installs, Owners

\* A command that is not outdated removes the breakpoint, unless the target
\* owns it.
LEMMA RemoveEffect ==
    ASSUME TypeOK, NEW d \in Debuggers, NEW b \in Ids, NEW r \in 0..MaxRevision,
           Removes(d, b, r), ~Outdated(d, b, r)
    PROVE  IF owner[d][b] = "target"
           THEN EngineBecomes(d, b, held[d][b], "target", r)
           ELSE EngineBecomes(d, b, NoSpec, "none", r)
<1>1. CASE owner[d][b] = "target"
  <2>1. held[d][b] \in Specs \cup {NoSpec} /\ "target" \in Owners
      BY DEF TypeOK, Owners
  <2> QED
      BY <1>1, <2>1, TablesBecome DEF Removes
<1>2. CASE owner[d][b] # "target"
    BY <1>2, TablesBecome DEF Removes, Owners
<1> QED
    BY <1>1, <1>2

\* What no command disturbs, wherever it comes from.
LEMMA CommandFrame ==
    ASSUME IInv, NEW d \in Debuggers, NEW b \in Ids, NEW s, NEW o, NEW m,
           EngineBecomes(d, b, s, o, m), live[d], opening[d] = NoTarget,
           o = "target" => b \in LogIds,
           UNCHANGED <<contextVars, attachmentVars, live>>,
           failed' \subseteq Debuggers \X Ids, skipped' \subseteq Debuggers \X Ids,
           job' \in Job \cup {Free}, job'.todo \subseteq job.todo
    PROVE  /\ TypeOK' /\ DeadAreFresh' /\ OpeningIsNowhere'
           /\ RegisteredForItsTarget' /\ TargetsOwnLogIds'
<1> USE DEF contextVars, attachmentVars, EngineBecomes
<1>1. TypeOK'
    BY DEF IInv, TypeOK
<1>2. DeadAreFresh'
  <2>1. \A e \in Debuggers : e # d /\ Fresh(e) => Fresh(e)'
      BY DEF Fresh
  <2> QED
      BY <2>1 DEF IInv, DeadAreFresh
<1>3. OpeningIsNowhere'
  <2>1. \A e \in Debuggers : e # d /\ Fresh(e) => Fresh(e)'
      BY DEF Fresh
  <2> QED
      BY <2>1 DEF IInv, OpeningIsNowhere
<1>4. RegisteredForItsTarget'
    BY DEF IInv, RegisteredForItsTarget
<1>5. TargetsOwnLogIds'
    BY DEF IInv, TargetsOwnLogIds
<1> QED
    BY <1>1, <1>2, <1>3, <1>4, <1>5

-----------------------------------------------------------------------------
(***************************************************************************)
(* The loop over the debuggers.                                            *)
(***************************************************************************)
\* A debugger has been told and its handler turns to the others.
LEMMA ToldKeeps ==
    ASSUME IInv, NEW d \in job.todo, NEW s, NEW o,
           job.pc = "apply", job \in Job, live[d],
           UNCHANGED <<contextVars, attachmentVars, live>>,
           EngineBecomes(d, job.id, s, o, job.rev), Served(d, job.id),
           job' = [job EXCEPT !.todo = job.todo \ {d}],
           o = "target" => job.id \in LogIds,
           target[d] \in job.want.scope => o = "context" /\ s = job.want.spec,
           target[d] \notin job.want.scope => o = "target" \/ (o = "none" /\ s = NoSpec)
    PROVE  IInv'
<1> USE DEF contextVars, attachmentVars
<1>1. /\ job' \in Job \cup {Free} /\ job'.pc = "apply" /\ job'.op = job.op
      /\ job'.id = job.id /\ job'.want = job.want /\ job'.rev = job.rev
      /\ job'.todo = job.todo \ {d}
    BY DEF Job
<1>2. d \in Debuggers /\ job.id \in Ids
    BY DEF Job, IInv, JobShape
<1>3. opening[d] = NoTarget
    BY <1>2 DEF IInv, OpeningIsNowhere
<1>4. failed' \subseteq Debuggers \X Ids /\ skipped' \subseteq Debuggers \X Ids
    BY DEF Served, IInv, TypeOK
<1>5. /\ TypeOK' /\ DeadAreFresh' /\ OpeningIsNowhere'
      /\ RegisteredForItsTarget' /\ TargetsOwnLogIds'
    BY <1>1, <1>2, <1>3, <1>4, CommandFrame
<1>6. \A e \in Debuggers, c \in Ids :
          e # d \/ c # job.id => /\ held'[e][c] = held[e][c]
                                 /\ owner'[e][c] = owner[e][c]
                                 /\ mark'[e][c] = mark[e][c]
    BY DEF EngineBecomes
<1>7. JobShape' /\ AskedOwnsNothing' /\ SeededOwnsNothing'
    BY <1>1 DEF IInv, JobShape, AskedOwnsNothing, SeededOwnsNothing
<1>8. JobIsCurrent'
    BY <1>1 DEF IInv, JobIsCurrent
<1>9. IntentIsNeverRefused'
    BY <1>1, <1>2, <1>6 DEF IInv, IntentIsNeverRefused, Wanted, Job
<1>10. CommandsAreNeverStale'
  <2>1. \A e \in job'.todo : ~(mark'[e][job'.id] > job'.rev)
      BY <1>1, <1>2, <1>6 DEF IInv, CommandsAreNeverStale, Outdated, Job
  <2>2. d \in Registered => job.rev <= revision
      BY DEF IInv, JobIsCurrent, Registered
  <2>3. Registered' = Registered /\ Registered \subseteq Debuggers
      BY DEF IInv, TypeOK, Registered
  <2>4. mark'[d][job.id] = job.rev
      BY DEF EngineBecomes
  <2>5. exists => \A e \in Registered, c \in Ids : mark'[e][c] <= revision
      BY <1>6, <2>2, <2>3, <2>4 DEF IInv, CommandsAreNeverStale
  <2> QED
      BY <1>1, <2>1, <2>3, <2>5 DEF CommandsAreNeverStale, Outdated
<1>11. LoopAgrees'
  <2> SUFFICES ASSUME NEW t \in Targets, NEW c \in Ids,
                      registered[t] # NoDebugger, live[registered[t]],
                      <<registered[t], c>> \notin failed' \cup skipped',
                      ~ToBeTold(registered[t], c)'
               PROVE  Agrees(registered[t], t, c)'
      BY DEF LoopAgrees
  <2> DEFINE e == registered[t]
  <2>1. e \in Debuggers
      BY DEF IInv, TypeOK
  <2>2. CASE e = d /\ c = job.id
    <3>1. target[d] = t
        BY <2>2 DEF IInv, RegisteredForItsTarget
    <3>2. intent[c] = job.want
        BY <2>2 DEF IInv, JobIsCurrent
    <3>3. held'[e][c] = s /\ owner'[e][c] = o
        BY <2>2 DEF EngineBecomes
    <3> QED
        BY <2>2, <3>1, <3>2, <3>3 DEF Agrees, Applies
  <2>3. CASE e # d \/ c # job.id
    <3>1. <<e, c>> \notin failed \cup skipped
        BY <2>3 DEF Served
    <3>2. ~ToBeTold(e, c)
        BY <1>1, <2>3 DEF ToBeTold
    <3>3. Agrees(e, t, c)
        BY <3>1, <3>2 DEF IInv, LoopAgrees
    <3> QED
        BY <1>6, <2>1, <2>3, <3>3 DEF Agrees, Applies
  <2> QED
      BY <2>2, <2>3
<1> QED
    BY <1>5, <1>7, <1>8, <1>9, <1>10, <1>11 DEF IInv

\* What the loop knows of the debugger that it turns to.
LEMMA LoopFacts ==
    ASSUME IInv, job.pc = "apply", NEW d \in job.todo
    PROVE  /\ job \in Job /\ d \in Debuggers /\ job.id \in Ids /\ job.rev \in 0..MaxRevision
           /\ job.want \in Intents \cup {NoIntent}
           /\ ~Outdated(d, job.id, job.rev)
           /\ Wanted(d) <=> target[d] \in job.want.scope
<1>1. job \in Job
    BY JobRecord DEF IInv, TypeOK
<1>2. job.op = "delete" => job.want.scope = {}
    BY DEF IInv, JobShape, NoIntent
<1> QED
    BY <1>1, <1>2 DEF IInv, JobShape, CommandsAreNeverStale, Wanted, Job

\* SetBreakpoints of a selected debugger agrees with the intent.
LEMMA ApplySetKeeps == ASSUME IInv, NEW d \in Debuggers, ApplySet(d) PROVE IInv'
<1>1. job.pc = "apply" /\ d \in job.todo
    BY DEF ApplySet
<1>2. /\ job \in Job /\ job.id \in Ids /\ job.rev \in 0..MaxRevision
      /\ job.want \in Intents \cup {NoIntent}
      /\ ~Outdated(d, job.id, job.rev)
      /\ target[d] \in job.want.scope
    BY <1>1, LoopFacts DEF ApplySet
<1>3. job.want.spec \in Specs \cup {NoSpec}
    BY <1>2 DEF Intents, NoIntent
<1>4. EngineBecomes(d, job.id, job.want.spec, "context", job.rev)
    BY <1>2, <1>3, InstallEffect DEF ApplySet, IInv
<1>5. live[d]
    BY DEF ApplySet, Installs
<1> QED
    BY <1>1, <1>2, <1>4, <1>5, ToldKeeps DEF ApplySet

\* RemoveBreakpoint of another one does, and leaves a logpoint of the target.
LEMMA ApplyRemoveKeeps == ASSUME IInv, NEW d \in Debuggers, ApplyRemove(d) PROVE IInv'
<1>1. job.pc = "apply" /\ d \in job.todo
    BY DEF ApplyRemove
<1>2. /\ job \in Job /\ job.id \in Ids /\ job.rev \in 0..MaxRevision
      /\ ~Outdated(d, job.id, job.rev)
      /\ target[d] \notin job.want.scope
    BY <1>1, LoopFacts DEF ApplyRemove
<1>3. IF owner[d][job.id] = "target"
      THEN EngineBecomes(d, job.id, held[d][job.id], "target", job.rev)
      ELSE EngineBecomes(d, job.id, NoSpec, "none", job.rev)
    BY <1>2, RemoveEffect DEF ApplyRemove, IInv
<1>4. live[d]
    BY DEF ApplyRemove, Removes
<1>5. CASE owner[d][job.id] = "target"
  <2>1. job.id \in LogIds
      BY <1>2, <1>5 DEF IInv, TargetsOwnLogIds
  <2> QED
      BY <1>1, <1>2, <1>3, <1>4, <1>5, <2>1, ToldKeeps DEF ApplyRemove
<1>6. CASE owner[d][job.id] # "target"
    BY <1>1, <1>2, <1>3, <1>4, <1>6, ToldKeeps DEF ApplyRemove
<1> QED
    BY <1>5, <1>6

\* A stopped debugger, over which put_breakpoint goes on, holds nothing.
LEMMA PutSkipsStoppedKeeps ==
    ASSUME IInv, NEW d \in Debuggers, PutSkipsStopped(d)
    PROVE  IInv'
<1> USE DEF contextVars, attachmentVars, engineVars, historyVars
<1>1. job \in Job /\ job.pc = "apply" /\ OnlyJobChanges
    BY JobRecord DEF PutSkipsStopped, IInv, TypeOK, OnlyJobChanges
<1>2. /\ job' \in Job /\ job'.pc = "apply" /\ job'.op = job.op
      /\ job'.id = job.id /\ job'.want = job.want /\ job'.rev = job.rev
      /\ job'.todo = job.todo \ {d}
    BY <1>1 DEF PutSkipsStopped, Job
<1>3. /\ TypeOK' /\ DeadAreFresh' /\ OpeningIsNowhere'
      /\ RegisteredForItsTarget' /\ TargetsOwnLogIds'
    BY <1>1, <1>2, JobFrame
<1> USE DEF OnlyJobChanges
<1>4. JobShape' /\ AskedOwnsNothing' /\ SeededOwnsNothing'
    BY <1>1, <1>2 DEF IInv, JobShape, AskedOwnsNothing, SeededOwnsNothing
<1>5. JobIsCurrent' /\ IntentIsNeverRefused'
    BY <1>1, <1>2 DEF IInv, JobIsCurrent, IntentIsNeverRefused, Wanted
<1>6. CommandsAreNeverStale'
    BY <1>1, <1>2 DEF IInv, CommandsAreNeverStale, Outdated, Registered
<1>7. LoopAgrees'
    BY <1>1, <1>2 DEF PutSkipsStopped, IInv, LoopAgrees, ToBeTold, Agrees, Applies
<1> QED
    BY <1>2, <1>3, <1>4, <1>5, <1>6, <1>7 DEF IInv

\* The handler gives up: it remembers that d failed and whom it left out.
LEMMA AbandonsKeeps ==
    ASSUME IInv, NEW d \in job.todo, job.pc = "apply",
           UNCHANGED <<contextVars, attachmentVars, live>>, Abandons(d, job.id),
           \/ UNCHANGED engineVars
           \/ live[d] /\ \E s : EngineBecomes(d, job.id, s, owner[d][job.id], mark[d][job.id])
    PROVE  IInv'
<1> USE DEF contextVars, attachmentVars
<1>1. job' = Free /\ job'.pc = "free" /\ job'.todo = {} /\ job \in Job
    BY JobRecord DEF Abandons, Free, IInv, TypeOK
<1>2. d \in Debuggers /\ job.id \in Ids /\ job.todo \subseteq Debuggers
    BY <1>1, LoopFacts DEF Job
<1>3. opening[d] = NoTarget
    BY <1>2 DEF IInv, OpeningIsNowhere
<1>4. failed' \subseteq Debuggers \X Ids /\ skipped' \subseteq Debuggers \X Ids
    BY <1>2 DEF Abandons, IInv, TypeOK
<1>5. /\ TypeOK' /\ DeadAreFresh' /\ OpeningIsNowhere'
      /\ RegisteredForItsTarget' /\ TargetsOwnLogIds'
  <2>1. CASE UNCHANGED engineVars
    <3> USE <2>1 DEF engineVars
    <3>1. TypeOK'
        BY <1>1, <1>4 DEF IInv, TypeOK
    <3>2. DeadAreFresh' /\ OpeningIsNowhere' /\ RegisteredForItsTarget' /\ TargetsOwnLogIds'
        BY <1>1 DEF IInv, DeadAreFresh, OpeningIsNowhere, Fresh, RegisteredForItsTarget,
                    TargetsOwnLogIds
    <3> QED
        BY <3>1, <3>2
  <2>2. CASE live[d] /\ \E s : EngineBecomes(d, job.id, s, owner[d][job.id], mark[d][job.id])
    <3>1. PICK s : EngineBecomes(d, job.id, s, owner[d][job.id], mark[d][job.id])
        BY <2>2
    <3>2. owner[d][job.id] = "target" => job.id \in LogIds
        BY <1>2 DEF IInv, TargetsOwnLogIds
    <3>3. job' \in Job \cup {Free} /\ job'.todo \subseteq job.todo
        BY <1>1
    <3> QED
        BY <1>2, <1>3, <1>4, <2>2, <3>1, <3>2, <3>3, CommandFrame
  <2> QED
      BY <2>1, <2>2
<1>6. \A e \in Debuggers, c \in Ids :
          /\ mark'[e][c] = mark[e][c] /\ owner'[e][c] = owner[e][c]
          /\ e # d \/ c # job.id => held'[e][c] = held[e][c]
          /\ held'[e][c] # held[e][c] => live[d]
    BY <1>2 DEF EngineBecomes, engineVars
<1>7. /\ JobShape' /\ AskedOwnsNothing' /\ JobIsCurrent' /\ SeededOwnsNothing'
      /\ IntentIsNeverRefused'
    BY <1>1 DEF JobShape, AskedOwnsNothing, JobIsCurrent, SeededOwnsNothing,
               IntentIsNeverRefused
<1>8. CommandsAreNeverStale'
  <2>1. Registered' = Registered /\ Registered \subseteq Debuggers
      BY DEF IInv, TypeOK, Registered
  <2> QED
      BY <1>1, <1>6, <2>1 DEF IInv, CommandsAreNeverStale
<1>9. LoopAgrees'
  <2> SUFFICES ASSUME NEW t \in Targets, NEW c \in Ids,
                      registered[t] # NoDebugger, live[registered[t]],
                      <<registered[t], c>> \notin failed' \cup skipped'
               PROVE  Agrees(registered[t], t, c)'
      BY DEF LoopAgrees
  <2> DEFINE e == registered[t]
  <2>1. e \in Debuggers /\ e \in Live
      BY DEF IInv, TypeOK, Live
  <2>2. <<e, c>> \notin failed \cup skipped
      BY DEF Abandons
  <2>3. ~(e \in job.todo /\ c = job.id)
      BY <2>1 DEF Abandons
  <2>4. ~ToBeTold(e, c)
      BY <2>3 DEF ToBeTold
  <2>5. Agrees(e, t, c)
      BY <2>2, <2>4 DEF IInv, LoopAgrees
  <2>6. e # d \/ c # job.id
      BY <2>3
  <2> QED
      BY <1>6, <2>1, <2>5, <2>6 DEF Agrees, Applies
<1> QED
    BY <1>5, <1>7, <1>8, <1>9 DEF IInv

\* put_breakpoint_spec, or put_breakpoint with a live debugger, stops at an error.
LEMMA SetFailsKeeps == ASSUME IInv, NEW d \in Debuggers, SetFails(d) PROVE IInv'
  BY AbandonsKeeps DEF SetFails

\* delete_breakpoint and put_breakpoint_spec stop at a removal that failed, after
\* the engine forgot the breakpoint or not.
LEMMA RemoveFailsKeeps == ASSUME IInv, NEW d \in Debuggers, RemoveFails(d) PROVE IInv'
<1>1. job.pc = "apply" /\ d \in job.todo
    BY DEF RemoveFails
<1>2. job.id \in Ids
    BY <1>1, LoopFacts
<1>3. CASE UNCHANGED engineVars
    BY <1>1, <1>3, AbandonsKeeps DEF RemoveFails
<1>4. CASE live[d] /\ SetHeld(d, job.id, NoSpec) /\ UNCHANGED <<owner, mark>>
  <2>1. owner[d][job.id] \in Owners /\ mark[d][job.id] \in 0..MaxRevision
      BY <1>2 DEF IInv, TypeOK
  <2>2. EngineBecomes(d, job.id, NoSpec, owner[d][job.id], mark[d][job.id])
      BY <1>2, <1>4, <2>1, TablesBecome DEF IInv
  <2> QED
      BY <1>1, <1>4, <2>2, AbandonsKeeps DEF RemoveFails
<1> QED
    BY <1>3, <1>4 DEF RemoveFails, RemovalFails

-----------------------------------------------------------------------------
(***************************************************************************)
(* Seeding, and the logpoints of a target.                                 *)
(***************************************************************************)
\* Each command of seed_attached_breakpoints installs what the context intends.
LEMMA SeedKeeps ==
    ASSUME IInv, NEW d \in Debuggers, NEW b \in Ids, Seed(d, b)
    PROVE  IInv'
<1> USE DEF contextVars, attachmentVars, historyVars
<1>1. job \in Job /\ job.pc = "seed" /\ d \in job.todo /\ b \in job.ids /\ live[d]
    BY JobRecord DEF Seed, Installs, IInv, TypeOK
<1>2. /\ job' \in Job /\ job'.pc = "seed" /\ job'.op = job.op
      /\ job'.id = job.id /\ job'.want = job.want /\ job'.rev = job.rev
      /\ job'.todo = job.todo /\ job'.ids = job.ids \ {b}
    BY <1>1 DEF Seed, Job
<1>3. EngineBecomes(d, b, intent[b].spec, "context", job.rev)
  <2>1. intent[b].spec \in Specs \cup {NoSpec}
      BY DEF IInv, TypeOK, Intents, NoIntent
  <2>2. ~Outdated(d, b, job.rev) /\ job.rev \in 0..MaxRevision
      BY <1>1 DEF IInv, CommandsAreNeverStale, Job
  <2> QED
      BY <2>1, <2>2, InstallEffect DEF Seed, IInv
<1>4. \A e \in Debuggers, c \in Ids :
          e # d \/ c # b => /\ held'[e][c] = held[e][c]
                            /\ owner'[e][c] = owner[e][c]
                            /\ mark'[e][c] = mark[e][c]
    BY <1>3 DEF EngineBecomes
<1>5. held'[d][b] = intent[b].spec /\ owner'[d][b] = "context" /\ mark'[d][b] = job.rev
    BY <1>3 DEF EngineBecomes
<1>6. /\ TypeOK' /\ DeadAreFresh' /\ OpeningIsNowhere'
      /\ RegisteredForItsTarget' /\ TargetsOwnLogIds'
  <2>1. opening[d] = NoTarget
      BY <1>1 DEF IInv, OpeningIsNowhere
  <2>2. failed' \subseteq Debuggers \X Ids /\ skipped' \subseteq Debuggers \X Ids
      BY DEF Seed, IInv, TypeOK
  <2>3. UNCHANGED <<contextVars, attachmentVars, live>>
      BY DEF Seed
  <2>4. job' \in Job \cup {Free} /\ job'.todo \subseteq job.todo
      BY <1>2
  <2> QED
      BY <1>1, <1>3, <2>1, <2>2, <2>3, <2>4, CommandFrame
<1>7. JobShape' /\ AskedOwnsNothing'
    BY <1>1, <1>2 DEF IInv, JobShape, AskedOwnsNothing
<1>8. JobIsCurrent'
    BY <1>1, <1>2 DEF Seed, IInv, JobIsCurrent, Applies
<1>9. SeededOwnsNothing' /\ IntentIsNeverRefused'
  <2>1. \A e \in job.todo, c \in Ids : owner'[e][c] # "target"
      BY <1>1, <1>4, <1>5 DEF IInv, SeededOwnsNothing, Job
  <2> QED
      BY <1>1, <1>2, <2>1 DEF SeededOwnsNothing, IntentIsNeverRefused, Job
<1>10. CommandsAreNeverStale'
  <2>1. \A e \in job'.todo, c \in job'.ids : ~(mark'[e][c] > job'.rev)
      BY <1>1, <1>2, <1>4 DEF IInv, CommandsAreNeverStale, Outdated, Job
  <2>2. d \in Registered => job.rev <= revision
      BY <1>1 DEF IInv, JobIsCurrent, Registered
  <2>3. Registered' = Registered /\ Registered \subseteq Debuggers
      BY DEF Seed, IInv, TypeOK, Registered
  <2>4. exists => \A e \in Registered, c \in Ids : mark'[e][c] <= revision
      BY <1>4, <1>5, <2>2, <2>3 DEF IInv, CommandsAreNeverStale
  <2> QED
      BY <1>2, <2>1, <2>3, <2>4 DEF Seed, CommandsAreNeverStale, Outdated
<1>11. LoopAgrees'
  <2> SUFFICES ASSUME NEW t \in Targets, NEW c \in Ids,
                      registered[t] # NoDebugger, live[registered[t]],
                      <<registered[t], c>> \notin failed \cup skipped,
                      ~ToBeTold(registered[t], c)'
               PROVE  Agrees(registered[t], t, c)'
      BY DEF LoopAgrees, Seed
  <2> DEFINE e == registered[t]
  <2>1. e \in Debuggers
      BY DEF IInv, TypeOK
  <2>2. CASE e = d /\ c = b
    <3>1. Applies(b, t)
        BY <1>1, <2>2 DEF IInv, JobIsCurrent
    <3> QED
        BY <1>5, <2>2, <3>1 DEF Seed, Agrees, Applies
  <2>3. CASE e # d \/ c # b
    <3>1. ~ToBeTold(e, c)
      <4>1. e # d => e \notin job.todo
          BY <1>1 DEF IInv, JobShape
      <4>2. registered' = registered
          BY DEF Seed
      <4> QED
          BY <1>1, <1>2, <2>3, <4>1, <4>2 DEF ToBeTold
    <3>2. Agrees(e, t, c)
        BY <3>1 DEF IInv, LoopAgrees
    <3> QED
        BY <1>4, <2>1, <2>3, <3>2 DEF Seed, Agrees, Applies
  <2> QED
      BY <2>2, <2>3
<1> QED
    BY <1>2, <1>6, <1>7, <1>8, <1>9, <1>10, <1>11 DEF IInv

\* A logpoint that the debugger accepts has an id which does not apply there.
LEMMA LogpointInstallsKeeps ==
    ASSUME IInv, NEW d \in Debuggers, LogpointInstalls(d)
    PROVE  IInv'
<1> USE DEF contextVars, attachmentVars, historyVars
<1>1. /\ job \in Job /\ job.pc = "logpoint" /\ d \in job.todo /\ live[d]
      /\ job.id \in LogIds /\ job.id \in Ids /\ job.want.spec \in Specs
      /\ owner[d][job.id] # "context"
    BY JobRecord, IdAssumption DEF LogpointInstalls, IInv, TypeOK, JobShape
<1>2. job' = Free /\ job'.pc = "free" /\ job'.todo = {}
    BY DEF LogpointInstalls, Free
<1>3. EngineBecomes(d, job.id, job.want.spec, "target", mark[d][job.id])
  <2>1. mark[d][job.id] \in 0..MaxRevision /\ "target" \in Owners
      BY <1>1 DEF IInv, TypeOK, Owners
  <2> QED
      BY <1>1, <2>1, TablesBecome DEF LogpointInstalls, IInv
<1>4. \A e \in Debuggers, c \in Ids :
          /\ mark'[e][c] = mark[e][c]
          /\ e # d \/ c # job.id => held'[e][c] = held[e][c] /\ owner'[e][c] = owner[e][c]
    BY <1>3 DEF EngineBecomes
<1>5. /\ TypeOK' /\ DeadAreFresh' /\ OpeningIsNowhere'
      /\ RegisteredForItsTarget' /\ TargetsOwnLogIds'
  <2>1. opening[d] = NoTarget
      BY <1>1 DEF IInv, OpeningIsNowhere
  <2>2. failed' \subseteq Debuggers \X Ids /\ skipped' \subseteq Debuggers \X Ids
      BY DEF LogpointInstalls, IInv, TypeOK
  <2> QED
      BY <1>1, <1>2, <1>3, <2>1, <2>2, CommandFrame DEF LogpointInstalls
<1>6. /\ JobShape' /\ AskedOwnsNothing' /\ JobIsCurrent' /\ SeededOwnsNothing'
      /\ IntentIsNeverRefused'
    BY <1>2 DEF JobShape, AskedOwnsNothing, JobIsCurrent, SeededOwnsNothing,
               IntentIsNeverRefused
<1>7. CommandsAreNeverStale'
  <2>1. Registered' = Registered /\ Registered \subseteq Debuggers
      BY DEF LogpointInstalls, IInv, TypeOK, Registered
  <2> QED
      BY <1>2, <1>4, <2>1 DEF LogpointInstalls, IInv, CommandsAreNeverStale
<1>8. LoopAgrees'
  <2> SUFFICES ASSUME NEW t \in Targets, NEW c \in Ids,
                      registered[t] # NoDebugger, live[registered[t]],
                      <<registered[t], c>> \notin failed \cup skipped
               PROVE  Agrees(registered[t], t, c)'
      BY DEF LoopAgrees, LogpointInstalls
  <2> DEFINE e == registered[t]
  <2>1. e \in Debuggers
      BY DEF IInv, TypeOK
  <2>2. Agrees(e, t, c)
      BY <1>1 DEF IInv, LoopAgrees, ToBeTold
  <2>3. e = d /\ c = job.id => owner'[e][c] = "target" /\ ~Applies(c, t)
      BY <1>1, <1>3, <2>2 DEF EngineBecomes, Agrees
  <2> QED
      BY <1>4, <2>1, <2>2, <2>3 DEF LogpointInstalls, Agrees, Applies
<1> QED
    BY <1>5, <1>6, <1>7, <1>8 DEF IInv

\* remove_logpoint runs beside the holder of the lock, on ids that do not apply.
LEMMA RemoveLogpointKeeps ==
    ASSUME IInv, NEW d \in Debuggers, NEW b \in LogIds, RemoveLogpoint(d, b)
    PROVE  IInv'
<1> USE DEF contextVars, attachmentVars, historyVars
<1>1. b \in Ids /\ d \in Registered /\ live[d] /\ owner[d][b] = "target"
    BY IdAssumption DEF RemoveLogpoint
<1>2. PICK o \in {"none", "target"} : EngineBecomes(d, b, NoSpec, o, mark[d][b])
  <2>1. mark[d][b] \in 0..MaxRevision /\ "target" \in Owners /\ "none" \in Owners
      BY <1>1 DEF IInv, TypeOK, Owners
  <2>2. mark' = mark /\ SetHeld(d, b, NoSpec)
      BY DEF RemoveLogpoint
  <2>3. CASE SetOwner(d, b, "none")
      BY <1>1, <2>1, <2>2, <2>3, TablesBecome DEF IInv
  <2>4. CASE UNCHANGED owner
      BY <1>1, <2>1, <2>2, <2>4, TablesBecome DEF IInv
  <2> QED
      BY <2>3, <2>4 DEF RemoveLogpoint
<1>3. \A e \in Debuggers, c \in Ids :
          /\ mark'[e][c] = mark[e][c]
          /\ e # d \/ c # b => held'[e][c] = held[e][c] /\ owner'[e][c] = owner[e][c]
          /\ owner'[e][c] = "target" => owner[e][c] = "target"
    BY <1>1, <1>2 DEF EngineBecomes
<1>4. /\ TypeOK' /\ DeadAreFresh' /\ OpeningIsNowhere'
      /\ RegisteredForItsTarget' /\ TargetsOwnLogIds'
  <2>1. opening[d] = NoTarget
      BY <1>1 DEF IInv, OpeningIsNowhere, Registered
  <2>2. failed' \subseteq Debuggers \X Ids /\ skipped' \subseteq Debuggers \X Ids
      BY DEF RemoveLogpoint, IInv, TypeOK
  <2>3. job' \in Job \cup {Free} /\ job'.todo \subseteq job.todo
      BY DEF RemoveLogpoint, IInv, TypeOK
  <2> QED
      BY <1>1, <1>2, <2>1, <2>2, <2>3, CommandFrame DEF RemoveLogpoint
<1>5. JobShape' /\ JobIsCurrent'
    BY DEF RemoveLogpoint, IInv, JobShape, JobIsCurrent, Applies
<1>6. /\ job.todo \subseteq Debuggers /\ job.ids \subseteq Ids
      /\ job.pc \in {"check", "apply"} => job.id \in Ids
    BY DEF IInv, TypeOK, Job, Free, JobShape
<1>7. SeededOwnsNothing' /\ IntentIsNeverRefused'
    BY <1>3, <1>6 DEF RemoveLogpoint, IInv, SeededOwnsNothing, IntentIsNeverRefused, Wanted
<1>8. AskedOwnsNothing'
  <2>1. job.pc = "check" => job.want.scope \subseteq Targets
      BY ScopesAreTargets DEF IInv, JobShape
  <2>2. \A t \in Targets : registered[t] \in Debuggers \cup {NoDebugger}
      BY DEF IInv, TypeOK
  <2> QED
      BY <1>3, <1>6, <2>1, <2>2 DEF RemoveLogpoint, IInv, AskedOwnsNothing
<1>9. CommandsAreNeverStale'
  <2>1. Registered' = Registered /\ Registered \subseteq Debuggers
      BY DEF RemoveLogpoint, IInv, TypeOK, Registered
  <2>2. \A e \in job.todo : job.pc = "apply" => ~(mark'[e][job.id] > job.rev)
      BY <1>3, <1>6 DEF IInv, CommandsAreNeverStale, Outdated
  <2>3. \A e \in job.todo, c \in job.ids : job.pc = "seed" => ~(mark'[e][c] > job.rev)
      BY <1>3, <1>6 DEF IInv, CommandsAreNeverStale, Outdated
  <2>4. exists => \A e \in Registered, c \in Ids : mark'[e][c] <= revision
      BY <1>3, <2>1 DEF IInv, CommandsAreNeverStale
  <2> QED
      BY <2>1, <2>2, <2>3, <2>4 DEF RemoveLogpoint, CommandsAreNeverStale, Outdated
<1>10. LoopAgrees'
  <2> SUFFICES ASSUME NEW t \in Targets, NEW c \in Ids,
                      registered[t] # NoDebugger, live[registered[t]],
                      <<registered[t], c>> \notin failed \cup skipped,
                      ~ToBeTold(registered[t], c)
               PROVE  Agrees(registered[t], t, c)'
      BY DEF LoopAgrees, RemoveLogpoint, ToBeTold
  <2> DEFINE e == registered[t]
  <2>1. e \in Debuggers
      BY DEF IInv, TypeOK
  <2>2. Agrees(e, t, c)
      BY DEF IInv, LoopAgrees
  <2>3. CASE e = d /\ c = b
    <3>1. ~Applies(c, t)
        BY <1>1, <2>2, <2>3 DEF Agrees
    <3>2. UNCHANGED <<intent, registered>>
        BY DEF RemoveLogpoint
    <3>3. held'[e][c] = NoSpec /\ owner'[e][c] \in {"none", "target"}
        BY <1>2, <2>3 DEF EngineBecomes
    <3> QED
        BY <3>1, <3>2, <3>3 DEF Agrees, Applies
  <2>4. CASE e # d \/ c # b
      BY <1>3, <2>1, <2>2, <2>4 DEF RemoveLogpoint, Agrees, Applies
  <2> QED
      BY <2>3, <2>4
<1> QED
    BY <1>4, <1>5, <1>7, <1>8, <1>9, <1>10 DEF IInv

-----------------------------------------------------------------------------
(***************************************************************************)
(* The death of an actor.                                                  *)
(***************************************************************************)
\* What d held is gone, and what the others hold is not touched.
EndsBecomes(d) ==
    /\ ~live'[d]
    /\ \A b \in Ids : held'[d][b] = NoSpec /\ owner'[d][b] = "none" /\ mark'[d][b] = 0
    /\ \A f \in failed' \cup skipped' : f[1] # d
    /\ \A e \in Debuggers :
          e # d => /\ live'[e] = live[e] /\ held'[e] = held[e]
                   /\ owner'[e] = owner[e] /\ mark'[e] = mark[e]
                   /\ \A b \in Ids : <<e, b>> \in failed' \cup skipped'
                                        <=> <<e, b>> \in failed \cup skipped

\* The engine, the ownership and the history of a debugger end with its actor.
LEMMA EndsEffect ==
    ASSUME TypeOK, NEW d \in Debuggers, Ends(d)
    PROVE  /\ live' \in [Debuggers -> BOOLEAN]
           /\ held' \in [Debuggers -> [Ids -> Specs \cup {NoSpec}]]
           /\ owner' \in [Debuggers -> [Ids -> Owners]]
           /\ mark' \in [Debuggers -> [Ids -> 0..MaxRevision]]
           /\ failed' \subseteq Debuggers \X Ids /\ skipped' \subseteq Debuggers \X Ids
           /\ EndsBecomes(d)
<1> USE DEF Ends
<1>1. live' \in [Debuggers -> BOOLEAN]
    BY DEF TypeOK
<1>2. held' \in [Debuggers -> [Ids -> Specs \cup {NoSpec}]]
    BY DEF TypeOK
<1>3. owner' \in [Debuggers -> [Ids -> Owners]]
    BY DEF TypeOK, Owners
<1>4. mark' \in [Debuggers -> [Ids -> 0..MaxRevision]]
  <2>1. [b \in Ids |-> 0] \in [Ids -> 0..MaxRevision]
      BY RevisionAssumption
  <2> QED
      BY <2>1 DEF TypeOK
<1>5. failed' \subseteq Debuggers \X Ids /\ skipped' \subseteq Debuggers \X Ids
    BY DEF TypeOK
<1>6. ~live'[d]
    BY DEF TypeOK
<1>7. \A b \in Ids : held'[d][b] = NoSpec /\ owner'[d][b] = "none" /\ mark'[d][b] = 0
    BY DEF TypeOK
<1>8. \A f \in failed' \cup skipped' : f[1] # d
    OBVIOUS
<1>9. \A e \in Debuggers :
          e # d => /\ live'[e] = live[e] /\ held'[e] = held[e]
                   /\ owner'[e] = owner[e] /\ mark'[e] = mark[e]
    BY DEF TypeOK
<1>10. \A e \in Debuggers, b \in Ids :
          e # d => (<<e, b>> \in failed' \cup skipped' <=> <<e, b>> \in failed \cup skipped)
    OBVIOUS
<1> QED
    BY <1>1, <1>2, <1>3, <1>4, <1>5, <1>6, <1>7, <1>8, <1>9, <1>10 DEF EndsBecomes

\* A debugger ends: its attachment may be given up with it, and it may leave
\* its registration.
LEMMA EndsKeeps ==
    ASSUME IInv, NEW d \in Debuggers, Ends(d), UNCHANGED <<contextVars, target>>,
           registered' \in [Targets -> Debuggers \cup {NoDebugger}],
           \A t \in Targets : registered'[t] \in {registered[t], NoDebugger},
           opening' \in [Debuggers -> Targets \cup {NoTarget}],
           \A e \in Debuggers : opening'[e] = opening[e] \/ (e = d /\ opening'[e] = NoTarget),
           stale' = {e \in stale : opening'[e] # NoTarget},
           \/ job' = job
           \/ job' = Free /\ job.pc = "seed" /\ d \in job.todo
    PROVE  IInv'
<1> USE DEF contextVars
<1>1. /\ live' \in [Debuggers -> BOOLEAN]
      /\ held' \in [Debuggers -> [Ids -> Specs \cup {NoSpec}]]
      /\ owner' \in [Debuggers -> [Ids -> Owners]]
      /\ mark' \in [Debuggers -> [Ids -> 0..MaxRevision]]
      /\ failed' \subseteq Debuggers \X Ids /\ skipped' \subseteq Debuggers \X Ids
      /\ EndsBecomes(d)
    BY EndsEffect DEF IInv
<1>2. TypeOK'
    BY <1>1 DEF IInv, TypeOK
<1>3. \A e \in Debuggers : IF e = d THEN Fresh(e)' ELSE Fresh(e)' <=> Fresh(e)
    BY <1>1 DEF EndsBecomes, Fresh
<1>4. DeadAreFresh'
    BY <1>1, <1>3 DEF IInv, DeadAreFresh, EndsBecomes
<1>5. job' = job \/ (job' = Free /\ job'.pc = "free" /\ job'.todo = {})
    BY DEF Free
<1>6. OpeningIsNowhere'
    BY <1>3, <1>5, NullAssumption DEF IInv, OpeningIsNowhere
<1>7. RegisteredForItsTarget'
    BY DEF IInv, RegisteredForItsTarget
<1>8. \A e \in Debuggers, b \in Ids : owner'[e][b] = "target" => owner[e][b] = "target"
    BY <1>1 DEF EndsBecomes
<1>9. TargetsOwnLogIds'
    BY <1>8 DEF IInv, TargetsOwnLogIds
<1>10. /\ job.todo \subseteq Debuggers /\ job.ids \subseteq Ids
       /\ job.pc \in {"check", "apply"} => job.id \in Ids
    BY DEF IInv, TypeOK, Job, Free, JobShape
<1>11. JobShape'
    BY <1>5 DEF IInv, JobShape
<1>12. JobIsCurrent'
  <2>1. NoDebugger \notin job.todo
      BY <1>10, NullAssumption
  <2> QED
      BY <1>5, <2>1 DEF IInv, JobIsCurrent, Applies
<1>13. SeededOwnsNothing' /\ IntentIsNeverRefused'
    BY <1>5, <1>8, <1>10 DEF IInv, SeededOwnsNothing, IntentIsNeverRefused, Wanted
<1>14. AskedOwnsNothing'
  <2>1. job.pc = "check" => job.want.scope \subseteq Targets
      BY ScopesAreTargets DEF IInv, JobShape
  <2>2. \A t \in Targets : registered[t] \in Debuggers \cup {NoDebugger}
      BY DEF IInv, TypeOK
  <2> QED
      BY <1>5, <1>8, <1>10, <2>1, <2>2 DEF IInv, AskedOwnsNothing
<1>15. CommandsAreNeverStale'
  <2>1. Registered' \subseteq Registered /\ Registered \subseteq Debuggers
      BY DEF IInv, TypeOK, Registered
  <2>2. job.pc \in {"apply", "seed"} => job.rev \in Nat
      BY RevisionAssumption, JobRecord DEF IInv, TypeOK, Job
  <2>3. revision \in Nat
      BY RevisionAssumption DEF IInv, TypeOK
  <2>4. \A e \in job'.todo : job'.pc = "apply" => ~(mark'[e][job'.id] > job'.rev)
      BY <1>1, <1>5, <1>10, <2>2 DEF IInv, CommandsAreNeverStale, Outdated, EndsBecomes
  <2>5. \A e \in job'.todo, c \in job'.ids : job'.pc = "seed" => ~(mark'[e][c] > job'.rev)
      BY <1>1, <1>5, <1>10, <2>2 DEF IInv, CommandsAreNeverStale, Outdated, EndsBecomes
  <2>6. exists => \A e \in Registered, c \in Ids : mark'[e][c] <= revision
      BY <1>1, <2>1, <2>3 DEF IInv, CommandsAreNeverStale, EndsBecomes
  <2> QED
      BY <2>1, <2>4, <2>5, <2>6 DEF CommandsAreNeverStale, Outdated
<1>16. LoopAgrees'
  <2> SUFFICES ASSUME NEW t \in Targets, NEW c \in Ids,
                      registered'[t] # NoDebugger, live'[registered'[t]],
                      <<registered'[t], c>> \notin failed' \cup skipped',
                      ~ToBeTold(registered[t], c)'
               PROVE  Agrees(registered[t], t, c)'
      BY DEF LoopAgrees
  <2> DEFINE e == registered[t]
  <2>1. e \in Debuggers /\ e # d /\ registered'[t] = e
      BY <1>1 DEF IInv, TypeOK, EndsBecomes
  <2>2. live[e] /\ <<e, c>> \notin failed \cup skipped
      BY <1>1, <2>1 DEF EndsBecomes
  <2>3. ~ToBeTold(e, c)
      BY <1>5, <2>1 DEF ToBeTold, IInv, JobShape
  <2>4. Agrees(e, t, c)
      BY <2>1, <2>2, <2>3 DEF IInv, LoopAgrees
  <2>5. held'[e] = held[e] /\ owner'[e] = owner[e]
      BY <1>1, <2>1 DEF EndsBecomes
  <2> QED
      BY <2>1, <2>4, <2>5 DEF Agrees, Applies
<1> QED
    BY <1>2, <1>4, <1>6, <1>7, <1>9, <1>11, <1>12, <1>13, <1>14, <1>15, <1>16 DEF IInv

\* An actor that ends by itself stays registered.
LEMMA DebuggerStopsKeeps == ASSUME IInv, NEW d \in Debuggers, DebuggerStops(d) PROVE IInv'
  BY EndsKeeps DEF DebuggerStops, attachmentVars, IInv, TypeOK

\* An attachment that fails on its way was known to nobody else.
LEMMA AttachFailsKeeps == ASSUME IInv, NEW d \in Debuggers, AttachFails(d) PROVE IInv'
<1>1. stale' = {e \in stale : opening'[e] # NoTarget}
    BY DEF AttachFails, IInv, TypeOK
<1>2. /\ opening' \in [Debuggers -> Targets \cup {NoTarget}]
      /\ \A e \in Debuggers : opening'[e] = opening[e] \/ (e = d /\ opening'[e] = NoTarget)
    BY DEF AttachFails, IInv, TypeOK
<1> QED
    BY <1>1, <1>2, EndsKeeps DEF AttachFails, IInv, TypeOK

\* So was one that is refused under the lock.
LEMMA AttachIsRefusedKeeps ==
    ASSUME IInv, NEW d \in Debuggers, AttachIsRefused(d)
    PROVE  IInv'
<1>1. stale' = {e \in stale : opening'[e] # NoTarget}
    BY DEF AttachIsRefused, IInv, TypeOK
<1>2. /\ opening' \in [Debuggers -> Targets \cup {NoTarget}]
      /\ \A e \in Debuggers : opening'[e] = opening[e] \/ (e = d /\ opening'[e] = NoTarget)
    BY DEF AttachIsRefused, IInv, TypeOK
<1> QED
    BY <1>1, <1>2, EndsKeeps DEF AttachIsRefused, IInv, TypeOK

\* A debugger that could not be seeded leaves its registration, if it is still there.
LEMMA SeedFailsKeeps == ASSUME IInv, NEW d \in Debuggers, SeedFails(d) PROVE IInv'
<1>1. /\ registered' \in [Targets -> Debuggers \cup {NoDebugger}]
      /\ \A t \in Targets : registered'[t] \in {registered[t], NoDebugger}
    BY DEF SeedFails, IInv, TypeOK
<1>2. stale' = {e \in stale : opening'[e] # NoTarget}
    BY DEF SeedFails, IInv, TypeOK
<1> QED
    BY <1>1, <1>2, EndsKeeps DEF SeedFails, IInv, TypeOK

-----------------------------------------------------------------------------
(***************************************************************************)
(* A handler changes the intent, or begins to seed.                        *)
(***************************************************************************)
\* The context intends something else for one id, and every registered debugger
\* is to be told.
LEMMA CommitKeeps ==
    ASSUME IInv, NEW b \in Ids, NEW w \in Intents \cup {NoIntent}, exists,
           job.pc \notin {"apply", "seed"},
           UNCHANGED <<exists, attachmentVars, live, engineVars, historyVars>>,
           revision' \in 1..MaxRevision, revision <= revision',
           intent' = [intent EXCEPT ![b] = w],
           job' \in Job, job'.pc = "apply", job'.id = b, job'.want = w,
           job'.rev = revision', job'.todo = Registered, JobShape',
           \A d \in Registered : Wanted(d)' => owner[d][b] # "target"
    PROVE  IInv'
<1> USE DEF attachmentVars, engineVars, historyVars
<1>1. TypeOK'
    BY DEF IInv, TypeOK
<1>2. DeadAreFresh' /\ OpeningIsNowhere' /\ RegisteredForItsTarget' /\ TargetsOwnLogIds'
    BY DEF IInv, DeadAreFresh, OpeningIsNowhere, Fresh, Registered, RegisteredForItsTarget,
           TargetsOwnLogIds
<1>3. AskedOwnsNothing' /\ SeededOwnsNothing' /\ IntentIsNeverRefused'
    BY DEF AskedOwnsNothing, SeededOwnsNothing, IntentIsNeverRefused
<1>4. revision \in Nat /\ revision' \in Nat
    BY RevisionAssumption DEF IInv, TypeOK
<1>5. JobIsCurrent'
    BY <1>4 DEF JobIsCurrent, IInv, TypeOK
<1>6. CommandsAreNeverStale'
  <2>1. Registered' = Registered /\ Registered \subseteq Debuggers
      BY DEF IInv, TypeOK, Registered
  <2>2. \A d \in Registered, c \in Ids : mark[d][c] \in Nat
      BY <2>1, RevisionAssumption DEF IInv, TypeOK
  <2>3. \A d \in Registered, c \in Ids : mark[d][c] <= revision'
      BY <1>4, <2>2 DEF IInv, CommandsAreNeverStale
  <2> QED
      BY <1>4, <2>1, <2>2, <2>3 DEF CommandsAreNeverStale, Outdated
<1>7. LoopAgrees'
  <2> SUFFICES ASSUME NEW t \in Targets, NEW c \in Ids,
                      registered[t] # NoDebugger, live[registered[t]],
                      <<registered[t], c>> \notin failed \cup skipped,
                      ~ToBeTold(registered[t], c)'
               PROVE  Agrees(registered[t], t, c)'
      BY DEF LoopAgrees
  <2>1. registered[t] \in Registered
      BY DEF Registered
  <2>2. c # b
      BY <2>1 DEF ToBeTold
  <2>3. Agrees(registered[t], t, c)
      BY DEF IInv, LoopAgrees, ToBeTold
  <2>4. intent'[c] = intent[c]
      BY <2>2 DEF IInv, TypeOK
  <2> QED
      BY <2>3, <2>4 DEF Agrees, Applies
<1> QED
    BY <1>1, <1>2, <1>3, <1>5, <1>6, <1>7 DEF IInv

\* The section of put_breakpoint: who owns a logpoint of the id was asked before.
LEMMA PutCommitsKeeps == IInv /\ PutCommits => IInv'
<1> SUFFICES ASSUME IInv, PutCommits PROVE IInv'
    OBVIOUS
<1>1. /\ job \in Job /\ job.pc = "check" /\ job.todo = {} /\ job.op \in {"put", "putSpec"}
      /\ job.id \in Ids /\ job.want \in Intents
    BY JobRecord DEF PutCommits, IInv, TypeOK, JobShape
<1>2. revision' \in 1..MaxRevision /\ revision <= revision' /\ revision' = revision + 1
    BY RevisionAssumption DEF PutCommits, IInv, TypeOK
<1>3. Registered \subseteq Debuggers
    BY DEF IInv, TypeOK, Registered
<1>4. /\ job' \in Job /\ job'.pc = "apply" /\ job'.op = job.op /\ job'.id = job.id
      /\ job'.want = job.want /\ job'.rev = revision' /\ job'.todo = Registered
  <2> DEFINE changed == IF Registered = {} THEN {} ELSE {job.id}
  <2>1. job' = [job EXCEPT !.pc = "apply", !.rev = revision', !.todo = Registered,
                           !.changed = changed]
      BY <1>2 DEF PutCommits
  <2>2. changed \subseteq Ids /\ revision' \in 0..MaxRevision
      BY <1>1, <1>2
  <2> HIDE DEF changed
  <2> QED
      BY <1>1, <1>3, <2>1, <2>2 DEF Job
<1>5. JobShape'
    BY <1>1, <1>4 DEF JobShape
<1>6. \A d \in Registered : Wanted(d)' => owner[d][job.id] # "target"
  <2> SUFFICES ASSUME NEW d \in Registered, Wanted(d)'
               PROVE  owner[d][job.id] # "target"
      OBVIOUS
  <2>1. PICK t \in Targets : registered[t] = d /\ d # NoDebugger
      BY DEF Registered
  <2>2. target'[d] = t
      BY <2>1 DEF PutCommits, attachmentVars, IInv, RegisteredForItsTarget
  <2>3. t \in job.want.scope
      BY <1>4, <2>2 DEF Wanted
  <2> QED
      BY <1>1, <2>1, <2>3 DEF IInv, AskedOwnsNothing
<1> QED
    BY <1>1, <1>2, <1>4, <1>5, <1>6, CommitKeeps DEF PutCommits

\* The section of delete_breakpoint, which installs nothing.
LEMMA DeleteKeeps == ASSUME IInv, NEW b \in Ids, Delete(b) PROVE IInv'
<1>1. job = Free /\ job.pc = "free"
    BY DEF Delete, Free
<1>2. revision' \in 1..MaxRevision /\ revision <= revision'
    BY RevisionAssumption DEF Delete, IInv, TypeOK
<1>3. Registered \subseteq Debuggers
    BY DEF IInv, TypeOK, Registered
<1>4. job' = [op |-> "delete", pc |-> "apply", id |-> b, want |-> NoIntent,
              rev |-> revision', todo |-> Registered, ids |-> {}, changed |-> {}]
    BY DEF Delete, Free
<1>5. job' \in Job
  <2>1. revision' \in 0..MaxRevision
      BY <1>2
  <2> QED
      BY <1>3, <1>4, <2>1 DEF Job, Ops
<1>6. JobShape'
    BY <1>4 DEF JobShape
<1>7. \A d \in Registered : ~Wanted(d)'
    BY <1>4 DEF Wanted
<1>8. /\ job'.pc = "apply" /\ job'.id = b /\ job'.want = NoIntent
      /\ job'.rev = revision' /\ job'.todo = Registered
    BY <1>4
<1>9. /\ exists /\ intent' = [intent EXCEPT ![b] = NoIntent]
      /\ UNCHANGED <<exists, attachmentVars, live, engineVars, historyVars>>
    BY DEF Delete
<1> QED
    BY <1>1, <1>2, <1>5, <1>6, <1>7, <1>8, <1>9, CommitKeeps

\* A forced attachment first takes the registration away from the old debugger.
LEMMA AttachBeginsKeeps ==
    ASSUME IInv, NEW t \in Targets, NEW d \in Debuggers, AttachBegins(t, d)
    PROVE  IInv'
<1> USE DEF contextVars, engineVars, historyVars
<1>1. /\ exists /\ d \notin Registered /\ opening[d] = NoTarget /\ d \notin job.todo
      /\ ~live[d] /\ \A s \in Targets : registered[s] # d
    BY NullAssumption DEF AttachBegins, InUse, Registered
<1>2. /\ \A s \in Targets : registered'[s] \in {registered[s], NoDebugger}
      /\ registered' \in [Targets -> Debuggers \cup {NoDebugger}]
    BY DEF AttachBegins, IInv, TypeOK
<1>3. /\ opening' = [opening EXCEPT ![d] = t] /\ target' = [target EXCEPT ![d] = t]
      /\ live' = [live EXCEPT ![d] = TRUE]
      /\ UNCHANGED <<contextVars, stale, job, engineVars, historyVars>>
    BY DEF AttachBegins
<1>4. TypeOK'
    BY <1>2, <1>3, NullAssumption DEF IInv, TypeOK
<1>5. /\ opening'[d] = t /\ target'[d] = t /\ Fresh(d)
      /\ \A e \in Debuggers : e # d => /\ opening'[e] = opening[e]
                                       /\ target'[e] = target[e] /\ live'[e] = live[e]
    BY <1>1, <1>3 DEF IInv, TypeOK, DeadAreFresh
<1>6. \A e \in Debuggers : Fresh(e)' <=> Fresh(e)
    BY <1>3 DEF Fresh
<1>7. DeadAreFresh'
    BY <1>5, <1>6 DEF IInv, DeadAreFresh
<1>8. OpeningIsNowhere'
    BY <1>1, <1>2, <1>3, <1>5, <1>6, NullAssumption DEF IInv, OpeningIsNowhere
<1>9. RegisteredForItsTarget'
    BY <1>1, <1>2, <1>3, <1>5 DEF IInv, TypeOK, RegisteredForItsTarget
<1>10. job.todo \subseteq Debuggers /\ NoDebugger \notin job.todo
    BY NullAssumption DEF IInv, TypeOK, Job, Free
<1>11. TargetsOwnLogIds' /\ JobShape' /\ SeededOwnsNothing'
    BY <1>3 DEF IInv, TargetsOwnLogIds, JobShape, SeededOwnsNothing
<1>12. IntentIsNeverRefused'
    BY <1>1, <1>3, <1>5, <1>10 DEF IInv, IntentIsNeverRefused, Wanted
<1>13. AskedOwnsNothing'
  <2>1. job.pc = "check" => job.want.scope \subseteq Targets
      BY ScopesAreTargets DEF IInv, JobShape
  <2> QED
      BY <1>2, <1>3, <2>1 DEF IInv, AskedOwnsNothing
<1>14. JobIsCurrent'
    BY <1>2, <1>3, <1>10 DEF IInv, JobIsCurrent, Applies
<1>15. CommandsAreNeverStale'
  <2>1. Registered' \subseteq Registered
      BY <1>2 DEF Registered
  <2> QED
      BY <1>3, <2>1 DEF IInv, CommandsAreNeverStale, Outdated
<1>16. LoopAgrees'
  <2>1. \A s \in Targets : registered'[s] # NoDebugger =>
            /\ registered'[s] = registered[s] /\ registered[s] # d
            /\ registered[s] \in Debuggers
      BY <1>1, <1>2 DEF IInv, TypeOK
  <2> QED
      BY <1>3, <1>5, <2>1 DEF IInv, LoopAgrees, ToBeTold, Agrees, Applies
<1> QED
    BY <1>4, <1>7, <1>8, <1>9, <1>11, <1>12, <1>13, <1>14, <1>15, <1>16 DEF IInv

\* A debugger is registered empty, and all that applies there is to be seeded.
LEMMA AttachRegistersKeeps ==
    ASSUME IInv, NEW d \in Debuggers, AttachRegisters(d)
    PROVE  IInv'
<1> USE DEF contextVars, engineVars, historyVars
<1> DEFINE t == opening[d]
           seeds == {b \in Ids : Applies(b, t)}
<1>1. /\ t \in Targets /\ job = Free /\ d \notin stale /\ exists /\ Fresh(d) /\ target[d] = t
      /\ \A s \in Targets : registered[s] # d
    BY DEF AttachRegisters, IInv, TypeOK, OpeningIsNowhere
<1>2. job' = [op |-> "attach", pc |-> "seed", id |-> NoId, want |-> NoIntent,
              rev |-> revision, todo |-> {d}, ids |-> seeds, changed |-> seeds]
    BY DEF AttachRegisters, Free
<1>3. /\ registered' = [registered EXCEPT ![t] = d]
      /\ opening' = [opening EXCEPT ![d] = NoTarget]
      /\ UNCHANGED <<contextVars, stale, target, live, engineVars, historyVars>>
    BY DEF AttachRegisters
<1>4. registered'[t] = d /\ \A s \in Targets : s # t => registered'[s] = registered[s]
    BY <1>1, <1>3 DEF IInv, TypeOK
<1>5. opening'[d] = NoTarget /\ \A e \in Debuggers : e # d => opening'[e] = opening[e]
    BY <1>3 DEF IInv, TypeOK
<1>6. revision \in 1..MaxRevision /\ revision \in Nat /\ revision \in 0..MaxRevision
    BY RevisionAssumption DEF IInv, TypeOK
<1>7. seeds \subseteq Ids
    OBVIOUS
<1>8. \A b \in seeds : Applies(b, t)
    OBVIOUS
<1>9. \A b \in Ids : b \notin seeds => ~Applies(b, t)
    OBVIOUS
<1> HIDE DEF seeds
<1>10. job' \in Job
    BY <1>2, <1>6, <1>7 DEF Job, Ops
<1>11. TypeOK'
    BY <1>1, <1>3, <1>5, <1>10 DEF IInv, TypeOK
<1>12. DeadAreFresh' /\ TargetsOwnLogIds'
    BY <1>3 DEF IInv, DeadAreFresh, Fresh, TargetsOwnLogIds
<1>13. OpeningIsNowhere'
    BY <1>2, <1>3, <1>4, <1>5 DEF IInv, OpeningIsNowhere, Fresh
<1>14. RegisteredForItsTarget'
    BY <1>1, <1>3, <1>4 DEF IInv, RegisteredForItsTarget
<1>15. JobShape' /\ AskedOwnsNothing'
    BY <1>2 DEF JobShape, AskedOwnsNothing
<1>16. JobIsCurrent'
    BY <1>1, <1>2, <1>3, <1>4, <1>6, <1>8 DEF JobIsCurrent, Applies
<1>17. SeededOwnsNothing' /\ IntentIsNeverRefused'
    BY <1>1, <1>2, <1>3, <1>7 DEF Fresh, SeededOwnsNothing, IntentIsNeverRefused
<1>18. CommandsAreNeverStale'
  <2>1. \A b \in Ids : mark[d][b] = 0
      BY <1>1 DEF Fresh
  <2>2. \A e \in Registered' : e \in Registered \/ e = d
      BY <1>4 DEF Registered
  <2>3. \A e \in Registered', b \in Ids : mark'[e][b] <= revision'
      BY <1>1, <1>3, <1>6, <2>1, <2>2 DEF IInv, CommandsAreNeverStale
  <2> QED
      BY <1>2, <1>3, <1>6, <1>7, <2>1, <2>3 DEF CommandsAreNeverStale, Outdated
<1>19. LoopAgrees'
  <2> SUFFICES ASSUME NEW s \in Targets, NEW c \in Ids,
                      registered'[s] # NoDebugger, live'[registered'[s]],
                      <<registered'[s], c>> \notin failed' \cup skipped',
                      ~ToBeTold(registered[s], c)'
               PROVE  Agrees(registered[s], s, c)'
      BY DEF LoopAgrees
  <2>1. CASE s = t
    <3>1. c \notin seeds
        BY <1>2, <1>4, <2>1 DEF ToBeTold
    <3>2. ~Applies(c, s)
        BY <1>9, <2>1, <3>1
    <3>3. held[d][c] = NoSpec /\ owner[d][c] = "none"
        BY <1>1 DEF Fresh
    <3> QED
        BY <1>3, <1>4, <2>1, <3>2, <3>3 DEF Agrees, Applies
  <2>2. CASE s # t
    <3>1. registered'[s] = registered[s]
        BY <1>4, <2>2
    <3>2. Agrees(registered[s], s, c)
        BY <1>1, <1>3, <3>1 DEF IInv, LoopAgrees, ToBeTold, Free
    <3> QED
        BY <1>3, <3>1, <3>2 DEF Agrees, Applies
  <2> QED
      BY <2>1, <2>2
<1> QED
    BY <1>11, <1>12, <1>13, <1>14, <1>15, <1>16, <1>17, <1>18, <1>19 DEF IInv

-----------------------------------------------------------------------------
(***************************************************************************)
(* Theorems.                                                               *)
(***************************************************************************)
\* Every step keeps the invariant.
LEMMA NextKeeps == IInv /\ [Next]_vars => IInv'
<1> SUFFICES ASSUME IInv, [Next]_vars PROVE IInv'
    OBVIOUS
<1>1. CASE JobStep
  <2>1. ASSUME NEW d \in Debuggers, PutChecksOwner(d) PROVE IInv'
      BY <2>1, PutChecksOwnerKeeps
  <2>2. ASSUME NEW d \in Debuggers, ApplySet(d) \/ PutSkipsStopped(d) \/ SetFails(d)
        PROVE  IInv'
      BY <2>2, ApplySetKeeps, PutSkipsStoppedKeeps, SetFailsKeeps
  <2>3. ASSUME NEW d \in Debuggers, ApplyRemove(d) \/ RemoveFails(d) PROVE IInv'
      BY <2>3, ApplyRemoveKeeps, RemoveFailsKeeps
  <2>4. ASSUME NEW d \in Debuggers, SeedFails(d) \/ LogpointInstalls(d) PROVE IInv'
      BY <2>4, SeedFailsKeeps, LogpointInstallsKeeps
  <2>5. ASSUME NEW d \in Debuggers, NEW b \in Ids, Seed(d, b) PROVE IInv'
      BY <2>5, SeedKeeps
  <2>6. CASE PutCommits \/ PutIsRefused \/ ApplyEnds \/ PublishEnds
      BY <2>6, PutCommitsKeeps, PutIsRefusedKeeps, ApplyEndsKeeps, PublishEndsKeeps
  <2>7. CASE Reply \/ SeedEnds \/ LogpointFails
      BY <2>7, ReplyKeeps, SeedEndsKeeps, LogpointFailsKeeps
  <2>8. ASSUME NEW b \in Ids, Publish(b) PROVE IInv'
      BY <2>8, PublishKeeps
  <2> QED
      BY <1>1, <2>1, <2>2, <2>3, <2>4, <2>5, <2>6, <2>7, <2>8 DEF JobStep
<1>2. ASSUME NEW d \in Debuggers, AttachTakesLock(d) PROVE IInv'
    BY <1>2, AttachIsRefusedKeeps, AttachRegistersKeeps DEF AttachTakesLock
<1>3. CASE Calls
  <2>1. ASSUME NEW b \in Ids, NEW o \in {"put", "putSpec"}, NEW w \in Intents,
               PutBegins(o, b, w)
        PROVE  IInv'
      BY <2>1, PutBeginsKeeps
  <2>2. ASSUME NEW b \in Ids, Delete(b) PROVE IInv'
      BY <2>2, DeleteKeeps
  <2>3. ASSUME NEW t \in Targets, NEW d \in Debuggers, AttachBegins(t, d) PROVE IInv'
      BY <2>3, AttachBeginsKeeps
  <2>4. ASSUME NEW t \in Targets, NEW b \in LogIds, NEW s \in Specs, LogpointBegins(t, b, s)
        PROVE  IInv'
      BY <2>4, LogpointBeginsKeeps
  <2>5. ASSUME NEW t \in Targets, Detach(t) PROVE IInv'
      BY <2>5, DetachKeeps
  <2>6. ASSUME NEW d \in Debuggers, NEW b \in LogIds, RemoveLogpoint(d, b) PROVE IInv'
      BY <2>6, RemoveLogpointKeeps
  <2>7. CASE DeleteContext \/ PutContext \/ ContextChanges
      BY <2>7, DeleteContextKeeps, PutContextKeeps, ContextChangesKeeps
  <2> QED
      BY <1>3, <2>1, <2>2, <2>3, <2>4, <2>5, <2>6, <2>7 DEF Calls
<1>4. CASE Surroundings
    BY <1>4, DebuggerStopsKeeps, AttachFailsKeeps, TargetLeavesKeeps, RuntimeEndsKeeps
    DEF Surroundings
<1>5. CASE UNCHANGED vars
  <2>1. OnlyJobChanges /\ job' = job
      BY <1>5 DEF vars, OnlyJobChanges
  <2>2. UNCHANGED <<contextVars, opening, target, job, live, engineVars, historyVars>>
      BY <1>5 DEF vars, attachmentVars
  <2>3. registered' = registered /\ stale' = stale
      BY <1>5 DEF vars, attachmentVars
  <2> QED
      BY <2>2, <2>3, ShrinkKeeps DEF IInv, TypeOK
<1> QED
    BY <1>1, <1>2, <1>3, <1>4, <1>5 DEF Next

\* Every reachable state of the breakpoint handlers satisfies the invariant.
THEOREM Invariance == Spec => []IInv
<1>1. Init => IInv
    BY InitIInv
<1>2. IInv /\ [Next]_vars => IInv'
    BY NextKeeps
<1> QED
    BY <1>1, <1>2, PTL DEF Spec

\* The variables keep their types.
THEOREM TypeCorrectness == Spec => []TypeOK
<1>1. IInv => TypeOK
    BY DEF IInv
<1> QED
    BY <1>1, Invariance, PTL

\* Whenever the intent lock is free, each attached debugger that runs holds what
\* the context intends, but for those that an error kept from it: for any number
\* of targets, debuggers, ids and revisions.
THEOREM AgreementWhenSettled == Spec => []AppliedWhenSettled
<1>1. IInv => AppliedWhenSettled
  <2> SUFFICES ASSUME IInv, job = Free, NEW t \in Targets, NEW b \in Ids,
                      registered[t] # NoDebugger, live[registered[t]],
                      <<registered[t], b>> \notin failed \cup skipped
               PROVE  Agrees(registered[t], t, b)
      BY DEF AppliedWhenSettled
  <2>1. ~ToBeTold(registered[t], b)
      BY DEF ToBeTold, Free
  <2> QED
      BY <2>1 DEF IInv, LoopAgrees
<1> QED
    BY <1>1, Invariance, PTL

\* A specification that passed the collision check, or that seeds a debugger,
\* meets no logpoint of its id.
THEOREM NeverRefused == Spec => []IntentIsNeverRefused
<1>1. IInv => IntentIsNeverRefused
    BY DEF IInv
<1> QED
    BY <1>1, Invariance, PTL

\* No watermark makes a debugger skip the command of the current handler.
THEOREM NeverStale == Spec => []CommandsAreNeverStale
<1>1. IInv => CommandsAreNeverStale
    BY DEF IInv
<1> QED
    BY <1>1, Invariance, PTL

\* No step of a handler but that of set_logpoints changes what a target owns.
LogpointsStay ==
    \A d \in Debuggers, b \in Ids :
        /\ InUse(d)
        /\ owner[d][b] = "target"
        /\ <<held'[d][b], owner'[d][b]>> # <<held[d][b], owner[d][b]>>
        => job' = job \/ job.op = "logpoints"

\* A command that leaves what a target owns as it was breaks no promise.
LEMMA TellsOnlyContextOwned ==
    ASSUME IInv, NEW d \in Debuggers, NEW b \in Ids, NEW s, NEW o, NEW m,
           EngineBecomes(d, b, s, o, m),
           owner[d][b] = "target" => o = "target" /\ s = held[d][b]
    PROVE  LogpointsStay
  BY DEF EngineBecomes, LogpointsStay

\* While the target owns an id, no command of the context touches it.
THEOREM LogpointsKept == Spec => LogpointsAreTheTargets
<1>1. IInv /\ [Next]_vars => [LogpointsStay]_vars
  <2> SUFFICES ASSUME IInv, Next PROVE LogpointsStay
      BY DEF vars
  <2>1. CASE UNCHANGED engineVars \/ job' = job \/ job.op = "logpoints"
      BY <2>1 DEF LogpointsStay, engineVars
  <2>2. ASSUME NEW d \in Debuggers, ApplySet(d) PROVE LogpointsStay
    <3>1. job.pc = "apply" /\ d \in job.todo /\ Wanted(d)
        BY <2>2 DEF ApplySet
    <3>2. /\ job.id \in Ids /\ job.rev \in 0..MaxRevision /\ ~Outdated(d, job.id, job.rev)
          /\ job.want.spec \in Specs \cup {NoSpec}
        BY <3>1, LoopFacts DEF Intents, NoIntent
    <3>3. EngineBecomes(d, job.id, job.want.spec, "context", job.rev)
        BY <2>2, <3>2, InstallEffect DEF ApplySet, IInv
    <3>4. owner[d][job.id] # "target"
        BY <3>1 DEF IInv, IntentIsNeverRefused
    <3> QED
        BY <3>2, <3>3, <3>4, TellsOnlyContextOwned
  <2>3. ASSUME NEW d \in Debuggers, ApplyRemove(d) PROVE LogpointsStay
    <3>1. job.pc = "apply" /\ d \in job.todo
        BY <2>3 DEF ApplyRemove
    <3>2. job.id \in Ids /\ job.rev \in 0..MaxRevision /\ ~Outdated(d, job.id, job.rev)
        BY <3>1, LoopFacts
    <3>3. IF owner[d][job.id] = "target"
          THEN EngineBecomes(d, job.id, held[d][job.id], "target", job.rev)
          ELSE EngineBecomes(d, job.id, NoSpec, "none", job.rev)
        BY <2>3, <3>2, RemoveEffect DEF ApplyRemove, IInv
    <3> QED
        BY <3>2, <3>3, TellsOnlyContextOwned
  <2>4. ASSUME NEW d \in Debuggers, RemoveFails(d) PROVE LogpointsStay
    <3>1. job.id \in Ids
        BY <2>4, LoopFacts DEF RemoveFails
    <3>2. CASE UNCHANGED engineVars
        BY <3>2 DEF LogpointsStay, engineVars
    <3>3. CASE /\ owner[d][job.id] # "target"
               /\ SetHeld(d, job.id, NoSpec) /\ UNCHANGED <<owner, mark>>
      <4>1. owner[d][job.id] \in Owners /\ mark[d][job.id] \in 0..MaxRevision
          BY <3>1 DEF IInv, TypeOK
      <4>2. EngineBecomes(d, job.id, NoSpec, owner[d][job.id], mark[d][job.id])
          BY <3>1, <3>3, <4>1, TablesBecome DEF IInv
      <4> QED
          BY <3>1, <3>3, <4>2, TellsOnlyContextOwned
    <3> QED
        BY <2>4, <3>2, <3>3 DEF RemoveFails, RemovalFails
  <2>5. ASSUME NEW d \in Debuggers, NEW b \in Ids, Seed(d, b) PROVE LogpointsStay
    <3>1. job.pc = "seed" /\ d \in job.todo /\ b \in job.ids /\ job \in Job
        BY <2>5, JobRecord DEF Seed, IInv, TypeOK
    <3>2. /\ ~Outdated(d, b, job.rev) /\ job.rev \in 0..MaxRevision
          /\ intent[b].spec \in Specs \cup {NoSpec}
        BY <3>1 DEF IInv, TypeOK, CommandsAreNeverStale, Job, Intents, NoIntent
    <3>3. EngineBecomes(d, b, intent[b].spec, "context", job.rev)
        BY <2>5, <3>2, InstallEffect DEF Seed, IInv
    <3>4. owner[d][b] # "target"
        BY <3>1 DEF IInv, SeededOwnsNothing
    <3> QED
        BY <3>3, <3>4, TellsOnlyContextOwned
  <2>6. ASSUME NEW d \in Debuggers, SeedFails(d) PROVE LogpointsStay
    <3>1. \A b \in Ids : owner[d][b] # "target"
        BY <2>6 DEF SeedFails, IInv, SeededOwnsNothing
    <3>2. EndsBecomes(d)
        BY <2>6, EndsEffect DEF SeedFails, IInv
    <3> QED
        BY <3>1, <3>2 DEF EndsBecomes, LogpointsStay
  <2>7. ASSUME NEW d \in Debuggers, LogpointInstalls(d) PROVE LogpointsStay
      BY <2>1, <2>7 DEF LogpointInstalls, IInv, JobShape
  <2>8. CASE JobStep
      BY <2>1, <2>2, <2>3, <2>4, <2>5, <2>6, <2>7, <2>8
      DEF JobStep, PutChecksOwner, PutSkipsStopped, SetFails, PutCommits, PutIsRefused,
          ApplyEnds, PublishEnds, Reply, SeedEnds, LogpointFails, Publish
  <2>9. ASSUME NEW d \in Debuggers, AttachTakesLock(d) PROVE LogpointsStay
      BY <2>1, <2>9 DEF AttachTakesLock, AttachIsRefused, AttachRegisters
  <2>10. CASE Calls
      BY <2>1, <2>10
      DEF Calls, PutBegins, Delete, AttachBegins, LogpointBegins, Detach, RemoveLogpoint,
          DeleteContext, PutContext, ContextChanges
  <2>11. CASE Surroundings
      BY <2>1, <2>11 DEF Surroundings, DebuggerStops, AttachFails, TargetLeaves, RuntimeEnds
  <2> QED
      BY <2>8, <2>9, <2>10, <2>11 DEF Next
<1> QED
    BY <1>1, Invariance, PTL DEF Spec, LogpointsAreTheTargets, LogpointsStay
=============================================================================
