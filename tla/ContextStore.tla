----------------------------- MODULE ContextStore -----------------------------
(***************************************************************************)
(* Durable intent, revisions and observation of one context: what is held  *)
(* in memory under the state lock, what persist_or_restore has written,    *)
(* which request ids were completed, the bounded history that commit_context*)
(* keeps, and the clients: mutations that are retried with the same request*)
(* id when the answer is lost, and observers that long-poll observe_context*)
(* and resume from the last revision they saw.                             *)
(* (service/debugger_service.rs, service/debugger_service/context.rs)      *)
(*                                                                         *)
(* Intent is the map of breakpoints; every other durable command (contexts,*)
(* connection recipes, idle timeouts, formatting rules) commits and        *)
(* persists the same way.  Connection status, targets and breakpoint       *)
(* applications only add revisions (ContextChange::RuntimeOnly).           *)
(***************************************************************************)
EXTENDS Integers, Sequences, FiniteSets

CONSTANTS
    Breakpoints,    \* breakpoint ids
    Specs,          \* breakpoint specifications
    NoSpec,         \* no breakpoint of that id
    Requests,       \* request ids (MutationOptions.request_id)
    Observers,      \* clients of observe_context
    Clients,        \* the sets of requests and observers that may be present
    HistoryLimit,   \* 256 in commit_context
    MaxRevision,    \* bound on revisions
    MaxEpoch        \* bound on restarts and context deletions

ASSUME NoSpecAssumption == NoSpec \notin Specs
ASSUME ClientsAssumption == Clients \subseteq SUBSET (Requests \cup Observers)

ASSUME LimitAssumption ==
    /\ HistoryLimit \in Nat \ {0}
    /\ MaxRevision \in Nat /\ MaxEpoch \in Nat

VARIABLES
    context,    \* ContextState: existence, revision and breakpoint intent
    completed,  \* completed_requests of the context id
    history,    \* state.history: the revision of every snapshot kept
    disk,       \* the persisted StoredServiceState
    request,    \* clients: one mutation per request id
    observer,   \* clients: observe_context
    epoch,      \* history: restarts and deletions so far
    applied     \* history: how often each request took effect

storeVars == <<context, completed, history, disk>>
vars == <<context, completed, history, disk, request, observer, epoch, applied>>

-----------------------------------------------------------------------------
Intents == [Breakpoints -> Specs \cup {NoSpec}]

ContextState == [exists : BOOLEAN, revision : Nat, breakpoints : Intents]

NoContext ==
    [exists |-> FALSE, revision |-> 0,
     breakpoints |-> [b \in Breakpoints |-> NoSpec]]

Commands ==
    [kind : {"put"}, breakpoint : Breakpoints, spec : Specs] \cup
    [kind : {"remove"}, breakpoint : Breakpoints] \cup
    [kind : {"delete_context"}]

\* What a client has read when it issues a mutation with an expected revision.
\* History: a revision is valid until a deletion or a restart takes it back.
Basis == [revision : Nat, breakpoints : Intents, valid : BOOLEAN]

Unsent == [state |-> "unsent"]

\* A client that takes no part in the behaviour.
NoRequest == [state |-> "absent"]

\* The last answer of observe_context: the cursor it was asked with, the
\* revisions it delivered and the revision the context had.
NoAnswer == [kind |-> "none"]

IdleObserver ==
    [pc |-> "new", cursor |-> 0, valid |-> TRUE, woken |-> FALSE,
     answer |-> NoAnswer]

Init ==
    /\ context = NoContext
    /\ completed = {}
    /\ history = <<>>
    /\ disk = [context |-> NoContext, completed |-> {}]
    /\ \E present \in Clients :
         /\ request = [q \in Requests |-> IF q \in present THEN Unsent ELSE NoRequest]
         /\ observer = [o \in Observers |->
              IF o \in present THEN IdleObserver ELSE [IdleObserver EXCEPT !.pc = "absent"]]
    /\ epoch = 0
    /\ applied = [q \in Requests |-> 0]

-----------------------------------------------------------------------------
(***************************************************************************)
(* The reducer and commit_context.                                         *)
(***************************************************************************)
Changed(ctx) == [ctx EXCEPT !.revision = @ + 1]

PutBreakpoint(ctx, b, spec) ==
    Changed([ctx EXCEPT !.breakpoints[b] = spec])

\* Fault: the removal of a breakpoint is not a revision.
RemoveBreakpointSilently(ctx, b) == [ctx EXCEPT !.breakpoints[b] = NoSpec]

\* Removing a breakpoint that does not exist leaves the context unchanged.
RemoveBreakpoint(ctx, b) ==
    IF ctx.breakpoints[b] = NoSpec
    THEN ctx
    ELSE Changed([ctx EXCEPT !.breakpoints[b] = NoSpec])

\* Fault: one snapshot too many is kept.
TruncatedLate(s) ==
    IF Len(s) > HistoryLimit + 1
    THEN SubSeq(s, Len(s) - HistoryLimit + 1, Len(s))
    ELSE s

Truncated(s) ==
    IF Len(s) > HistoryLimit
    THEN SubSeq(s, Len(s) - HistoryLimit + 1, Len(s))
    ELSE s

\* Every commit is recorded, an unchanged transition too.
Recorded(ctx) == Truncated(Append(history, ctx.revision))

\* revision_signal: a watch channel every waiting observer is subscribed to.
Signalled == [o \in Observers |-> [observer[o] EXCEPT !.woken = TRUE]]

\* Fault: a failed write restores the contexts and keeps the request ids.
PersistRestoringContexts(ctx, done, hist) ==
    \/ /\ context' = ctx /\ completed' = done /\ history' = hist
       /\ disk' = [context |-> ctx, completed |-> done]
    \/ completed' = done /\ UNCHANGED <<context, history, disk>>

\* persist_or_restore: the file is replaced atomically, or memory is put back.
Persist(ctx, done, hist) ==
    \/ /\ context' = ctx /\ completed' = done /\ history' = hist
       /\ disk' = [context |-> ctx, completed |-> done]
    \/ UNCHANGED storeVars

Persisted == context' = disk'.context /\ disk' # disk

-----------------------------------------------------------------------------
(***************************************************************************)
(* Mutations.                                                              *)
(***************************************************************************)
PutContext ==
    /\ context.revision < MaxRevision
    /\ LET ctx == Changed([context EXCEPT !.exists = TRUE]) IN
         Persist(ctx, completed, Recorded(ctx))
    /\ observer' = Signalled
    /\ UNCHANGED <<request, epoch, applied>>

\* put_breakpoint, which takes no MutationOptions.
PutBreakpointUnkeyed(b, spec) ==
    /\ context.exists
    /\ context.revision < MaxRevision
    /\ LET ctx == PutBreakpoint(context, b, spec) IN
         Persist(ctx, completed, Recorded(ctx))
    /\ observer' = Signalled
    /\ UNCHANGED <<request, epoch, applied>>

\* Fault: the commit of an observation does not signal.
RuntimeChangeUnsignalled ==
    /\ context.exists
    /\ context.revision < MaxRevision
    /\ context' = Changed(context)
    /\ history' = Recorded(context')
    /\ UNCHANGED <<completed, disk, request, observer, epoch, applied>>

\* Connection status, target graph: committed, not persisted.
RuntimeChange ==
    /\ context.exists
    /\ context.revision < MaxRevision
    /\ context' = Changed(context)
    /\ history' = Recorded(context')
    /\ observer' = Signalled
    /\ UNCHANGED <<completed, disk, request, epoch, applied>>

\* publish_breakpoint_application commits the transition whether or not the
\* breakpoint still exists.
PublishBreakpointApplication(b) ==
    /\ context.exists
    /\ context.revision < MaxRevision
    /\ context' = IF context.breakpoints[b] = NoSpec
                  THEN context ELSE Changed(context)
    /\ history' = Recorded(context')
    /\ observer' = Signalled
    /\ UNCHANGED <<completed, disk, request, epoch, applied>>

-----------------------------------------------------------------------------
(***************************************************************************)
(* Keyed mutations.  A client sends a command under a fresh request id,    *)
(* possibly with the revision it has read, and sends it again until it has *)
(* an answer; every handling runs the whole handler.                       *)
(***************************************************************************)
Send(q, command, guarded) ==
    /\ request[q] = Unsent
    /\ context.exists
    /\ request' = [request EXCEPT ![q] =
         [state |-> "pending", command |-> command, guarded |-> guarded,
          basis |-> [revision |-> context.revision,
                     breakpoints |-> context.breakpoints, valid |-> TRUE]]]
    /\ UNCHANGED <<storeVars, observer, epoch, applied>>

Pending(q) == request[q].state = "pending"

\* History: the revisions after the given one are taken back.
RequestsAfter(revision) ==
    [q \in Requests |->
        IF request[q].state \in {"unsent", "absent"} THEN request[q]
        ELSE [request[q] EXCEPT !.basis.valid =
                 @ /\ request[q].basis.revision <= revision]]

\* The answer reaches the client, or is lost and the client will retry.
Answer(q) ==
    \/ request' = [request EXCEPT ![q].state = "answered"]
    \/ UNCHANGED request

IsCompleted(q) == q \in completed

RevisionConflict(q) ==
    request[q].guarded /\ request[q].basis.revision # context.revision

\* check_mutation_options answers without applying: an unknown context, a
\* request that was completed before, or a revision conflict.  delete_context
\* looks for the completed request before it looks for the context.
AnswerWithoutEffect(q) ==
    /\ Pending(q)
    /\ \/ ~context.exists
       \/ IsCompleted(q)
       \/ RevisionConflict(q)
    /\ Answer(q)
    /\ UNCHANGED <<storeVars, observer, epoch, applied>>

MayApply(q) ==
    /\ Pending(q)
    /\ context.exists
    /\ ~IsCompleted(q)
    /\ ~RevisionConflict(q)

Applied(q) ==
    applied' = IF Persisted THEN [applied EXCEPT ![q] = @ + 1] ELSE applied

ApplyIntent(q) ==
    /\ MayApply(q)
    /\ request[q].command.kind \in {"put", "remove"}
    /\ context.revision < MaxRevision
    /\ LET command == request[q].command
           ctx == IF command.kind = "put"
                  THEN PutBreakpoint(context, command.breakpoint, command.spec)
                  ELSE RemoveBreakpoint(context, command.breakpoint)
       IN Persist(ctx, completed \cup {q}, Recorded(ctx))
    /\ Applied(q)
    /\ observer' = Signalled
    /\ Answer(q)
    /\ UNCHANGED epoch

\* The signal is sent only after the deletion is persisted.
ApplyDeleteContext(q) ==
    /\ MayApply(q)
    /\ request[q].command.kind = "delete_context"
    /\ epoch < MaxEpoch
    /\ Persist(NoContext, completed \cup {q}, <<>>)
    /\ Applied(q)
    /\ IF Persisted
       THEN /\ observer' = [o \in Observers |->
                              [observer[o] EXCEPT !.woken = TRUE, !.valid = FALSE]]
            /\ \E state \in {"pending", "answered"} :
                 request' = [RequestsAfter(-1) EXCEPT ![q].state = state]
            /\ epoch' = epoch + 1
       ELSE Answer(q) /\ UNCHANGED <<observer, epoch>>

-----------------------------------------------------------------------------
(***************************************************************************)
(* observe_context.  The observer subscribes to the signal, then alternates*)
(* between checking under the lock and waiting for the signal.             *)
(***************************************************************************)
Move(o, pc) == observer' = [observer EXCEPT ![o].pc = pc]

\* ObservationCursor::Current: the client starts from the current revision.
ObserverStarts(o) ==
    /\ observer[o].pc = "new"
    /\ context.exists
    /\ observer' = [observer EXCEPT ![o].pc = "idle",
                       ![o].cursor = context.revision, ![o].valid = TRUE]
    /\ UNCHANGED <<storeVars, request, epoch, applied>>

ObserverSubscribes(o) ==
    /\ observer[o].pc = "idle"
    /\ observer' = [observer EXCEPT ![o].pc = "checking", ![o].woken = FALSE,
                                    ![o].answer = NoAnswer]
    /\ UNCHANGED <<storeVars, request, epoch, applied>>

After(revision) ==
    {n \in {history[i] : i \in DOMAIN history} : n > revision}

\* Fault: one lost revision is not a gap.
HistoryGapLate(cursor) ==
    IF history = <<>>
    THEN cursor < context.revision
    ELSE cursor + 2 < history[1]

HistoryGap(cursor) ==
    IF history = <<>>
    THEN cursor < context.revision
    ELSE cursor + 1 < history[1]

\* The client resumes from the last revision it was given.
Answered(o, kind, revisions, next) ==
    observer' = [observer EXCEPT ![o] =
        [pc |-> "idle", cursor |-> next, woken |-> @.woken,
         valid |-> kind # "timeout" \/ @.valid,
         answer |-> [kind |-> kind, from |-> @.cursor, revisions |-> revisions,
                     current |-> context.revision,
                     valid |-> @.valid]]]

ObserverFindsNoContext(o) ==
    /\ observer[o].pc = "checking"
    /\ ~context.exists
    /\ observer' = [observer EXCEPT ![o] = IdleObserver]
    /\ UNCHANGED <<storeVars, request, epoch, applied>>

ObserverFindsGap(o) ==
    /\ observer[o].pc = "checking"
    /\ context.exists
    /\ HistoryGap(observer[o].cursor)
    /\ Answered(o, "gap", {}, context.revision)
    /\ UNCHANGED <<storeVars, request, epoch, applied>>

ObserverFindsItems(o) ==
    /\ observer[o].pc = "checking"
    /\ context.exists
    /\ ~HistoryGap(observer[o].cursor)
    /\ After(observer[o].cursor) # {}
    /\ Answered(o, "items", After(observer[o].cursor),
                CHOOSE n \in After(observer[o].cursor) :
                    \A m \in After(observer[o].cursor) : m <= n)
    /\ UNCHANGED <<storeVars, request, epoch, applied>>

ObserverFindsNothing(o) ==
    /\ observer[o].pc = "checking"
    /\ context.exists
    /\ ~HistoryGap(observer[o].cursor)
    /\ After(observer[o].cursor) = {}
    /\ Move(o, "waiting")
    /\ UNCHANGED <<storeVars, request, epoch, applied>>

ObserverWakes(o) ==
    /\ observer[o].pc = "waiting"
    /\ observer[o].woken
    /\ observer' = [observer EXCEPT ![o].pc = "checking", ![o].woken = FALSE]
    /\ UNCHANGED <<storeVars, request, epoch, applied>>

ObserverTimesOut(o) ==
    /\ observer[o].pc = "waiting"
    /\ Answered(o, "timeout", {}, observer[o].cursor)
    /\ UNCHANGED <<storeVars, request, epoch, applied>>

-----------------------------------------------------------------------------
(***************************************************************************)
(* The daemon may crash at any moment and starts again from the file: no   *)
(* history, and the runtime-only revisions are gone.  Polls in flight fail;*)
(* the clients keep their cursors and their unanswered requests.           *)
(***************************************************************************)
\* Fault: completed requests do not survive a restart.
RestartForgettingRequests ==
    /\ epoch < MaxEpoch
    /\ epoch' = epoch + 1
    /\ context' = disk.context
    /\ completed' = {}
    /\ history' = <<>>
    /\ observer' = [o \in Observers |->
         IF observer[o].pc \in {"new", "absent"} THEN observer[o]
         ELSE [observer[o] EXCEPT !.pc = "idle", !.woken = FALSE,
                                  !.valid = @ /\ observer[o].cursor
                                                   <= disk.context.revision,
                                  !.answer = NoAnswer]]
    /\ request' = RequestsAfter(disk.context.revision)
    /\ UNCHANGED <<disk, applied>>

Restart ==
    /\ epoch < MaxEpoch
    /\ epoch' = epoch + 1
    /\ context' = disk.context
    /\ completed' = disk.completed
    /\ history' = <<>>
    /\ observer' = [o \in Observers |->
         IF observer[o].pc \in {"new", "absent"} THEN observer[o]
         ELSE [observer[o] EXCEPT !.pc = "idle", !.woken = FALSE,
                                  !.valid = @ /\ observer[o].cursor
                                                   <= disk.context.revision,
                                  !.answer = NoAnswer]]
    /\ request' = RequestsAfter(disk.context.revision)
    /\ UNCHANGED <<disk, applied>>

ObserverStep(o) ==
    \/ ObserverFindsNoContext(o) \/ ObserverFindsGap(o) \/ ObserverFindsItems(o)
    \/ ObserverFindsNothing(o) \/ ObserverWakes(o)

Next ==
    \/ PutContext \/ RuntimeChange \/ Restart
    \/ \E b \in Breakpoints : PublishBreakpointApplication(b)
    \/ \E b \in Breakpoints, spec \in Specs : PutBreakpointUnkeyed(b, spec)
    \/ \E q \in Requests, command \in Commands, guarded \in BOOLEAN :
         Send(q, command, guarded)
    \/ \E q \in Requests :
         AnswerWithoutEffect(q) \/ ApplyIntent(q) \/ ApplyDeleteContext(q)
    \/ \E o \in Observers :
         ObserverStarts(o) \/ ObserverSubscribes(o) \/ ObserverTimesOut(o)
         \/ ObserverStep(o)

Spec == Init /\ [][Next]_vars

\* The task of an observe_context call is scheduled whenever it can run; the
\* deadline of the call is not relied upon.
FairSpec == Spec /\ \A o \in Observers : WF_vars(ObserverStep(o))
-----------------------------------------------------------------------------
(***************************************************************************)
(* Properties.                                                             *)
(***************************************************************************)
Answers ==
    {NoAnswer} \cup
    [kind : {"items", "gap", "timeout"}, from : Nat, revisions : SUBSET Nat,
     current : Nat, valid : BOOLEAN]

\* Every variable keeps its type, and the history never holds more than
\* HistoryLimit snapshots, whatever is committed between two truncations.
TypeOK ==
    /\ context \in ContextState
    /\ completed \subseteq Requests
    /\ history \in Seq(Nat) /\ Len(history) <= HistoryLimit
    /\ disk.context \in ContextState /\ disk.completed \subseteq Requests
    /\ \A q \in Requests : request[q].state \notin {"unsent", "absent"} =>
         /\ request[q].state \in {"pending", "answered"}
         /\ request[q].command \in Commands
         /\ request[q].basis \in Basis
    /\ \A o \in Observers :
         /\ observer[o].pc \in {"absent", "new", "idle", "checking", "waiting"}
         /\ observer[o].cursor \in Nat /\ observer[o].answer \in Answers
    /\ epoch \in Nat
    /\ applied \in [Requests -> Nat]

\* Whatever a client can read of the intent is on disk: a crash at any moment
\* loses revisions, never breakpoints, contexts or completed request ids.
DiskHoldsIntent ==
    /\ disk.context.exists = context.exists
    /\ disk.context.breakpoints = context.breakpoints
    /\ disk.completed = completed
    /\ disk.context.revision <= context.revision

\* A request takes effect at most once, although its client sends it again
\* until it is answered and the daemon may fail to persist it, or restart,
\* between any two tries.
RequestAppliedOnce == \A q \in Requests : applied[q] <= 1

\* A request whose expected revision still matches is applied to the intent
\* its client has read, as long as the revisions were not restarted meanwhile.
RevisionNamesOneState ==
    \A q \in Requests :
        /\ Pending(q)
        /\ MayApply(q) /\ request[q].guarded
        /\ request[q].basis.valid
        => request[q].basis.breakpoints = context.breakpoints

\* An observer that is given items is given every revision between its cursor
\* and the current one, also when history was dropped in between: what it
\* cannot be given is announced by a gap answer.
AnswerIsComplete ==
    \A o \in Observers :
        LET answer == observer[o].answer IN
            answer.kind = "items" /\ answer.valid =>
                answer.revisions = (answer.from + 1) .. answer.current

\* A waiting observer is woken by whatever it has to report: a revision after
\* its cursor, or the deletion of the context, wherever the commit fell between
\* the observer's subscription, its check and its wait.
HasNews(o) ==
    \/ ~context.exists
    \/ observer[o].valid /\ observer[o].cursor < context.revision

ObserverIsNotified ==
    \A o \in Observers :
        (observer[o].pc = "waiting" /\ HasNews(o)) ~> observer[o].pc # "waiting"

\* cli-design.md 12.2: "If requested history is no longer available, the agent
\* returns an explicit history-gap error".  An observer whose cursor was taken
\* back has missed the revisions that use its number again, and is still given
\* items: the daemon recognises a gap by the number alone.
NoSilentGap ==
    \A o \in Observers : observer[o].answer.kind = "items" =>
        observer[o].answer.valid
=============================================================================
