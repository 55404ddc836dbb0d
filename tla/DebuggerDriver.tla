---------------------------- MODULE DebuggerDriver ----------------------------
(***************************************************************************)
(* The task of one debugged target (run_target, debugger/                  *)
(* target_debugger.rs) with its driver (debugger/debugger_driver.rs).      *)
(*                                                                         *)
(* The task alternates between commands and browser events.  Both become   *)
(* an input of the reducer, whose effects the driver then drains: it       *)
(* carries out the first one, reduces its completion and appends the       *)
(* effects of that, until none is left.  Two things end a drain early.  An *)
(* effect that fails with a protocol error makes the drain return, and a   *)
(* command that arrives while an event is drained drops the future that    *)
(* drains it; both lose the rest of the queue, and the reducer's state     *)
(* keeps the effects as pending.                                           *)
(*                                                                         *)
(* The browser is modelled by what the driver uses: it announces scripts,  *)
(* pauses and resumes, holds breakpoints, and answers requests in order.   *)
(***************************************************************************)
EXTENDS DebuggerReducer, SequencesExt

CONSTANTS
    ScriptText,     \* ScriptText[s]: the text of script s; nobody edits it
    Views,          \* sets of logical sources a script may be built into
    MappingResults, \* sets of positions a breakpoint may map to
    Bounds          \* bounds, one of which holds for a behaviour

Failures == {"fetch", "build", "frame", "install", "remove", "release", "drain"}

Specification == [breakpoint : Breakpoints, source : Urls, condition : Conditions]

\* What may happen in one behaviour, and how often: the specifications that
\* may be set and how many by one command, how often each script is announced
\* and each breakpoint is set without a removal, the stacks the session pauses
\* at, the events on their way, and the kinds of effects that fail without a
\* modelled reason ("drain" is a drain that is dropped).
BoundsType ==
    [specs : SUBSET Specification, batch : Nat, versions : [Scripts -> Nat],
     generations : [Breakpoints -> Nat], stacks : SUBSET Seq(Scripts), pauses : Nat,
     events : Nat, failing : SUBSET Failures, failures : Nat]

ASSUME DriverAssumption ==
    /\ \A positions \in MappingResults :
           positions \subseteq Positions /\ IsFiniteSet(positions)
    /\ ScriptText \in [Scripts -> Contents]
    /\ Views \subseteq SUBSET Candidate
    /\ Bounds \subseteq BoundsType

VARIABLES
    state,     \* DebuggerDriver.state
    queue,     \* the effects of the drain in progress
    mode,      \* what the task is doing
    settling,  \* a command waits for events of its own (settle_execution)
    command,   \* the breakpoint command in progress
    installed, \* the breakpoints the browser holds
    browser,   \* the browser's execution and its events on the way
    failures,  \* failures without a modelled reason so far
    bound      \* the bounds of this behaviour

vars == <<state, queue, mode, settling, command, installed, browser, failures, bound>>

SpecFor(b, source, condition) == [breakpoint |-> b, source |-> source, condition |-> condition]

NoSpec == [breakpoint |-> -1, source |-> "none", condition |-> 0]

\* A set_breakpoints command: what is still to be set, what was set and the
\* specification it replaced, and whether it is being rolled back.
NoCommand == [todo |-> <<>>, applied |-> <<>>, rollingBack |-> FALSE]

SpecOf(b) ==
    IF b \in DOMAIN state.breakpoints
    THEN SpecFor(b, state.breakpoints[b].source, state.breakpoints[b].condition)
    ELSE [NoSpec EXCEPT !.breakpoint = b]

Init ==
    /\ state \in {ConfiguredState(waiting) : waiting \in BOOLEAN}
    /\ queue = <<>>
    /\ mode = "idle"
    /\ settling = FALSE
    /\ command = NoCommand
    /\ installed = {}
    /\ browser = [paused |-> 0, pauses |-> 0, events |-> <<>>]
    /\ failures = 0
    /\ bound \in Bounds

-----------------------------------------------------------------------------
(***************************************************************************)
(* The browser.                                                            *)
(***************************************************************************)
Announces(s) == [kind |-> "parsed", script |-> s]

AnnouncementsOf(s) ==
    Len(SelectSeq(browser.events, LAMBDA e : e = Announces(s)))
    + (IF s \in DOMAIN state.scripts THEN state.scripts[s].version ELSE 0)

\* A script is announced, or announced again after a client of the same
\* session enabled the debugger domain again.
BrowserAnnounces(s) ==
    /\ Len(browser.events) < bound.events
    /\ AnnouncementsOf(s) < bound.versions[s]
    /\ browser' = [browser EXCEPT !.events = Append(@, Announces(s))]
    /\ UNCHANGED <<state, queue, mode, settling, command, installed, failures, bound>>

BrowserPauses(stack) ==
    /\ Len(browser.events) < bound.events
    /\ browser.paused = 0 /\ browser.pauses < bound.pauses
    /\ browser' = [paused |-> browser.pauses + 1, pauses |-> browser.pauses + 1,
                   events |-> Append(browser.events, [kind |-> "paused", stack |-> stack])]
    /\ UNCHANGED <<state, queue, mode, settling, command, installed, failures, bound>>

WithResumed ==
    [browser EXCEPT !.paused = 0, !.events = Append(@, [kind |-> "resumed"])]

\* Somebody else resumes the target.
BrowserResumes ==
    /\ browser.paused # 0 /\ Len(browser.events) < bound.events
    /\ browser' = WithResumed
    /\ UNCHANGED <<state, queue, mode, settling, command, installed, failures, bound>>

\* The browser takes one breakpoint per position of a script; for a
\* conditional one the driver may find another offset that resolves there.
BrowserTakes(p) ==
    \/ p.condition # 0
    \/ \A q \in installed : q.script # p.script \/ q.position # p.position

-----------------------------------------------------------------------------
(***************************************************************************)
(* Inputs of the reducer.                                                  *)
(***************************************************************************)
\* reduce_recorded: the input's effects go to the end of the queue.
Reduce(w) ==
    /\ state' = [w EXCEPT !.out = <<>>]
    /\ queue' = queue \o w.out

\* A command is received only between events, and not by a settling command.
CommandArrives == mode = "idle" /\ ~settling

\* SetBreakpoints (target_debugger.rs): a batch that is applied in order.
SetBreakpoints(batch) ==
    /\ CommandArrives
    /\ mode' = "command"
    /\ command' = [NoCommand EXCEPT !.todo = batch]
    /\ UNCHANGED <<state, queue, settling, installed, browser, failures, bound>>

BatchOver == command.todo = <<>> \/ command.rollingBack

\* The next breakpoint of the batch.
ApplyNext ==
    /\ mode = "command" /\ queue = <<>> /\ ~BatchOver
    /\ LET spec == Head(command.todo)
       IN /\ Reduce(SetBreakpoint(state, spec.breakpoint, spec.source, spec.condition))
          /\ command' = [command EXCEPT !.todo = Tail(@),
                                        !.applied = Append(@, SpecOf(spec.breakpoint))]
    /\ UNCHANGED <<mode, settling, installed, browser, failures, bound>>

\* Fault: a breakpoint that did not exist before is put back as well.
RollBackNextSetting ==
    /\ mode = "command" /\ queue = <<>> /\ command.rollingBack /\ command.applied # <<>>
    /\ LET prior == Last(command.applied)
       IN Reduce(SetBreakpoint(state, prior.breakpoint, prior.source, prior.condition))
    /\ command' = [command EXCEPT !.applied = Front(@)]
    /\ UNCHANGED <<mode, settling, installed, browser, failures, bound>>

\* After a failure the breakpoints applied so far are put back, last one first.
RollBackNext ==
    /\ mode = "command" /\ queue = <<>> /\ command.rollingBack /\ command.applied # <<>>
    /\ LET prior == Last(command.applied)
       IN /\ Reduce(IF prior.source = "none"
                    THEN RemoveBreakpoint(state, prior.breakpoint)
                    ELSE SetBreakpoint(state, prior.breakpoint, prior.source, prior.condition))
          /\ command' = [command EXCEPT !.applied = Front(@)]
    /\ UNCHANGED <<mode, settling, installed, browser, failures, bound>>

CommandEnds ==
    /\ mode = "command" /\ queue = <<>>
    /\ BatchOver /\ (command.rollingBack => command.applied = <<>>)
    /\ mode' = "idle" /\ command' = NoCommand
    /\ UNCHANGED <<state, queue, settling, installed, browser, failures, bound>>

RemoveBreakpointCommand(b) ==
    /\ CommandArrives /\ b \in DOMAIN state.breakpoints
    /\ Reduce(RemoveBreakpoint(state, b))
    /\ mode' = "command"
    /\ UNCHANGED <<settling, command, installed, browser, failures, bound>>

RequestScriptSourceCommand(s) ==
    /\ CommandArrives /\ s \in DOMAIN state.scripts
    /\ Reduce(RequestScriptSource(state, s))
    /\ mode' = "command"
    /\ UNCHANGED <<settling, command, installed, browser, failures, bound>>

\* Resume and step are refused unless they name the current pause.
ResumeCommand ==
    /\ CommandArrives /\ state.phase = "paused"
    /\ Reduce(ResumeRequested(state, state.epoch))
    /\ mode' = "command" /\ settling' = TRUE
    /\ UNCHANGED <<command, installed, browser, failures, bound>>

ReleaseIfWaitingCommand ==
    /\ CommandArrives /\ state.waiting
    /\ Reduce(ReleaseIfWaiting(state))
    /\ mode' = "command" /\ settling' = TRUE
    /\ UNCHANGED <<command, installed, browser, failures, bound>>

\* A settling command returns: the phase it waits for came, or its time is up.
Settles ==
    /\ settling /\ mode = "idle"
    /\ settling' = FALSE
    /\ UNCHANGED <<state, queue, mode, command, installed, browser, failures, bound>>

\* process_next_event: the browser's events are inputs in their order.  A
\* resumed event outside a pause would be an error (MissingPauseEpoch) that
\* ends the task; EveryResumeEndsAPause says that none comes.
InputOf(event) ==
    CASE event.kind = "parsed"  -> ScriptParsed(state, event.script)
      [] event.kind = "paused"  -> Paused(state, event.stack)
      [] event.kind = "resumed" -> Resumed(state, state.epoch)

ProcessNextEvent ==
    /\ mode = "idle" /\ browser.events # <<>>
    /\ browser' = [browser EXCEPT !.events = Tail(@)]
    /\ Head(browser.events).kind = "resumed" => IsStopped(state)
    /\ Reduce(InputOf(Head(browser.events)))
    /\ mode' = "event"
    /\ UNCHANGED <<settling, command, installed, failures, bound>>

-----------------------------------------------------------------------------
(***************************************************************************)
(* drain_effects.                                                          *)
(***************************************************************************)
InDrain == mode \in {"command", "event"} /\ queue # <<>>

\* The completion of the first effect is reduced, and its effects follow the
\* ones that are still waiting.
Complete(w) ==
    /\ state' = [w EXCEPT !.out = <<>>]
    /\ queue' = Tail(queue) \o w.out
    /\ UNCHANGED <<mode, settling, command, bound>>

Succeeds(w) == Complete(w) /\ UNCHANGED failures

\* A failure of no modelled reason.
Fails(kind) ==
    /\ kind \in bound.failing /\ failures < bound.failures
    /\ failures' = failures + 1

FetchScriptSource(e) ==
    /\ e.kind = "fetch"
    /\ \/ Succeeds(ScriptSourceFetched(state, e, ScriptText[e.script]))
       \/ Fails("fetch") /\ Complete(SourceFailed(state, e))
    /\ UNCHANGED <<installed, browser>>

\* The view of a script that names no source map is the script itself.
ViewsOf(s) ==
    LET own == {[url |-> ScriptUrl[s], content |-> state.scripts[s].captured]}
    IN IF s \in Mapped THEN Views \cup {own} ELSE {own}

BuildSourceView(e) ==
    /\ e.kind = "build"
    /\ \/ \E view \in ViewsOf(e.script) : Succeeds(SourceViewBuilt(state, e, view))
       \/ Fails("build") /\ Complete(SourceFailed(state, e))
    /\ UNCHANGED <<installed, browser>>

MapBreakpoint(e) ==
    /\ e.kind = "map"
    /\ \E positions \in MappingResults : Succeeds(BreakpointMapped(state, e, positions))
    /\ UNCHANGED <<installed, browser>>

MapFrame(e) ==
    /\ e.kind = "frame"
    /\ \/ Succeeds(FrameMapped(state, e))
       \/ Fails("frame") /\ Complete(FrameFailed(state, e))
    /\ UNCHANGED <<installed, browser>>

InstallBreakpoint(e) ==
    /\ e.kind = "install" /\ BrowserTakes(e.physical)
    /\ installed' = installed \cup {e.physical}
    /\ Succeeds(BreakpointInstalled(state, e))
    /\ UNCHANGED browser

RemovePhysical(e) ==
    /\ e.kind = "remove"
    /\ installed' = installed \ {e.physical}
    /\ Succeeds(BreakpointRemoved(state, e))
    /\ UNCHANGED browser

ResumeTarget(e) ==
    /\ e.kind = "resume" /\ browser.paused # 0
    /\ browser' = WithResumed
    /\ Succeeds(CommandAccepted(state, e))
    /\ UNCHANGED installed

RunIfWaitingForDebugger(e) ==
    /\ e.kind = "release"
    /\ Succeeds(CommandAccepted(state, e))
    /\ UNCHANGED <<installed, browser>>

ExecuteEffect ==
    /\ InDrain
    /\ LET e == Head(queue)
       IN \/ FetchScriptSource(e) \/ BuildSourceView(e) \/ MapBreakpoint(e) \/ MapFrame(e)
          \/ InstallBreakpoint(e) \/ RemovePhysical(e) \/ ResumeTarget(e)
          \/ RunIfWaitingForDebugger(e)

\* The protocol errors that end a drain.  The browser refuses a second
\* breakpoint at a position, and to resume what is not paused.
IsRefused(e) ==
    \/ e.kind = "install" /\ \E q \in installed :
           q.script = e.physical.script /\ q.position = e.physical.position
    \/ e.kind = "resume" /\ browser.paused = 0

IsProtocolError(e) ==
    \/ IsRefused(e) /\ UNCHANGED failures
    \/ e.kind \in {"install", "remove", "release"} /\ Fails(e.kind)

\* A command answers with the error, after a rollback if it set breakpoints;
\* an event that fails ends the task unless a settling command awaits it.
EffectFails ==
    /\ InDrain /\ IsProtocolError(Head(queue))
    /\ queue' = <<>>
    /\ command' = IF command = NoCommand THEN command ELSE [command EXCEPT !.rollingBack = TRUE]
    /\ mode' = IF mode = "command" /\ command # NoCommand THEN mode
               ELSE IF mode = "event" /\ ~settling THEN "stopped" ELSE "idle"
    /\ settling' = FALSE
    /\ UNCHANGED <<state, installed, browser, bound>>

\* The effects that are waited for outside the process.
IsAwaited(e) == e.kind \in {"fetch", "install", "remove"}

\* The future that drains an event is dropped: by a command that arrives
\* (tokio::select!) or by the timeout of a settling command.  The request it
\* waits for may or may not have reached the browser.
DrainIsDropped ==
    /\ Fails("drain") /\ mode = "event" /\ queue # <<>> /\ IsAwaited(Head(queue))
    /\ LET e == Head(queue)
       IN installed' \in {installed,
              CASE e.kind = "install" /\ BrowserTakes(e.physical) -> installed \cup {e.physical}
                [] e.kind = "remove" -> installed \ {e.physical}
                [] OTHER -> installed}
    /\ queue' = <<>> /\ mode' = "idle" /\ settling' = FALSE
    /\ UNCHANGED <<state, command, browser, bound>>

DrainEnds ==
    /\ queue = <<>> /\ command = NoCommand /\ mode \in {"command", "event"}
    /\ mode' = "idle"
    /\ UNCHANGED <<state, queue, settling, command, installed, browser, failures, bound>>

-----------------------------------------------------------------------------
\* A batch names a breakpoint once.
Batches ==
    {batch \in UNION {[1..n -> bound.specs] : n \in 1..bound.batch} :
        \A i, j \in DOMAIN batch :
            batch[i].breakpoint = batch[j].breakpoint => i = j}

\* The bound on replacements.
WithinBound(batch) ==
    \A i \in DOMAIN batch :
        LET b == batch[i].breakpoint
        IN b \in DOMAIN state.breakpoints =>
               state.breakpoints[b].generation < bound.generations[b]

BrowserNext ==
    \/ \E s \in Scripts : BrowserAnnounces(s)
    \/ \E stack \in bound.stacks : BrowserPauses(stack)
    \/ BrowserResumes

CommandNext ==
    \/ \E batch \in Batches : WithinBound(batch) /\ SetBreakpoints(batch)
    \/ ApplyNext
    \/ RollBackNext
    \/ CommandEnds
    \/ \E b \in Breakpoints : RemoveBreakpointCommand(b)
    \/ \E s \in Scripts : RequestScriptSourceCommand(s)
    \/ ResumeCommand
    \/ ReleaseIfWaitingCommand
    \/ Settles

DrainNext == ExecuteEffect \/ EffectFails \/ DrainIsDropped \/ DrainEnds

Next == BrowserNext \/ CommandNext \/ ProcessNextEvent \/ DrainNext

Spec == Init /\ [][Next]_vars

-----------------------------------------------------------------------------
AtRest == mode = "idle" /\ state.pending = {}

\* The variables keep their types, and what is set is what was asked for.
TypeOK ==
    /\ mode \in {"idle", "command", "event", "stopped"} /\ settling \in BOOLEAN
    /\ installed \subseteq PhysicalKey
    /\ DOMAIN state.scripts \subseteq Scripts
    /\ DOMAIN state.breakpoints \subseteq Breakpoints
    /\ {SpecOf(b) : b \in DOMAIN state.breakpoints} \subseteq bound.specs
    /\ DOMAIN state.physical \subseteq PhysicalKey
    /\ state.phase \in {"running", "paused", "resuming"}
    /\ state.out = <<>>

\* Bindings and owners are two views of one relation, and a binding shows the
\* status of its physical breakpoint (bind_physical, release_physical_binding,
\* release_breakpoint and release_script_version change both sides).
BindingsMatchOwners ==
    /\ \A p \in DOMAIN state.physical : state.physical[p].owners \subseteq DOMAIN state.breakpoints
    /\ \A b \in DOMAIN state.breakpoints :
        LET bindings == state.breakpoints[b].bindings
            owned == {p \in DOMAIN state.physical : b \in state.physical[p].owners}
        IN /\ DOMAIN bindings = owned
           /\ \A p \in owned : bindings[p] = BindingFor(state.physical[p].status)

\* When nothing is pending, the browser holds exactly the breakpoints the
\* reducer takes for installed, and each of them has an owner: none is left
\* behind by a replacement, a removal or a new script version.
BrowserHoldsTheOwned ==
    AtRest => /\ installed = DOMAIN state.physical
              /\ \A p \in installed : IsInstalled(state, p) /\ state.physical[p].owners # {}

IsUndecided(b, s) ==
    state.breakpoints[b].assessments[s].status \in {"waiting", "mapping"}

\* When nothing is pending, every breakpoint is bound wherever its assessments
\* put it, and nowhere else unless one of them is undecided.  Only a script
\* that was fetched and could not be built is left undecided or unassessed,
\* when it matches by its own url: ensure_mapping has no view to map through,
\* and the assessment keeps what it said before, if there was one.
QuietIsDecided ==
    AtRest => \A b \in DOMAIN state.breakpoints :
        LET bp == state.breakpoints[b]
            undecided == {s \in DOMAIN bp.assessments : IsUndecided(b, s)}
            unassessed == DOMAIN state.scripts \ DOMAIN bp.assessments
        IN /\ DOMAIN bp.assessments \subseteq DOMAIN state.scripts
           /\ \A s \in undecided \cup unassessed :
                  /\ state.scripts[s].source = "failed"
                  /\ state.scripts[s].captured # NoContent
                  /\ ScriptUrl[s] = bp.source
           /\ Desired(state, b) \subseteq DOMAIN bp.bindings
           /\ undecided = {} => DOMAIN bp.bindings = Desired(state, b)

\* When nothing is pending, the incremental reconciliations have come to what
\* the full one comes to (reconcile_built_script against reconcile_breakpoint).
QuietIsReconciled ==
    AtRest => \A b \in DOMAIN state.breakpoints : ReconcileBreakpoint(state, b) = state

HeldFor(b) ==
    LET bindings == state.breakpoints[b].bindings
    IN {p \in DOMAIN bindings : bindings[p] = "installed" /\ p \in installed}

BelongsNowhere(b) ==
    /\ Desired(state, b) = {}
    /\ \A s \in DOMAIN state.breakpoints[b].assessments : ~IsUndecided(b, s)

SameBreakpoint(b) ==
    /\ b \in DOMAIN state.breakpoints /\ b \in DOMAIN state'.breakpoints
    /\ state.breakpoints[b].generation = state'.breakpoints[b].generation
    /\ \A s \in DOMAIN state.scripts : state.scripts[s].version = state'.scripts[s].version

\* A breakpoint that is installed somewhere stays installed somewhere until it
\* is replaced, removed or decided to belong nowhere, or a script is announced
\* again: a better match is installed before the old one goes, and nothing goes
\* while a script is still to be looked at (reconcile_physical_bindings).
StaysHeld ==
    [][\A b \in Breakpoints :
          (SameBreakpoint(b) /\ HeldFor(b) # {}) => (HeldFor(b)' # {} \/ BelongsNowhere(b)')]_vars

\* Every resumed event finds a pause to end.
EveryResumeEndsAPause ==
    mode = "idle" /\ browser.events # <<>> /\ Head(browser.events).kind = "resumed"
        => IsStopped(state)

CaughtUp == mode = "idle" /\ browser.events = <<>>

\* When the task has caught up with the browser, it shows the pause the
\* browser is in, and none when it runs (pause_session, resume_session).
PauseIsTheBrowsers ==
    CaughtUp => IF browser.paused = 0 THEN state.phase = "running"
                ELSE state.epoch = browser.paused /\ IsStopped(state)

\* "Effects run outside the state writer and return typed completions"
\* (docs/architecture/debugger-data-model.md): between inputs no effect is
\* left without a completion.
EffectsComplete == mode = "idle" => state.pending = {}

=============================================================================
