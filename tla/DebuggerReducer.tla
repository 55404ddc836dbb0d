--------------------------- MODULE DebuggerReducer ---------------------------
(***************************************************************************)
(* The reducer of one debugged target (debugger/debugger_engine.rs): a     *)
(* pure function from the debugger's state and one input to the next state *)
(* and the effects to carry out.  Each input is an operator below, named   *)
(* for it; the operators work on a record that is the state together with  *)
(* `out`, the effects emitted so far.                                      *)
(*                                                                         *)
(* An effect is identified by what it does and not by a number: an effect  *)
(* is allocated at most once with the same content while a completion for  *)
(* it can still come, so `pending` is a set of effects, and a status that  *)
(* holds an effect id holds no more than the status.  A target has one     *)
(* session; scripts and breakpoints are numbered in the order of their     *)
(* keys.  Content, urls and positions are opaque values, a step is a       *)
(* resume, and diagnostics are left out.                                   *)
(***************************************************************************)
EXTENDS Integers, Sequences, FiniteSets

CONSTANTS
    Scripts,       \* script ids the browser may announce
    Breakpoints,   \* breakpoint ids of the context
    Urls,          \* urls of scripts and of their logical sources
    ScriptUrl,     \* ScriptUrl[s]: the url of script s
    Mapped,        \* the scripts that name a source map
    FriendlyPairs, \* pairs of urls, one a path suffix of the other
    Contents,      \* file contents
    Positions,     \* positions in a generated script
    Conditions,    \* 0 is a breakpoint without a condition
    NoContent, NoCandidate, NoPause

\* A stack frame, and how far it is projected to its source.
Frame == [script : Scripts, projected : {"raw", "pending", "resolved", "failed"}]

Pause == [epoch : Nat, frames : Seq(Frame)]

ASSUME ReducerAssumption ==
    /\ Scripts \subseteq Nat /\ Breakpoints \subseteq Nat
    /\ Positions \subseteq Nat /\ Conditions \subseteq Nat
    /\ ScriptUrl \in [Scripts -> Urls] /\ Mapped \subseteq Scripts
    /\ FriendlyPairs \subseteq Urls \X Urls
    /\ NoContent \notin Contents
    /\ NoPause \notin Pause

-----------------------------------------------------------------------------
(***************************************************************************)
(* The state.                                                              *)
(***************************************************************************)
Candidate == [url : Urls, content : Contents]

PhysicalKey ==
    [script : Scripts, version : Nat, position : Positions, condition : Conditions]

EmptyIndex == [exact |-> {}, friendly |-> {}, unresolved |-> {}]

\* The state of a debugger whose session is configured.  `waiting` is the
\* session's waiting_for_debugger.
ConfiguredState(waiting) ==
    [phase |-> "running", epoch |-> 0, nextEpoch |-> 1, pause |-> NoPause,
     waiting |-> waiting, scripts |-> <<>>, breakpoints |-> <<>>,
     physical |-> <<>>, pending |-> {}, out |-> <<>>]

FetchEffect(s, v) == [kind |-> "fetch", script |-> s, version |-> v]
BuildEffect(s, v) == [kind |-> "build", script |-> s, version |-> v]
MapEffect(b, g, s, v, c) ==
    [kind |-> "map", breakpoint |-> b, generation |-> g, script |-> s,
     version |-> v, candidate |-> c]
InstallEffect(p) == [kind |-> "install", physical |-> p]
RemoveEffect(p) == [kind |-> "remove", physical |-> p]
FrameEffect(n, i) == [kind |-> "frame", epoch |-> n, index |-> i]
ResumeEffect(n) == [kind |-> "resume", epoch |-> n]
ReleaseEffect == [kind |-> "release"]

Emit(w, e) == [w EXCEPT !.pending = @ \cup {e}, !.out = Append(@, e)]

TakePending(w, e) == [w EXCEPT !.pending = @ \ {e}]

\* A loop over the keys S: after[T] is the state once the keys T were visited,
\* last(T) the one visited last.
OneByOne(op(_, _), w, S, last(_)) ==
    LET after[T \in SUBSET S] ==
            IF T = {} THEN w ELSE op(after[T \ {last(T)}], last(T))
    IN after[S]

\* The reducer's loops visit keys in their order.
Greatest(T) == CHOOSE k \in T : \A l \in T : l <= k

InOrder(op(_, _), w, S) == OneByOne(op, w, S, Greatest)

Precedes(p, q) ==
    \/ p.script < q.script
    \/ p.script = q.script /\ p.version < q.version
    \/ p.script = q.script /\ p.version = q.version /\ p.position < q.position
    \/ /\ p.script = q.script /\ p.version = q.version
       /\ p.position = q.position /\ p.condition < q.condition

LastKey(T) == CHOOSE p \in T : \A q \in T \ {p} : Precedes(q, p)

OverKeys(op(_, _), w, S) == OneByOne(op, w, S, LastKey)

With(f, k, v) == [l \in DOMAIN f \cup {k} |-> IF l = k THEN v ELSE f[l]]

Without(f, S) == [k \in DOMAIN f \ S |-> f[k]]

IsInstalled(w, p) == p \in DOMAIN w.physical /\ w.physical[p].status = "installed"

-----------------------------------------------------------------------------
(***************************************************************************)
(* Which scripts may hold the source a breakpoint asks for.                *)
(***************************************************************************)
MayExpose(s, source) == ScriptUrl[s] = source \/ s \in Mapped

IsUnbuilt(script) == script.source \in {"unresolved", "pending", "loaded"}

\* What one script contributes to a breakpoint's candidate index.
IndexScript(source, s, script) ==
    LET own  == {[url |-> ScriptUrl[s], content |-> c] : c \in {script.captured} \ {NoContent}}
        view == IF script.source = "resolved" THEN script.view ELSE {}
    IN [exact |-> {<<s, c>> : c \in {c \in own \cup view : c.url = source}},
        friendly |-> {<<s, c>> : c \in {c \in view :
                         c.url # source /\ <<c.url, source>> \in FriendlyPairs}},
        unresolved |-> {x \in {s} : IsUnbuilt(script) /\ MayExpose(s, source)}]

\* The index of a breakpoint over all scripts.
CandidateIndex(w, source) ==
    LET of(s) == IndexScript(source, s, w.scripts[s])
    IN [exact      |-> UNION {of(s).exact : s \in DOMAIN w.scripts},
        friendly   |-> UNION {of(s).friendly : s \in DOMAIN w.scripts},
        unresolved |-> UNION {of(s).unresolved : s \in DOMAIN w.scripts}]

\* An exact match wins at once; a friendly one only when it is the only one
\* and no script is left that may still turn out to match.
Selection(index) ==
    LET friendly   == index.exact = {}
        bucket     == IF friendly THEN index.friendly ELSE index.exact
        candidates == {x[2] : x \in bucket}
        scripts    == {x[1] : x \in bucket}
    IN CASE candidates = {} ->
              [kind |-> "none", candidates |-> {}, scripts |-> {}, friendly |-> FALSE]
         [] Cardinality(candidates) > 1 ->
              [kind |-> "ambiguous", candidates |-> candidates, scripts |-> scripts,
               friendly |-> FALSE]
         [] Cardinality(candidates) = 1 /\ friendly /\ index.unresolved # {} ->
              [kind |-> "waiting", candidates |-> {},
               scripts |-> scripts \cup index.unresolved, friendly |-> FALSE]
         [] OTHER ->
              [kind |-> "unique", candidates |-> candidates, scripts |-> scripts,
               friendly |-> friendly]

SamePayload(x, y) ==
    x.kind = y.kind /\ x.candidates = y.candidates /\ x.friendly = y.friendly

\* Fault: only the script that was built is assessed again.
OnlyBuiltScript(old, new, s) == {s}

\* The scripts whose assessment changes when script s was built.
ChangedScripts(old, new, s) ==
    IF SamePayload(old, new) THEN {s} ELSE old.scripts \cup new.scripts \cup {s}

Assessment(version, status) ==
    [version |-> version, status |-> status, candidate |-> NoCandidate, positions |-> {}]

StatusWithoutCandidate(s, script, source) ==
    IF script.source = "failed" THEN "failed"
    ELSE IF IsUnbuilt(script) /\ MayExpose(s, source) THEN "waiting" ELSE "notFound"

SetAssessment(w, b, s, a) ==
    [w EXCEPT !.breakpoints[b].assessments = With(@, s, a)]

-----------------------------------------------------------------------------
(***************************************************************************)
(* Physical breakpoints: what the browser is asked to hold, shared by the  *)
(* breakpoints that map to the same position.                              *)
(***************************************************************************)
SetBindings(w, owners, p, binding) ==
    LET bp == w.breakpoints
    IN [w EXCEPT !.breakpoints =
           [b \in DOMAIN bp |-> IF b \in owners
                                THEN [bp[b] EXCEPT !.bindings = With(@, p, binding)]
                                ELSE bp[b]]]

SchedulePhysicalInstall(w, p) ==
    Emit(SetBindings([w EXCEPT !.physical[p].status = "installing"],
                     w.physical[p].owners, p, "pendingInstall"),
         InstallEffect(p))

SchedulePhysicalRemoval(w, p) ==
    Emit([w EXCEPT !.physical[p].status = "removing"], RemoveEffect(p))

BindingFor(status) ==
    CASE status = "installing" -> "pendingInstall"
      [] status = "installed"  -> "installed"
      [] status = "removing"   -> "waitingForRemoval"
      [] status = "failed"     -> "failed"

\* Fault: a breakpoint that joins is bound and does not become an owner.
BindPhysicalUnowned(w, b, p) ==
    IF p \in DOMAIN w.physical
    THEN SetBindings(w, {b}, p, BindingFor(w.physical[p].status))
    ELSE SchedulePhysicalInstall(
            [w EXCEPT !.physical = With(@, p, [owners |-> {b}, status |-> "installing"])], p)

BindPhysical(w, b, p) ==
    IF p \in DOMAIN w.physical
    THEN LET status == w.physical[p].status
             joined == SetBindings([w EXCEPT !.physical[p].owners = @ \cup {b}],
                                   {b}, p, BindingFor(status))
         IN IF status = "failed" THEN SchedulePhysicalInstall(joined, p) ELSE joined
    ELSE SchedulePhysicalInstall(
            [w EXCEPT !.physical = With(@, p, [owners |-> {b}, status |-> "installing"])], p)

\* Fault: a breakpoint without an owner is forgotten, the browser is not told.
DropUnownedSilently(w, p) ==
    IF w.physical[p].owners = {} THEN [w EXCEPT !.physical = Without(@, {p})] ELSE w

\* What happens to a physical breakpoint that lost its last owner.
DropUnowned(w, p) ==
    LET physical == w.physical[p]
    IN CASE physical.owners # {} -> w
         [] physical.owners = {} /\ physical.status = "installed" ->
              SchedulePhysicalRemoval(w, p)
         [] physical.owners = {} /\ physical.status = "failed" ->
              [w EXCEPT !.physical = Without(@, {p})]
         [] OTHER -> w

ReleasePhysicalBinding(w, b, p) ==
    LET unbound == [w EXCEPT !.breakpoints[b].bindings = Without(@, {p})]
    IN IF p \in DOMAIN w.physical
       THEN DropUnowned([unbound EXCEPT !.physical[p].owners = @ \ {b}], p)
       ELSE unbound

\* Where breakpoint b belongs according to its assessments.
Desired(w, b) ==
    LET bp == w.breakpoints[b]
        current(s) == /\ bp.assessments[s].status = "applicable"
                      /\ s \in DOMAIN w.scripts
                      /\ w.scripts[s].version = bp.assessments[s].version
    IN UNION {{[script |-> s, version |-> bp.assessments[s].version,
                position |-> q, condition |-> bp.condition] :
                    q \in bp.assessments[s].positions} :
              s \in {s \in DOMAIN bp.assessments : current(s)}}

\* Fault: stale bindings go at once.
ReleasesAtOnce(w, b) == TRUE

\* Bindings that are no longer wanted go only when nothing is undecided and
\* every wanted one is installed.
MayReleaseStale(w, b) ==
    /\ \A s \in DOMAIN w.breakpoints[b].assessments :
           w.breakpoints[b].assessments[s].status \notin {"waiting", "mapping"}
    /\ \A p \in Desired(w, b) : IsInstalled(w, p)

ReconcilePhysicalBindings(w, b) ==
    LET desired == Desired(w, b)
        bind(v, p) == BindPhysical(v, b, p)
        release(v, p) == ReleasePhysicalBinding(v, b, p)
        bound == OverKeys(bind, w, desired \ DOMAIN w.breakpoints[b].bindings)
    IN IF MayReleaseStale(bound, b)
       THEN OverKeys(release, bound, DOMAIN bound.breakpoints[b].bindings \ desired)
       ELSE bound

-----------------------------------------------------------------------------
(***************************************************************************)
(* Fetching sources and mapping breakpoints through them.                  *)
(***************************************************************************)
ScheduleSourceHydration(w, s, retryFailed) ==
    IF /\ s \in DOMAIN w.scripts
       /\ \/ w.scripts[s].source = "unresolved"
          \/ w.scripts[s].source = "failed" /\ retryFailed
    THEN Emit([w EXCEPT !.scripts[s].source = "pending"],
              FetchEffect(s, w.scripts[s].version))
    ELSE w

CancelBreakpointMapping(w, b, s) ==
    LET cancelled == {e \in w.breakpoints[b].mappings : e.script = s}
    IN [w EXCEPT !.pending = @ \ cancelled, !.breakpoints[b].mappings = @ \ cancelled]

ReplaceAssessment(w, b, s, status) ==
    SetAssessment(CancelBreakpointMapping(w, b, s), b, s,
                  Assessment(w.scripts[s].version, status))

ScheduleMapping(w, b, s, c) ==
    LET bp == w.breakpoints[b]
        e  == MapEffect(b, bp.generation, s, w.scripts[s].version, c)
    IN IF /\ \A m \in bp.mappings : m.script # s
          /\ w.scripts[s].source = "resolved"
       THEN Emit(SetAssessment([w EXCEPT !.breakpoints[b].mappings = @ \cup {e}], b, s,
                               [Assessment(e.version, "mapping") EXCEPT !.candidate = c]),
                 e)
       ELSE w

\* An assessment of the same version and candidate is kept.
IsReusable(w, b, s, c) ==
    LET bp == w.breakpoints[b]
    IN /\ s \in DOMAIN bp.assessments
       /\ bp.assessments[s].version = w.scripts[s].version
       /\ bp.assessments[s].candidate = c
       /\ \/ bp.assessments[s].status \in {"applicable", "unmapped"}
          \/ /\ bp.assessments[s].status = "mapping"
             /\ \E e \in bp.mappings : e.script = s /\ e \in w.pending

EnsureMapping(w, b, s, c) ==
    IF IsReusable(w, b, s, c) THEN w
    ELSE ScheduleMapping(CancelBreakpointMapping(w, b, s), b, s, c)

ApplySelection(w, b, s, selection) ==
    IF s \notin selection.scripts \/ selection.kind = "none"
    THEN ReplaceAssessment(w, b, s,
            StatusWithoutCandidate(s, w.scripts[s], w.breakpoints[b].source))
    ELSE IF selection.kind = "unique"
         THEN EnsureMapping(w, b, s, CHOOSE c \in selection.candidates : TRUE)
         ELSE ReplaceAssessment(w, b, s, selection.kind)

WithIndex(w, b, index) ==
    [w EXCEPT !.breakpoints[b].index = index,
              !.breakpoints[b].friendly = Selection(index).friendly]

\* The full reconciliation of one breakpoint with all scripts.
ReconcileBreakpoint(w, b) ==
    LET source    == w.breakpoints[b].source
        index     == CandidateIndex(w, source)
        hydrate   == {s \in DOMAIN w.scripts :
                        w.scripts[s].source = "unresolved" /\ MayExpose(s, source)}
        apply(v, s) == ApplySelection(v, b, s, Selection(index))
        fetch(v, s) == ScheduleSourceHydration(v, s, TRUE)
        assessed  == InOrder(apply, WithIndex(w, b, index), DOMAIN w.scripts)
    IN ReconcilePhysicalBindings(InOrder(fetch, assessed, hydrate), b)

ReconcileAll(w) ==
    LET reconcile(v, b) == ReconcileBreakpoint(v, b)
    IN InOrder(reconcile, w, DOMAIN w.breakpoints)

\* Fault: a script that was built still counts as one that may match.
IndexStaysUnresolved(w, b, s) ==
    LET old == w.breakpoints[b].index
        new == IndexScript(w.breakpoints[b].source, s, w.scripts[s])
    IN [exact |-> old.exact \cup new.exact, friendly |-> old.friendly \cup new.friendly,
        unresolved |-> old.unresolved \cup new.unresolved]

\* What the scripts built so far say, brought up to date with script s.
IndexWithBuilt(w, b, s) ==
    LET old == w.breakpoints[b].index
        new == IndexScript(w.breakpoints[b].source, s, w.scripts[s])
    IN [exact |-> old.exact \cup new.exact, friendly |-> old.friendly \cup new.friendly,
        unresolved |-> (old.unresolved \ {s}) \cup new.unresolved]

\* The incremental reconciliation after script s was built: only the scripts
\* whose assessment changes are visited.
ReconcileBuiltScript(w, s) ==
    LET one(v, b) ==
            LET bp      == v.breakpoints[b]
                index   == IndexWithBuilt(v, b, s)
                old     == Selection(bp.index)
                new     == Selection(index)
                apply(u, x) == ApplySelection(u, b, x, new)
                applied == InOrder(apply, WithIndex(v, b, index), ChangedScripts(old, new, s))
                completed == /\ s \in bp.index.unresolved
                             /\ index.unresolved = {}
                             /\ applied.breakpoints[b].mappings = {}
            IN IF /\ applied.breakpoints[b].bindings # <<>>
                  /\ ~SamePayload(old, new) \/ completed
               THEN ReconcilePhysicalBindings(applied, b)
               ELSE applied
    IN InOrder(one, w, DOMAIN w.breakpoints)

-----------------------------------------------------------------------------
(***************************************************************************)
(* The frames of the current pause.                                        *)
(***************************************************************************)
Frames(w) == IF w.pause = NoPause THEN <<>> ELSE w.pause.frames

RawFrames(w, s) ==
    {i \in DOMAIN Frames(w) : Frames(w)[i].script = s /\ Frames(w)[i].projected = "raw"}

SetFrames(w, S, projected) ==
    IF S = {} THEN w
    ELSE LET frames == w.pause.frames
         IN [w EXCEPT !.pause.frames =
                [i \in DOMAIN frames |->
                    IF i \in S THEN [frames[i] EXCEPT !.projected = projected] ELSE frames[i]]]

IsStopped(w) == w.phase \in {"paused", "resuming"}

ScheduleFrameMappings(w, s) ==
    LET raw == RawFrames(w, s)
        emit(v, i) == Emit(v, FrameEffect(w.pause.epoch, i))
    IN IF s \in DOMAIN w.scripts /\ w.scripts[s].source = "resolved" /\ IsStopped(w)
       THEN InOrder(emit, SetFrames(w, raw, "pending"), raw)
       ELSE w

\* A frame whose script was parsed again is projected anew.
ReleaseFrames(w, s) ==
    LET ofScript == {i \in DOMAIN Frames(w) : Frames(w)[i].script = s}
        mapping(e) == /\ e.kind = "frame" /\ e.epoch = w.pause.epoch
                      /\ e.index \in ofScript
                      /\ Frames(w)[e.index].projected = "pending"
    IN [SetFrames(w, ofScript, "raw") EXCEPT
            !.pending = IF ofScript = {} THEN @ ELSE {e \in @ : ~mapping(e)}]

-----------------------------------------------------------------------------
(***************************************************************************)
(* Inputs: breakpoints.                                                    *)
(***************************************************************************)
ReleaseBreakpoint(w, b) ==
    LET bp == w.breakpoints[b]
        owned == {p \in DOMAIN bp.bindings : p \in DOMAIN w.physical}
        drop(v, p) == DropUnowned([v EXCEPT !.physical[p].owners = @ \ {b}], p)
    IN IF b \in DOMAIN w.breakpoints
       THEN OverKeys(drop, [w EXCEPT !.pending = @ \ bp.mappings], owned)
       ELSE w

NewBreakpoint(generation, source, condition) ==
    [generation |-> generation, source |-> source, condition |-> condition,
     index |-> EmptyIndex, friendly |-> FALSE, mappings |-> {},
     assessments |-> <<>>, bindings |-> <<>>]

SetBreakpoint(w, b, source, condition) ==
    LET generation == IF b \in DOMAIN w.breakpoints
                      THEN w.breakpoints[b].generation + 1 ELSE 1
        failed == {s \in DOMAIN w.scripts :
                     w.scripts[s].source = "failed" /\ MayExpose(s, source)}
        replaced == [ReleaseBreakpoint(w, b) EXCEPT !.breakpoints =
                        With(@, b, NewBreakpoint(generation, source, condition))]
        retry(v, s) == ScheduleSourceHydration(v, s, TRUE)
    IN IF failed = {}
       THEN ReconcileBreakpoint(replaced, b)
       ELSE ReconcileAll(InOrder(retry, replaced, failed))

RemoveBreakpoint(w, b) ==
    [ReleaseBreakpoint(w, b) EXCEPT !.breakpoints = Without(@, {b})]

\* A mapping counts only for the breakpoint, script version and assessment
\* it was scheduled for.
IsCurrentMapping(w, e) ==
    /\ e.script \in DOMAIN w.scripts /\ w.scripts[e.script].version = e.version
    /\ e.breakpoint \in DOMAIN w.breakpoints
    /\ w.breakpoints[e.breakpoint].generation = e.generation
    /\ e.script \in DOMAIN w.breakpoints[e.breakpoint].assessments
    /\ w.breakpoints[e.breakpoint].assessments[e.script] =
           [Assessment(e.version, "mapping") EXCEPT !.candidate = e.candidate]

BreakpointMapped(w, e, positions) ==
    LET b == e.breakpoint
        taken == TakePending(w, e)
        status == IF positions = {} THEN "unmapped" ELSE "applicable"
    IN IF e \in w.pending /\ IsCurrentMapping(w, e)
       THEN ReconcilePhysicalBindings(
                SetAssessment([taken EXCEPT !.breakpoints[b].mappings = @ \ {e}], b, e.script,
                    [Assessment(e.version, status) EXCEPT !.candidate = e.candidate,
                                                         !.positions = positions]),
                b)
       ELSE taken

BreakpointInstalled(w, e) ==
    LET p == e.physical
        taken == TakePending(w, e)
        owners == w.physical[p].owners
        installed == SetBindings([taken EXCEPT !.physical[p].status = "installed"],
                                 owners, p, "installed")
        reconcile(v, b) == ReconcilePhysicalBindings(v, b)
    IN IF e \in w.pending /\ p \in DOMAIN w.physical
       THEN IF owners = {} THEN SchedulePhysicalRemoval(installed, p)
            ELSE InOrder(reconcile, installed, owners)
       ELSE taken

BreakpointRemoved(w, e) ==
    LET p == e.physical
        taken == TakePending(w, e)
    IN CASE \/ e \notin w.pending \/ p \notin DOMAIN w.physical
            \/ w.physical[p].status # "removing" -> taken
         [] OTHER -> IF w.physical[p].owners = {}
                     THEN [taken EXCEPT !.physical = Without(@, {p})]
                     ELSE SchedulePhysicalInstall(taken, p)

-----------------------------------------------------------------------------
(***************************************************************************)
(* Inputs: scripts.                                                        *)
(***************************************************************************)
\* Everything that belongs to the old version of script s goes.
ReleaseScriptVersion(w, s) ==
    LET keys == {p \in DOMAIN w.physical : p.script = s}
        orphan(v, p) == DropUnowned([v EXCEPT !.physical[p].owners = {}], p)
        unbound == [ReleaseFrames(w, s) EXCEPT !.breakpoints =
            [b \in DOMAIN w.breakpoints |->
                [w.breakpoints[b] EXCEPT !.mappings = {e \in @ : e.script # s},
                                         !.assessments = Without(@, {s}),
                                         !.bindings = Without(@, keys)]]]
    IN OverKeys(orphan, unbound, keys)

\* A script that may hold the source is waited for; another one is not found.
AssessParsed(w, b, s) ==
    LET source == w.breakpoints[b].source
        status == StatusWithoutCandidate(s, w.scripts[s], source)
        assessed == SetAssessment(w, b, s, Assessment(w.scripts[s].version, status))
    IN CASE MayExpose(s, source) ->
              ScheduleSourceHydration(
                  [assessed EXCEPT !.breakpoints[b].index.unresolved = @ \cup {s}], s, FALSE)
         [] ~MayExpose(s, source) /\ w.breakpoints[b].bindings # <<>> ->
              ReconcilePhysicalBindings(assessed, b)
         [] OTHER -> assessed

\* A friendly match in use has to be weighed against the new script.
NeedsFullReconciliation(w, b, s) ==
    MayExpose(s, w.breakpoints[b].source) /\ w.breakpoints[b].friendly

ScriptParsed(w, s) ==
    LET again == s \in DOMAIN w.scripts
        version == IF again THEN w.scripts[s].version + 1 ELSE 1
        parsed == [ReleaseScriptVersion(w, s) EXCEPT !.scripts = With(@, s,
                      [version |-> version, source |-> "unresolved",
                       captured |-> NoContent, view |-> {}])]
        assess(v, b) == IF again \/ NeedsFullReconciliation(v, b, s)
                        THEN ReconcileBreakpoint(v, b) ELSE AssessParsed(v, b, s)
        assessed == InOrder(assess, parsed, DOMAIN w.breakpoints)
    IN IF IsStopped(w) /\ RawFrames(assessed, s) # {}
       THEN ScheduleSourceHydration(assessed, s, FALSE)
       ELSE assessed

RequestScriptSource(w, s) == ScheduleSourceHydration(w, s, TRUE)

IsCurrentScript(w, e) ==
    e.script \in DOMAIN w.scripts /\ w.scripts[e.script].version = e.version

ScriptSourceFetched(w, e, content) ==
    LET taken == TakePending(w, e)
    IN IF e \in w.pending /\ IsCurrentScript(w, e)
       THEN Emit([taken EXCEPT !.scripts[e.script].source = "loaded",
                               !.scripts[e.script].captured = content],
                 BuildEffect(e.script, e.version))
       ELSE taken

SourceViewBuilt(w, e, view) ==
    LET taken == TakePending(w, e)
        built == [taken EXCEPT !.scripts[e.script].source = "resolved",
                               !.scripts[e.script].view = view]
    IN IF e \in w.pending /\ IsCurrentScript(w, e)
       THEN ScheduleFrameMappings(ReconcileBuiltScript(built, e.script), e.script)
       ELSE taken

-----------------------------------------------------------------------------
(***************************************************************************)
(* Inputs: the session's execution.                                        *)
(***************************************************************************)
\* A pause of a running session, at frames of the given scripts.
Paused(w, scripts) ==
    LET frames == [i \in DOMAIN scripts |-> [script |-> scripts[i], projected |-> "raw"]]
        paused == [w EXCEPT !.phase = "paused", !.epoch = w.nextEpoch,
                            !.nextEpoch = @ + 1,
                            !.pause = [epoch |-> w.nextEpoch, frames |-> frames],
                            !.pending = IF w.phase = "resuming"
                                        THEN @ \ {ResumeEffect(w.epoch)} ELSE @]
        first(i) == \A j \in 1..(i - 1) : scripts[j] # scripts[i]
        visit(v, i) ==
            IF first(i) /\ scripts[i] \in DOMAIN v.scripts
            THEN IF v.scripts[scripts[i]].source = "resolved"
                 THEN ScheduleFrameMappings(v, scripts[i])
                 ELSE ScheduleSourceHydration(v, scripts[i], FALSE)
            ELSE v
    IN IF w.phase \in {"running", "resuming"}
       THEN InOrder(visit, paused, DOMAIN scripts)
       ELSE w

FrameMapped(w, e) ==
    LET taken == TakePending(w, e)
    IN IF e \in w.pending /\ w.pause # NoPause /\ w.pause.epoch = e.epoch
       THEN SetFrames(taken, {e.index} \cap DOMAIN Frames(w), "resolved")
       ELSE taken

\* Fault: the session runs as soon as it is asked to.
ResumeRequestedAtOnce(w, epoch) ==
    IF w.phase = "paused" /\ w.epoch = epoch
    THEN Emit([w EXCEPT !.phase = "running", !.epoch = 0, !.pause = NoPause],
              ResumeEffect(epoch))
    ELSE w

\* Resume and step differ in the command that is sent.
ResumeRequested(w, epoch) ==
    IF w.phase = "paused" /\ w.epoch = epoch
    THEN Emit([w EXCEPT !.phase = "resuming"], ResumeEffect(epoch))
    ELSE w

\* Fault: only a session that did not ask to resume is taken to have resumed.
ResumedByOthers(w, epoch) ==
    IF w.phase = "paused" /\ w.epoch = epoch
    THEN [w EXCEPT !.phase = "running", !.epoch = 0, !.pause = NoPause,
                   !.pending = {e \in @ : ~(e.kind = "frame" /\ e.epoch = epoch)}]
    ELSE w

Resumed(w, epoch) ==
    IF IsStopped(w) /\ w.epoch = epoch /\ w.pause # NoPause /\ w.pause.epoch = epoch
    THEN [w EXCEPT !.phase = "running", !.epoch = 0, !.pause = NoPause,
                   !.pending = {e \in @ : ~(e.kind = "frame" /\ e.epoch = epoch)}]
    ELSE w

ReleaseIfWaiting(w) ==
    IF w.waiting /\ w.phase = "running" THEN Emit(w, ReleaseEffect) ELSE w

CommandAccepted(w, e) ==
    IF e \notin w.pending THEN w
    ELSE IF e.kind = "release" THEN [TakePending(w, e) EXCEPT !.waiting = FALSE]
         ELSE TakePending(w, e)

-----------------------------------------------------------------------------
(***************************************************************************)
(* Inputs: failed effects.  Only a failure to fetch or build a source or   *)
(* to project a frame comes back as an input.                              *)
(***************************************************************************)
SourceFailed(w, e) ==
    LET taken == TakePending(w, e)
        failed == [taken EXCEPT !.scripts[e.script].source = "failed"]
    IN IF e \in w.pending /\ IsCurrentScript(w, e)
       THEN ReconcileAll(SetFrames(failed, RawFrames(w, e.script), "failed"))
       ELSE taken

FrameFailed(w, e) ==
    LET taken == TakePending(w, e)
    IN IF /\ e \in w.pending /\ w.pause # NoPause /\ w.pause.epoch = e.epoch
          /\ e.index \in DOMAIN Frames(w) /\ Frames(w)[e.index].projected = "pending"
       THEN SetFrames(taken, {e.index}, "failed")
       ELSE taken

=============================================================================
