-------------------- MODULE DebuggerReconciliationProofs --------------------
(***************************************************************************)
(* Proofs that the incremental reconciliation of the debugger engine comes *)
(* to what a full one would: QuietIsDecided and QuietIsReconciled of       *)
(* DebuggerDriver.                                                         *)
(*                                                                         *)
(* Both are about states at rest and are not inductive.  What every step   *)
(* keeps is Quiet(state), whether or not work is pending:                  *)
(*                                                                         *)
(*   SourcesAsked   a source on its way has its effect pending;            *)
(*   Mapping        the mappings a breakpoint waits for are pending, and   *)
(*                  what it has assessed is the current version;           *)
(*   Judged         its index says of each script what the script says,    *)
(*                  and the script is assessed by the selection of it;     *)
(*   Wanted         every script that may hold its source was asked for;   *)
(*   Placed         it is bound wherever it belongs, and nowhere else once *)
(*                  that is decided and installed.                         *)
(*                                                                         *)
(* A script on its way is the exception to Judged: its index entry may lag *)
(* behind, and it may be left waiting.  With nothing pending no script is  *)
(* on its way, and the exception is void.                                  *)
(***************************************************************************)
EXTENDS DebuggerDriverProofs

(***************************************************************************)
(* What the assessments of a breakpoint know.                              *)
(***************************************************************************)
OfScript(X, s) == {x \in X : x[1] = s}

IsInFlight(script) == script.source \in {"pending", "loaded"}

\* A source on its way has its effect pending, and an effect for the current
\* version of a script finds the source where it left it.
SourcesAsked(w) ==
  /\ \A s \in DOMAIN w.scripts :
       LET script == w.scripts[s]
       IN /\ script.source = "pending" => FetchEffect(s, script.version) \in w.pending
          /\ script.source = "loaded" => BuildEffect(s, script.version) \in w.pending
          /\ script.captured \in {NoContent, ScriptText[s]}
  /\ \A e \in w.pending : e.kind \in {"fetch", "build"} =>
       /\ e.script \in DOMAIN w.scripts /\ e.version <= w.scripts[e.script].version
       /\ e.version = w.scripts[e.script].version =>
            w.scripts[e.script].source = IF e.kind = "fetch" THEN "pending" ELSE "loaded"

Own(w, b, s) == IndexScript(w.breakpoints[b].source, s, w.scripts[s])

\* The index of b says of script s what the script says, but for the content
\* of a script that is on its way.
Indexed(w, b, s) ==
  LET index == w.breakpoints[b].index
      own == Own(w, b, s)
  IN /\ OfScript(index.friendly, s) = own.friendly
     /\ OfScript(index.exact, s) \subseteq own.exact
     /\ s \in index.unresolved => s \in own.unresolved
     /\ ~IsInFlight(w.scripts[s]) =>
          own.exact \subseteq index.exact /\ (s \in own.unresolved => s \in index.unresolved)

\* x is the selection of index i, by the four kinds.
Selects(x, i) ==
  LET bucket == IF i.exact = {} THEN i.friendly ELSE i.exact
      candidates == {e[2] : e \in bucket}
      scripts == {e[1] : e \in bucket}
      many == Cardinality(candidates) > 1
      waits == Cardinality(candidates) = 1 /\ i.exact = {} /\ i.unresolved # {}
  IN \/ /\ candidates = {} /\ x.kind = "none"
        /\ x.candidates = {} /\ x.scripts = {} /\ x.friendly = FALSE
     \/ /\ candidates # {} /\ many /\ x.kind = "ambiguous"
        /\ x.candidates = candidates /\ x.scripts = scripts /\ x.friendly = FALSE
     \/ /\ candidates # {} /\ ~many /\ waits /\ x.kind = "waiting"
        /\ x.candidates = {} /\ x.scripts = scripts \cup i.unresolved /\ x.friendly = FALSE
     \/ /\ candidates # {} /\ ~many /\ ~waits /\ x.kind = "unique"
        /\ x.candidates = candidates /\ x.scripts = scripts /\ x.friendly = (i.exact = {})

Chosen(x, s) == x.kind = "unique" /\ s \in x.scripts

\* Script s is assessed by selection x; one that is on its way and left waiting
\* is waited for, or selected.
MatchedBy(w, b, s, x) ==
  LET bp == w.breakpoints[b]
  IN IF IsInFlight(w.scripts[s])
     THEN (s \in DOMAIN bp.assessments /\ bp.assessments[s].status = "waiting"
             /\ s \notin bp.index.unresolved) => Chosen(x, s)
     ELSE /\ Chosen(x, s) /\ w.scripts[s].source = "resolved" =>
               IsReusable(w, b, s, CHOOSE c \in x.candidates : TRUE)
          /\ ~Chosen(x, s) =>
               /\ s \in DOMAIN bp.assessments
               /\ bp.assessments[s] =
                    Assessment(w.scripts[s].version,
                      IF s \in x.scripts THEN x.kind
                      ELSE StatusWithoutCandidate(s, w.scripts[s], bp.source))

\* Effect e asks for the mapping that assessment a of breakpoint b waits for.
Scheduled(w, b, e) ==
  LET bp == w.breakpoints[b]
  IN /\ e \in w.pending /\ e.script \in DOMAIN bp.assessments
     /\ bp.assessments[e.script].status = "mapping"
     /\ e = MapEffect(b, bp.generation, e.script, w.scripts[e.script].version,
                      bp.assessments[e.script].candidate)

\* The assessment of script s is of its version; only what was built is mapped.
Timely(w, b, s) ==
  LET bp == w.breakpoints[b]
      a == bp.assessments[s]
  IN /\ s \in DOMAIN w.scripts /\ a.version = w.scripts[s].version
     /\ a.status \in {"mapping", "applicable", "unmapped"} => w.scripts[s].source = "resolved"
     /\ a.status = "mapping" =>
          a.positions = {} /\ MapEffect(b, bp.generation, s, a.version, a.candidate) \in bp.mappings

\* The mappings of b are the pending ones its assessments wait for.
Mapping(w, b) ==
  /\ \A e \in w.breakpoints[b].mappings : Scheduled(w, b, e)
  /\ \A s \in DOMAIN w.breakpoints[b].assessments : Timely(w, b, s)

Judged(w, b, D) ==
  LET bp == w.breakpoints[b]
      x == Selection(bp.index)
  IN /\ bp.friendly = x.friendly
     /\ \A s \in D : Indexed(w, b, s) /\ MatchedBy(w, b, s, x)

\* Every script that may hold the source was asked for.
Wanted(w, b) ==
  \A s \in DOMAIN w.scripts :
     w.scripts[s].source = "unresolved" => ~MayExpose(s, w.breakpoints[b].source)

\* Breakpoint b is bound wherever it belongs, and nowhere else once that is
\* decided and installed.
Placed(w, b) ==
  LET bindings == w.breakpoints[b].bindings
  IN /\ Desired(w, b) \subseteq DOMAIN bindings
     /\ w.breakpoints[b].index.unresolved = {} /\ Decided(w, b)
        /\ (\A p \in Desired(w, b) : IsInstalled(w, p)) => DOMAIN bindings \subseteq Desired(w, b)

Reconciled(w, b) ==
  Mapping(w, b) /\ Judged(w, b, DOMAIN w.scripts) /\ Wanted(w, b) /\ Placed(w, b)

Quiet(w) == SourcesAsked(w) /\ \A b \in DOMAIN w.breakpoints : Reconciled(w, b)

-----------------------------------------------------------------------------
\* Script x may become y while breakpoints wait for it.
Advances(x, y) ==
  \/ y = x
  \/ /\ y.version = x.version /\ IsInFlight(y) /\ x.source # "resolved"
     /\ x.captured \in {NoContent, y.captured}

\* Record x of a breakpoint knows what y knows.
SameKnowledge(x, y) ==
  /\ x.generation = y.generation /\ x.source = y.source /\ x.condition = y.condition
  /\ x.index = y.index /\ x.friendly = y.friendly
  /\ x.mappings = y.mappings /\ x.assessments = y.assessments

\* What b knows is kept, but for scripts that advance.
Knows(v, w, b) ==
  /\ DOMAIN v.scripts = DOMAIN w.scripts
  /\ \A s \in DOMAIN w.scripts : Advances(w.scripts[s], v.scripts[s])
  /\ SameKnowledge(v.breakpoints[b], w.breakpoints[b])
  /\ \A e \in w.breakpoints[b].mappings : e \in w.pending => e \in v.pending

\* And so is where it is bound, of which nothing becomes installed.
Leaves(v, w, b) ==
  /\ Knows(v, w, b)
  /\ DOMAIN v.breakpoints[b].bindings = DOMAIN w.breakpoints[b].bindings
  /\ \A p \in DOMAIN w.breakpoints[b].bindings : IsInstalled(v, p) => IsInstalled(w, p)

\* What is pending for the sources stays as it is.
SameSources(v, w) ==
  \A e : e.kind \in {"fetch", "build"} => (e \in v.pending <=> e \in w.pending)

\* Breakpoint b has the given mappings and assessments, and y is pending.
NowAssesses(v, w, b, mappings, assessments, y) ==
  /\ v.scripts = w.scripts /\ v.physical = w.physical
  /\ DOMAIN v.breakpoints = DOMAIN w.breakpoints
  /\ \A c \in DOMAIN w.breakpoints \ {b} : v.breakpoints[c] = w.breakpoints[c]
  /\ LET x == v.breakpoints[b]
         old == w.breakpoints[b]
     IN /\ x.generation = old.generation /\ x.source = old.source
        /\ x.condition = old.condition /\ x.index = old.index
        /\ x.friendly = old.friendly /\ x.bindings = old.bindings
        /\ x.mappings = mappings /\ x.assessments = assessments
  /\ v.pending = y

Cancelled(w, b, s) == {e \in w.breakpoints[b].mappings : e.script = s}

\* Breakpoint b assesses the scripts S anew, nothing else happens.
AssessesAt(v, w, b, S) ==
  /\ v.scripts = w.scripts /\ v.physical = w.physical
  /\ DOMAIN v.breakpoints = DOMAIN w.breakpoints
  /\ \A c \in DOMAIN w.breakpoints \ {b} : v.breakpoints[c] = w.breakpoints[c]
  /\ LET x == v.breakpoints[b]
         y == w.breakpoints[b]
     IN /\ x.generation = y.generation /\ x.source = y.source /\ x.condition = y.condition
        /\ x.index = y.index /\ x.friendly = y.friendly /\ x.bindings = y.bindings
        /\ \A e : e.script \notin S => (e \in x.mappings <=> e \in y.mappings)
        /\ \A t : t \notin S =>
             /\ t \in DOMAIN x.assessments <=> t \in DOMAIN y.assessments
             /\ t \in DOMAIN y.assessments => x.assessments[t] = y.assessments[t]
        /\ \A t \in DOMAIN x.assessments : x.assessments[t].status \in {"applicable", "unmapped"}
             => t \in DOMAIN y.assessments /\ x.assessments[t] = y.assessments[t]
  /\ \A e : ~(e.kind = "map" /\ e.breakpoint = b /\ e.script \in S)
            => (e \in v.pending <=> e \in w.pending)

\* A script on its way that may be assessed by x.
Fitting(w, b, s, x) ==
  IsInFlight(w.scripts[s]) =>
     \/ s \in w.breakpoints[b].index.unresolved
     \/ s \in x.scripts /\ x.kind # "waiting"
     \/ s \notin x.scripts /\ ~MayExpose(s, w.breakpoints[b].source)

-----------------------------------------------------------------------------
(***************************************************************************)
(* Selections, and what is kept of a breakpoint while scripts advance and  *)
(* bindings are made.                                                      *)
(***************************************************************************)

\* A selection is of one of the four kinds.
LEMMA SelectionIs ==
  ASSUME NEW i
  PROVE  Selects(Selection(i), i)
<1> DEFINE friendly == i.exact = {}
           bucket == IF friendly THEN i.friendly ELSE i.exact
           candidates == {e[2] : e \in bucket}
           scripts == {e[1] : e \in bucket}
           many == Cardinality(candidates) > 1
           waits == Cardinality(candidates) = 1 /\ friendly /\ i.unresolved # {}
           x == Selection(i)
<1>1. x = CASE candidates = {} ->
              [kind |-> "none", candidates |-> {}, scripts |-> {}, friendly |-> FALSE]
         [] many ->
              [kind |-> "ambiguous", candidates |-> candidates, scripts |-> scripts,
               friendly |-> FALSE]
         [] waits ->
              [kind |-> "waiting", candidates |-> {},
               scripts |-> scripts \cup i.unresolved, friendly |-> FALSE]
         [] OTHER ->
              [kind |-> "unique", candidates |-> candidates, scripts |-> scripts,
               friendly |-> friendly]
  BY DEF Selection
<1>2. Selects(x, i) <=>
     \/ /\ candidates = {} /\ x.kind = "none"
        /\ x.candidates = {} /\ x.scripts = {} /\ x.friendly = FALSE
     \/ /\ candidates # {} /\ many /\ x.kind = "ambiguous"
        /\ x.candidates = candidates /\ x.scripts = scripts /\ x.friendly = FALSE
     \/ /\ candidates # {} /\ ~many /\ waits /\ x.kind = "waiting"
        /\ x.candidates = {} /\ x.scripts = scripts \cup i.unresolved /\ x.friendly = FALSE
     \/ /\ candidates # {} /\ ~many /\ ~waits /\ x.kind = "unique"
        /\ x.candidates = candidates /\ x.scripts = scripts /\ x.friendly = friendly
  BY DEF Selects
<1> SUFFICES Selects(x, i)
  OBVIOUS
<1> HIDE DEF candidates, scripts, x
<1>3. CASE candidates = {}
  <2>1. Cardinality(candidates) = 0
    BY <1>3, FS_EmptySet
  <2> QED BY <1>1, <1>2, <1>3, <2>1
<1>7. ~(Cardinality(candidates) > 1 /\ Cardinality(candidates) = 1)
  OBVIOUS
<1>4. CASE candidates # {} /\ many
  <2>1. x = [kind |-> "ambiguous", candidates |-> candidates, scripts |-> scripts,
             friendly |-> FALSE]
    BY <1>1, <1>4, <1>7
  <2> QED BY <1>2, <1>4, <2>1
<1>5. CASE candidates # {} /\ ~many /\ waits
  <2>1. x = [kind |-> "waiting", candidates |-> {},
             scripts |-> scripts \cup i.unresolved, friendly |-> FALSE]
    BY <1>1, <1>5
  <2> QED BY <1>2, <1>5, <2>1
<1>6. CASE candidates # {} /\ ~many /\ ~waits
  BY <1>1, <1>2, <1>6
<1> QED BY <1>3, <1>4, <1>5, <1>6

\* What waits has a script that may still match; a script that waits is one, or
\* matches already.
LEMMA WaitsFor ==
  ASSUME NEW i, Selection(i).kind = "waiting"
  PROVE  /\ i.unresolved # {}
         /\ \A s \in Selection(i).scripts : s \in i.unresolved \/ OfScript(i.friendly, s) # {}
<1>1. Selection(i).scripts = {e[1] : e \in i.friendly} \cup i.unresolved /\ i.unresolved # {}
  BY SelectionIs DEF Selects
<1>2. \A e \in i.friendly : e \in OfScript(i.friendly, e[1])
  BY DEF OfScript
<1> QED BY <1>1, <1>2

\* A script that advances says no less about what a breakpoint asks for.
LEMMA AdvancedIndex ==
  ASSUME NEW x, NEW y, Advances(x, y), NEW source, NEW s
  PROVE  LET i == IndexScript(source, s, x)
             j == IndexScript(source, s, y)
         IN /\ j.friendly = i.friendly /\ i.exact \subseteq j.exact
            /\ s \in i.unresolved => s \in j.unresolved
<1>1. CASE y = x
  BY <1>1
<1>2. CASE y # x
  <2>1. y.source # "resolved" /\ x.source # "resolved" /\ IsUnbuilt(y)
    BY <1>2 DEF Advances, IsInFlight, IsUnbuilt
  <2>2. x.captured = NoContent \/ x.captured = y.captured
    BY <1>2 DEF Advances
  <2> QED BY <2>1, <2>2 DEF IndexScript
<1> QED BY <1>1, <1>2

\* What a breakpoint knows stays so while scripts advance.
LEMMA KnowsKeeps ==
  ASSUME NEW v, NEW w, NEW b, Knows(v, w, b)
  PROVE  /\ Mapping(w, b) => Mapping(v, b)
         /\ Wanted(w, b) => Wanted(v, b)
         /\ \A D \in SUBSET DOMAIN w.scripts : Judged(w, b, D) => Judged(v, b, D)
<1>1. /\ SameKnowledge(v.breakpoints[b], w.breakpoints[b])
      /\ \A e \in w.breakpoints[b].mappings : e \in w.pending => e \in v.pending
      /\ DOMAIN v.scripts = DOMAIN w.scripts
      /\ \A s \in DOMAIN w.scripts :
            /\ Advances(w.scripts[s], v.scripts[s])
            /\ v.scripts[s].version = w.scripts[s].version
            /\ w.scripts[s].source = "resolved" => v.scripts[s] = w.scripts[s]
  BY DEF Knows, Advances
<1>2. ASSUME Mapping(w, b) PROVE Mapping(v, b)
  <2>1. \A s \in DOMAIN w.breakpoints[b].assessments : Timely(v, b, s)
    BY <1>1, <1>2 DEF Mapping, Timely, SameKnowledge
  <2>2. \A e \in w.breakpoints[b].mappings : Scheduled(v, b, e)
    BY <1>1, <1>2 DEF Mapping, Timely, Scheduled, SameKnowledge
  <2>3. /\ v.breakpoints[b].mappings = w.breakpoints[b].mappings
        /\ v.breakpoints[b].assessments = w.breakpoints[b].assessments
    BY <1>1 DEF SameKnowledge
  <2> QED BY <2>1, <2>2, <2>3 DEF Mapping
<1>3. ASSUME Wanted(w, b) PROVE Wanted(v, b)
  <2>1. ASSUME NEW s \in DOMAIN w.scripts, v.scripts[s].source = "unresolved"
        PROVE  w.scripts[s].source = "unresolved"
    <3>1. Advances(w.scripts[s], v.scripts[s])
      BY <1>1
    <3> QED BY <2>1, <3>1 DEF Advances, IsInFlight
  <2>2. v.breakpoints[b].source = w.breakpoints[b].source
    BY <1>1 DEF SameKnowledge
  <2> QED BY <1>1, <1>3, <2>1, <2>2 DEF Wanted
<1>4. ASSUME NEW s \in DOMAIN w.scripts, Indexed(w, b, s)
      PROVE  Indexed(v, b, s)
  <2>1. v.breakpoints[b].index = w.breakpoints[b].index
    BY <1>1 DEF SameKnowledge
  <2>2. /\ Own(v, b, s).friendly = Own(w, b, s).friendly
        /\ Own(w, b, s).exact \subseteq Own(v, b, s).exact
        /\ s \in Own(w, b, s).unresolved => s \in Own(v, b, s).unresolved
    BY <1>1, AdvancedIndex DEF Own, SameKnowledge
  <2>3. IsInFlight(v.scripts[s]) \/ (Own(v, b, s) = Own(w, b, s) /\ v.scripts[s] = w.scripts[s])
    <3>1. v.scripts[s] = w.scripts[s] \/ IsInFlight(v.scripts[s])
      BY <1>1 DEF Advances
    <3>2. v.breakpoints[b].source = w.breakpoints[b].source
      BY <1>1 DEF SameKnowledge
    <3> QED BY <3>1, <3>2 DEF Own
  <2>4. CASE v.scripts[s] = w.scripts[s] /\ Own(v, b, s) = Own(w, b, s)
    BY <1>4, <2>1, <2>4 DEF Indexed
  <2>5. CASE IsInFlight(v.scripts[s])
    <3> DEFINE own == Own(v, b, s)
               before == Own(w, b, s)
    <3> HIDE DEF own, before
    <3>1. own.friendly = before.friendly /\ before.exact \subseteq own.exact
          /\ (s \in before.unresolved => s \in own.unresolved)
      BY <2>2 DEF own, before
    <3> QED BY <1>4, <2>1, <2>5, <3>1 DEF Indexed, own, before
  <2> QED BY <2>3, <2>4, <2>5
<1>5. ASSUME NEW s \in DOMAIN w.scripts, NEW x, x = Selection(w.breakpoints[b].index),
             Indexed(w, b, s), MatchedBy(w, b, s, x)
      PROVE  MatchedBy(v, b, s, x)
  <2>1. CASE v.scripts[s] = w.scripts[s]
    <3>1. \A c : IsReusable(w, b, s, c) => IsReusable(v, b, s, c)
      BY <1>1, <2>1 DEF IsReusable, SameKnowledge
    <3> QED BY <1>1, <1>5, <2>1, <3>1 DEF MatchedBy, SameKnowledge
  <2>2. CASE v.scripts[s] # w.scripts[s]
    <3>1. IsInFlight(v.scripts[s]) /\ w.scripts[s].source # "resolved"
      BY <1>1, <2>2 DEF Advances
    <3>2. CASE IsInFlight(w.scripts[s])
      BY <1>1, <1>5, <3>1, <3>2 DEF MatchedBy, SameKnowledge
    <3>3. CASE ~IsInFlight(w.scripts[s])
      <4> DEFINE bp == w.breakpoints[b]
      <4> SUFFICES ASSUME s \in DOMAIN bp.assessments, bp.assessments[s].status = "waiting",
                          s \notin bp.index.unresolved, ~Chosen(x, s)
                   PROVE  FALSE
        BY <1>1, <3>1 DEF MatchedBy, SameKnowledge
      <4>1. "waiting" = IF s \in x.scripts THEN x.kind
                        ELSE StatusWithoutCandidate(s, w.scripts[s], bp.source)
        BY <1>5, <3>3 DEF MatchedBy, Assessment
      <4>2. OfScript(bp.index.friendly, s) = {} /\ s \notin Own(w, b, s).unresolved
        BY <1>5, <3>1, <3>3 DEF Indexed, Own, IndexScript
      <4>3. s \notin x.scripts
        BY <1>5, <4>1, <4>2, WaitsFor
      <4>4. IsUnbuilt(w.scripts[s]) /\ MayExpose(s, bp.source)
        BY <4>1, <4>3 DEF StatusWithoutCandidate
      <4> QED BY <4>2, <4>4 DEF Own, IndexScript
    <3> QED BY <3>2, <3>3
  <2> QED BY <2>1, <2>2
<1>6. ASSUME NEW D \in SUBSET DOMAIN w.scripts, Judged(w, b, D) PROVE Judged(v, b, D)
  BY <1>1, <1>4, <1>5, <1>6 DEF Judged, SameKnowledge
<1> QED BY <1>2, <1>3, <1>6

\* A breakpoint that is left alone stays where it belongs.
LEMMA PlacedStays ==
  ASSUME NEW v, NEW w, NEW b, Leaves(v, w, b), Placed(w, b)
  PROVE  Placed(v, b)
<1>1. /\ DOMAIN v.scripts = DOMAIN w.scripts /\ SameVersions(v, w)
      /\ v.breakpoints[b].condition = w.breakpoints[b].condition
      /\ v.breakpoints[b].index = w.breakpoints[b].index
      /\ v.breakpoints[b].assessments = w.breakpoints[b].assessments
  BY DEF Leaves, Knows, Advances, SameKnowledge, SameVersions
<1>2. Desired(v, b) = Desired(w, b)
  BY <1>1, DesiredSame
<1>3. Decided(v, b) <=> Decided(w, b)
  BY <1>1 DEF Decided
<1> QED BY <1>1, <1>2, <1>3 DEF Placed, Leaves

\* It stays reconciled.
LEMMA LeavesReconciled ==
  ASSUME NEW v, NEW w, NEW b, Leaves(v, w, b), Reconciled(w, b)
  PROVE  Reconciled(v, b)
<1>1. Knows(v, w, b) /\ DOMAIN v.scripts = DOMAIN w.scripts
  BY DEF Leaves, Knows
<1> QED BY <1>1, PlacedStays, KnowsKeeps DEF Reconciled

\* What is left alone twice is left alone.
LEMMA LeavesTransitive ==
  ASSUME NEW w, NEW v, NEW u, NEW b, Leaves(v, w, b), Leaves(u, v, b)
  PROVE  Leaves(u, w, b)
<1>1. ASSUME NEW x, NEW y, NEW z, Advances(x, y), Advances(y, z)
      PROVE  Advances(x, z)
  BY <1>1 DEF Advances, IsInFlight
<1>2. \A s \in DOMAIN w.scripts : Advances(w.scripts[s], u.scripts[s])
  BY <1>1 DEF Leaves, Knows
<1>3. /\ \A e \in w.breakpoints[b].mappings : e \in w.pending => e \in u.pending
      /\ SameKnowledge(u.breakpoints[b], w.breakpoints[b])
      /\ DOMAIN u.scripts = DOMAIN w.scripts
  BY DEF Leaves, Knows, SameKnowledge
<1> QED BY <1>2, <1>3 DEF Leaves, Knows

\* What was asked for the sources stays asked.
LEMMA SourcesStay ==
  ASSUME NEW v, NEW w, v.scripts = w.scripts, SameSources(v, w), SourcesAsked(w)
  PROVE  SourcesAsked(v)
<1>1. \A s, n : /\ FetchEffect(s, n) \in w.pending => FetchEffect(s, n) \in v.pending
                /\ BuildEffect(s, n) \in w.pending => BuildEffect(s, n) \in v.pending
  BY DEF SameSources, FetchEffect, BuildEffect
<1>2. \A e \in v.pending : e.kind \in {"fetch", "build"} => e \in w.pending
  BY DEF SameSources
<1> QED BY <1>1, <1>2 DEF SourcesAsked

\* What rebinding leaves alone: the sources, what breakpoints know, and where the
\* others are bound.
LEMMA RebindsLeaves ==
  ASSUME NEW v, NEW w, NEW Q, Rebinds(v, w, Q)
  PROVE  /\ SourcesAsked(w) => SourcesAsked(v)
         /\ \A c \in DOMAIN w.breakpoints :
              /\ Knows(v, w, c)
              /\ DOMAIN v.breakpoints[c].bindings = DOMAIN w.breakpoints[c].bindings
                   => Leaves(v, w, c)
<1>1. v.scripts = w.scripts /\ SameSources(v, w)
  BY DEF Rebinds, SameButBindings, SameSources, AddsPhysical, IsPhysicalEffect
<1>2. \A c \in DOMAIN w.breakpoints : Knows(v, w, c)
  BY <1>1 DEF Rebinds, SameButBindings, SameSpecification, Knows, SameKnowledge, Advances
<1>3. \A p : IsInstalled(v, p) => IsInstalled(w, p)
  BY DEF Rebinds, IsInstalled
<1> QED BY <1>1, <1>2, <1>3, SourcesStay DEF Leaves

\* A breakpoint whose bindings are settled is where it belongs.
LEMMA SettledPlaces ==
  ASSUME NEW v, NEW w, NEW Q, NEW b \in DOMAIN w.breakpoints, Settled(v, w, Q, b)
  PROVE  /\ Placed(v, b) /\ Knows(v, w, b)
         /\ SourcesAsked(w) => SourcesAsked(v)
         /\ \A c \in DOMAIN w.breakpoints \ {b} : Leaves(v, w, c)
<1>1. Rebinds(v, w, Q) /\ OthersBound(v, w, b)
  BY DEF Settled
<1>2. /\ Knows(v, w, b)
      /\ SourcesAsked(w) => SourcesAsked(v)
      /\ \A c \in DOMAIN w.breakpoints \ {b} : Leaves(v, w, c)
  BY <1>1, RebindsLeaves DEF OthersBound
<1>3. /\ DOMAIN v.scripts = DOMAIN w.scripts /\ SameVersions(v, w)
      /\ v.breakpoints[b].condition = w.breakpoints[b].condition
      /\ v.breakpoints[b].assessments = w.breakpoints[b].assessments
  BY <1>2 DEF Knows, Advances, SameKnowledge, SameVersions
<1>4. Desired(v, b) = Desired(w, b)
  BY <1>3, DesiredSame
<1>5. Decided(v, b) <=> Decided(w, b)
  BY <1>3 DEF Decided
<1>6. Placed(v, b)
  <2> QED BY <1>4, <1>5 DEF Settled, Placed
<1> QED BY <1>2, <1>6

-----------------------------------------------------------------------------
(***************************************************************************)
(* Assessing scripts for one breakpoint: cancelled and scheduled mappings, *)
(* and the assessments that are left.                                      *)
(***************************************************************************)

\* What is assessed twice for one breakpoint is assessed for both sets of scripts.
LEMMA AssessesAtTransitive ==
  ASSUME NEW w, NEW v, NEW u, NEW b, NEW S, NEW R, AssessesAt(v, w, b, S), AssessesAt(u, v, b, R)
  PROVE  AssessesAt(u, w, b, S \cup R)
BY DEF AssessesAt

\* Nothing was assessed.
LEMMA AssessesAtReflexive ==
  ASSUME NEW w, NEW b, NEW S
  PROVE  AssessesAt(w, w, b, S)
BY DEF AssessesAt

\* What CancelBreakpointMapping changes.
LEMMA CancelIs ==
  ASSUME NEW w, IsState(w), NEW b \in DOMAIN w.breakpoints, NEW s
  PROVE  NowAssesses(CancelBreakpointMapping(w, b, s), w, b,
                     w.breakpoints[b].mappings \ Cancelled(w, b, s),
                     w.breakpoints[b].assessments, w.pending \ Cancelled(w, b, s))
<1>1. w.breakpoints[b] \in BreakpointOver(DOMAIN w.scripts)
  BY StateTyped
<1> QED BY <1>1 DEF CancelBreakpointMapping, NowAssesses, IsState, States, StatesOver,
                    BreakpointOver, Cancelled

\* What SetAssessment changes.
LEMMA AssessmentIs ==
  ASSUME NEW w, IsState(w), NEW b \in DOMAIN w.breakpoints, NEW s, NEW a
  PROVE  NowAssesses(SetAssessment(w, b, s, a), w, b, w.breakpoints[b].mappings,
                     With(w.breakpoints[b].assessments, s, a), w.pending)
<1>1. w.breakpoints[b] \in BreakpointOver(DOMAIN w.scripts)
  BY StateTyped
<1> QED BY <1>1 DEF SetAssessment, NowAssesses, IsState, States, StatesOver, BreakpointOver

\* What ReplaceAssessment changes.
LEMMA ReplaceIs ==
  ASSUME NEW w, IsState(w), NEW b \in DOMAIN w.breakpoints, NEW s \in DOMAIN w.scripts, NEW k
  PROVE  NowAssesses(ReplaceAssessment(w, b, s, k), w, b,
           w.breakpoints[b].mappings \ Cancelled(w, b, s),
           With(w.breakpoints[b].assessments, s, Assessment(w.scripts[s].version, k)),
           w.pending \ Cancelled(w, b, s))
<1> DEFINE v == CancelBreakpointMapping(w, b, s)
           a == Assessment(w.scripts[s].version, k)
           u == SetAssessment(v, b, s, a)
<1>1. v \in Assessed(w, {b})
  BY CancelAssesses
<1>2. NowAssesses(v, w, b, w.breakpoints[b].mappings \ Cancelled(w, b, s),
                  w.breakpoints[b].assessments, w.pending \ Cancelled(w, b, s))
  BY CancelIs
<1> HIDE DEF v, a
<1>3. IsState(v) /\ b \in DOMAIN v.breakpoints
  BY <1>1, AssessedIsState
<1>4. NowAssesses(u, v, b, v.breakpoints[b].mappings, With(v.breakpoints[b].assessments, s, a),
                  v.pending)
  BY <1>3, AssessmentIs
<1> HIDE DEF u
<1>5. NowAssesses(u, w, b, w.breakpoints[b].mappings \ Cancelled(w, b, s),
                  With(w.breakpoints[b].assessments, s, a), w.pending \ Cancelled(w, b, s))
  BY <1>2, <1>4 DEF NowAssesses
<1> QED BY <1>5 DEF u, v, a, ReplaceAssessment

\* What ScheduleMapping changes where there is no mapping yet.
LEMMA ScheduleIs ==
  ASSUME NEW w, IsState(w), NEW b \in DOMAIN w.breakpoints, NEW s \in DOMAIN w.scripts,
         NEW c, \A m \in w.breakpoints[b].mappings : m.script # s,
         w.scripts[s].source = "resolved",
         NEW e, e = MapEffect(b, w.breakpoints[b].generation, s, w.scripts[s].version, c)
  PROVE  NowAssesses(ScheduleMapping(w, b, s, c), w, b, w.breakpoints[b].mappings \cup {e},
           With(w.breakpoints[b].assessments, s,
                [Assessment(w.scripts[s].version, "mapping") EXCEPT !.candidate = c]),
           w.pending \cup {e})
<1> DEFINE a == [Assessment(e.version, "mapping") EXCEPT !.candidate = c]
           r == [w EXCEPT !.breakpoints[b].mappings = @ \cup {e}]
           u == SetAssessment(r, b, s, a)
<1>1. w.breakpoints[b] \in BreakpointOver(DOMAIN w.scripts)
  BY StateTyped
<1>2. ScheduleMapping(w, b, s, c) = Emit(u, e) /\ e.version = w.scripts[s].version
  BY DEF ScheduleMapping, MapEffect
<1> HIDE DEF a
<1>3. NowAssesses(u, w, b, w.breakpoints[b].mappings \cup {e},
                  With(w.breakpoints[b].assessments, s, a), w.pending)
  BY <1>1 DEF SetAssessment, NowAssesses, IsState, States, StatesOver, BreakpointOver
<1>4. NowAssesses(Emit(u, e), w, b, w.breakpoints[b].mappings \cup {e},
                  With(w.breakpoints[b].assessments, s, a), w.pending \cup {e})
  <2>2. /\ Emit(u, e).scripts = u.scripts /\ Emit(u, e).physical = u.physical
        /\ Emit(u, e).breakpoints = u.breakpoints /\ Emit(u, e).pending = u.pending \cup {e}
    BY DEF Emit, SetAssessment, IsState, States, StatesOver
  <2> HIDE DEF u
  <2> QED BY <1>3, <2>2 DEF NowAssesses
<1> QED BY <1>2, <1>4 DEF a

\* A mapping that a breakpoint waits for is an effect of that breakpoint.
LEMMA MappingsAre ==
  ASSUME NEW w, NEW b, Mapping(w, b)
  PROVE  \A e \in w.breakpoints[b].mappings : e.kind = "map" /\ e.breakpoint = b
BY DEF Mapping, Scheduled, MapEffect

\* A status of a script that is not mapped.
IsUnmapped(k) == k \notin {"mapping", "applicable", "unmapped"}

\* Script s is assessed with status k, and the mappings are in order.
NowHas(v, w, b, s, k) ==
  /\ AssessesAt(v, w, b, {s}) /\ Mapping(v, b) /\ s \in DOMAIN v.breakpoints[b].assessments
  /\ v.breakpoints[b].assessments[s] = Assessment(w.scripts[s].version, k)

\* Replacing an assessment keeps the mappings in order.
LEMMA ReplaceMatches ==
  ASSUME NEW w, IsState(w), NEW b \in DOMAIN w.breakpoints, NEW s \in DOMAIN w.scripts,
         NEW k, IsUnmapped(k), Mapping(w, b)
  PROVE  NowHas(ReplaceAssessment(w, b, s, k), w, b, s, k)
<1> DEFINE v == ReplaceAssessment(w, b, s, k)
           C == Cancelled(w, b, s)
           old == w.breakpoints[b].assessments
           a == Assessment(w.scripts[s].version, k)
           now == With(old, s, a)
<1>1. NowAssesses(v, w, b, w.breakpoints[b].mappings \ C, now, w.pending \ C)
  BY ReplaceIs
<1>2. /\ DOMAIN now = DOMAIN old \cup {s} /\ now[s] = a
      /\ \A t \in DOMAIN old : t # s => now[t] = old[t]
      /\ a.status = k /\ a.version = w.scripts[s].version
  BY DEF With, Assessment
<1>3. \A e : e \in C <=> e \in w.breakpoints[b].mappings /\ e.script = s
  BY DEF Cancelled
<1>4. \A e \in w.breakpoints[b].mappings : e.kind = "map" /\ e.breakpoint = b
  BY MappingsAre
<1> HIDE DEF v, C, now, a
<1>5. AssessesAt(v, w, b, {s})
  BY <1>1, <1>2, <1>3, <1>4 DEF AssessesAt, NowAssesses, IsUnmapped
<1>6. /\ v.breakpoints[b].mappings = w.breakpoints[b].mappings \ C
      /\ v.breakpoints[b].assessments = now /\ v.pending = w.pending \ C
      /\ v.scripts = w.scripts
      /\ v.breakpoints[b].generation = w.breakpoints[b].generation
  BY <1>1 DEF NowAssesses
<1>7. ASSUME NEW e \in w.breakpoints[b].mappings \ C
      PROVE  Scheduled(v, b, e)
  BY <1>2, <1>3, <1>6 DEF Mapping, Scheduled
<1>8. ASSUME NEW t \in DOMAIN now
      PROVE  Timely(v, b, t)
  <2>1. CASE t = s
    BY <1>2, <1>6, <2>1 DEF Timely, IsUnmapped
  <2>2. CASE t # s
    <3>1. Timely(w, b, t) /\ now[t] = old[t]
      BY <1>2, <2>2 DEF Mapping
    <3>2. \A g, n, c : MapEffect(b, g, t, n, c).script = t
      BY DEF MapEffect
    <3> QED BY <1>3, <1>6, <2>2, <3>1, <3>2 DEF Timely
  <2> QED BY <2>1, <2>2
<1>9. Mapping(v, b)
  BY <1>6, <1>7, <1>8 DEF Mapping
<1> QED BY <1>2, <1>5, <1>6, <1>9 DEF v, a, NowHas

\* Ensuring a mapping keeps them in order, and what was built is mapped.
LEMMA EnsureMatches ==
  ASSUME NEW w, IsState(w), NEW b \in DOMAIN w.breakpoints, NEW s \in DOMAIN w.scripts,
         NEW c, Mapping(w, b)
  PROVE  LET v == EnsureMapping(w, b, s, c)
         IN /\ AssessesAt(v, w, b, {s}) /\ Mapping(v, b)
            /\ w.scripts[s].source = "resolved" => IsReusable(v, b, s, c)
<1> DEFINE v == EnsureMapping(w, b, s, c)
           u == CancelBreakpointMapping(w, b, s)
           C == Cancelled(w, b, s)
           old == w.breakpoints[b].assessments
<1>1. CASE IsReusable(w, b, s, c)
  BY <1>1, AssessesAtReflexive DEF EnsureMapping
<1>2. \A e : e \in C <=> e \in w.breakpoints[b].mappings /\ e.script = s
  BY DEF Cancelled
<1>3. \A e \in w.breakpoints[b].mappings : e.kind = "map" /\ e.breakpoint = b
  BY MappingsAre
<1>4. NowAssesses(u, w, b, w.breakpoints[b].mappings \ C, old, w.pending \ C)
  BY CancelIs
<1>5. u \in Assessed(w, {b})
  BY CancelAssesses
<1>6. ~IsReusable(w, b, s, c) => v = ScheduleMapping(u, b, s, c)
  BY DEF EnsureMapping
<1> HIDE DEF v, u, C
<1>7. CASE ~IsReusable(w, b, s, c) /\ w.scripts[s].source = "resolved"
  <2> DEFINE e == MapEffect(b, w.breakpoints[b].generation, s, w.scripts[s].version, c)
             a == [Assessment(w.scripts[s].version, "mapping") EXCEPT !.candidate = c]
             now == With(old, s, a)
  <2>1. /\ IsState(u) /\ b \in DOMAIN u.breakpoints /\ s \in DOMAIN u.scripts
        /\ u.scripts = w.scripts
        /\ u.breakpoints[b].mappings = w.breakpoints[b].mappings \ C
        /\ u.breakpoints[b].assessments = old /\ u.pending = w.pending \ C
        /\ u.breakpoints[b].generation = w.breakpoints[b].generation
    BY <1>4, <1>5, AssessedIsState DEF NowAssesses
  <2>2. NowAssesses(ScheduleMapping(u, b, s, c), u, b, u.breakpoints[b].mappings \cup {e},
                    now, u.pending \cup {e})
    <3> HIDE DEF e
    <3>1. e = MapEffect(b, u.breakpoints[b].generation, s, u.scripts[s].version, c)
      BY <2>1 DEF e
    <3> QED BY <1>2, <1>7, <2>1, <3>1, ScheduleIs
  <2>3. /\ e.kind = "map" /\ e.breakpoint = b /\ e.script = s
        /\ e.version = w.scripts[s].version /\ e.candidate = c
        /\ e.generation = w.breakpoints[b].generation
    BY DEF MapEffect
  <2>4. /\ DOMAIN now = DOMAIN old \cup {s} /\ now[s] = a
        /\ \A t \in DOMAIN old : t # s => now[t] = old[t]
        /\ a.status = "mapping" /\ a.version = w.scripts[s].version /\ a.candidate = c
        /\ a.positions = {}
    BY DEF With, Assessment
  <2>8. e = MapEffect(b, w.breakpoints[b].generation, s, w.scripts[s].version, c)
    OBVIOUS
  <2> HIDE DEF e, a, now
  <2>5. NowAssesses(v, w, b, (w.breakpoints[b].mappings \ C) \cup {e}, now,
                    (w.pending \ C) \cup {e})
    BY <1>4, <1>6, <1>7, <2>1, <2>2 DEF NowAssesses
  <2>6. AssessesAt(v, w, b, {s})
    BY <1>2, <1>3, <2>3, <2>4, <2>5 DEF AssessesAt, NowAssesses
  <2>7. /\ v.breakpoints[b].mappings = (w.breakpoints[b].mappings \ C) \cup {e}
        /\ v.breakpoints[b].assessments = now /\ v.pending = (w.pending \ C) \cup {e}
        /\ v.scripts = w.scripts
        /\ v.breakpoints[b].generation = w.breakpoints[b].generation
    BY <2>5 DEF NowAssesses
  <2>9. ASSUME NEW m \in w.breakpoints[b].mappings \ C
        PROVE  Scheduled(v, b, m)
    BY <1>2, <2>4, <2>7 DEF Mapping, Scheduled
  <2>10. Scheduled(v, b, e)
    BY <2>3, <2>4, <2>7, <2>8 DEF Scheduled
  <2>11. ASSUME NEW t \in DOMAIN now
         PROVE  Timely(v, b, t)
    <3>1. CASE t = s
      BY <1>7, <2>4, <2>7, <2>8, <3>1 DEF Timely
    <3>2. CASE t # s
      <4>1. Timely(w, b, t) /\ now[t] = old[t]
        BY <2>4, <3>2 DEF Mapping
      <4>2. \A g, n, d : MapEffect(b, g, t, n, d).script = t
        BY DEF MapEffect
      <4> QED BY <1>2, <2>7, <3>2, <4>1, <4>2 DEF Timely
    <3> QED BY <3>1, <3>2
  <2>12. Mapping(v, b)
    BY <2>7, <2>9, <2>10, <2>11 DEF Mapping
  <2>13. IsReusable(v, b, s, c)
    BY <2>3, <2>4, <2>7 DEF IsReusable
  <2> QED BY <2>6, <2>12, <2>13 DEF v
<1>8. CASE ~IsReusable(w, b, s, c) /\ w.scripts[s].source # "resolved"
  <2>1. v = u
    BY <1>4, <1>6, <1>8 DEF ScheduleMapping, NowAssesses
  <2>2. \A e \in w.breakpoints[b].mappings : e.script # s
    BY <1>8 DEF Mapping, Scheduled, Timely
  <2>3. NowAssesses(v, w, b, w.breakpoints[b].mappings, old, w.pending)
    <3>1. C = {}
      BY <1>2, <2>2
    <3> QED BY <1>4, <2>1, <3>1
  <2>4. AssessesAt(v, w, b, {s})
    BY <2>3 DEF AssessesAt, NowAssesses
  <2>5. Mapping(v, b)
    BY <2>3 DEF NowAssesses, Mapping, Scheduled, Timely
  <2> QED BY <1>8, <2>4, <2>5 DEF v
<1> QED BY <1>1, <1>7, <1>8 DEF v

\* Assessments of other scripts match as before.
LEMMA MatchedStays ==
  ASSUME NEW v, NEW w, NEW b, NEW S, AssessesAt(v, w, b, S), NEW t, t \notin S, NEW x,
         MatchedBy(w, b, t, x)
  PROVE  MatchedBy(v, b, t, x)
<1> DEFINE bp == w.breakpoints[b]
           now == v.breakpoints[b]
<1>1. /\ v.scripts = w.scripts /\ now.index = bp.index /\ now.source = bp.source
      /\ t \in DOMAIN now.assessments <=> t \in DOMAIN bp.assessments
      /\ t \in DOMAIN bp.assessments => now.assessments[t] = bp.assessments[t]
      /\ \A e : e.script = t => /\ e \in now.mappings <=> e \in bp.mappings
                                /\ e \in v.pending <=> e \in w.pending
  BY DEF AssessesAt
<1> HIDE DEF now, bp
<1>2. \A c : IsReusable(w, b, t, c) => IsReusable(v, b, t, c)
  BY <1>1 DEF IsReusable, now, bp
<1> QED BY <1>1, <1>2 DEF MatchedBy, now, bp

\* A script that fits is matched once it is assessed (ApplySelection).
LEMMA ApplySelectionMatches ==
  ASSUME NEW w, IsState(w), NEW b \in DOMAIN w.breakpoints, NEW s \in DOMAIN w.scripts,
         NEW x, IsSelection(DOMAIN w.scripts, x), x.kind = "none" => x.scripts = {},
         Mapping(w, b), Fitting(w, b, s, x)
  PROVE  LET v == ApplySelection(w, b, s, x)
         IN AssessesAt(v, w, b, {s}) /\ Mapping(v, b) /\ MatchedBy(v, b, s, x)
<1> DEFINE v == ApplySelection(w, b, s, x)
           k == IF s \in x.scripts THEN x.kind
                ELSE StatusWithoutCandidate(s, w.scripts[s], w.breakpoints[b].source)
           c == CHOOSE c \in x.candidates : TRUE
<1>1. CASE Chosen(x, s)
  <2>1. v = EnsureMapping(w, b, s, c)
    BY <1>1 DEF ApplySelection, Chosen
  <2> HIDE DEF v
  <2>2. /\ AssessesAt(v, w, b, {s}) /\ Mapping(v, b)
        /\ w.scripts[s].source = "resolved" => IsReusable(v, b, s, c)
    <3> HIDE DEF c
    <3> QED BY <2>1, EnsureMatches
  <2>3. v.scripts = w.scripts
    BY <2>2 DEF AssessesAt
  <2> QED BY <1>1, <2>2, <2>3 DEF MatchedBy, v
<1>2. CASE ~Chosen(x, s)
  <2>1. v = ReplaceAssessment(w, b, s, k)
    BY <1>2 DEF ApplySelection, Chosen, IsSelection, Kinds
  <2>2. IsUnmapped(k)
    BY <1>2 DEF IsSelection, Kinds, StatusWithoutCandidate, IsUnmapped, Chosen
  <2>3. IsInFlight(w.scripts[s]) /\ k = "waiting" => s \in w.breakpoints[b].index.unresolved
    BY <1>2 DEF Fitting, StatusWithoutCandidate
  <2>5. k = IF s \in x.scripts THEN x.kind
            ELSE StatusWithoutCandidate(s, w.scripts[s], w.breakpoints[b].source)
    OBVIOUS
  <2> HIDE DEF v, k
  <2>4. /\ AssessesAt(v, w, b, {s}) /\ Mapping(v, b) /\ s \in DOMAIN v.breakpoints[b].assessments
        /\ v.breakpoints[b].assessments[s] = Assessment(w.scripts[s].version, k)
    BY <2>1, <2>2, ReplaceMatches DEF NowHas
  <2>6. /\ v.scripts = w.scripts /\ v.breakpoints[b].index = w.breakpoints[b].index
        /\ v.breakpoints[b].source = w.breakpoints[b].source
    BY <2>4 DEF AssessesAt
  <2>7. v.breakpoints[b].assessments[s].status = k
    BY <2>4 DEF Assessment
  <2>8. MatchedBy(v, b, s, x)
    <3>1. CASE IsInFlight(w.scripts[s])
      BY <2>3, <2>6, <2>7, <3>1 DEF MatchedBy
    <3>2. CASE ~IsInFlight(w.scripts[s])
      BY <1>2, <2>4, <2>5, <2>6, <3>2 DEF MatchedBy
    <3> QED BY <3>1, <3>2
  <2> QED BY <2>4, <2>8 DEF v
<1> QED BY <1>1, <1>2

\* What assessing scripts S of breakpoint b by x comes to.
AppliedTo(v, w, b, x, S) ==
  /\ v \in Assessed(w, {b}) /\ AssessesAt(v, w, b, S)
  /\ Mapping(v, b) /\ \A s \in S : MatchedBy(v, b, s, x)

\* Scripts that fit are matched once they are assessed.
LEMMA ApplyAllMatches ==
  ASSUME NEW w, IsState(w), NEW b \in DOMAIN w.breakpoints, NEW S \in SUBSET DOMAIN w.scripts,
         NEW x, IsSelection(DOMAIN w.scripts, x), x.kind = "none" => x.scripts = {},
         Mapping(w, b), \A s \in S : Fitting(w, b, s, x)
  PROVE  AppliedTo(ApplyAll(w, b, x, S), w, b, x, S)
<1>1. S \in SUBSET Scripts /\ IsFiniteSet(S)
  BY StateTyped, FS_Subset
<1> DEFINE A == Assessed(w, {b})
           W == [T \in SUBSET S |-> {v \in A : AppliedTo(v, w, b, x, T)}]
<1>2. w \in W[{}]
  BY AssessedReflexive, AssessesAtReflexive DEF AppliedTo
<1>3. ASSUME NEW T \in SUBSET S, NEW s \in T, NEW v \in W[T \ {s}]
      PROVE  ApplySelection(v, b, s, x) \in W[T]
  <2> DEFINE u == ApplySelection(v, b, s, x)
  <2>1. /\ v \in Assessed(w, {b}) /\ AssessesAt(v, w, b, T \ {s})
        /\ Mapping(v, b) /\ \A t \in T \ {s} : MatchedBy(v, b, t, x)
    BY <1>3 DEF AppliedTo
  <2>2. IsState(v) /\ b \in DOMAIN v.breakpoints /\ DOMAIN v.scripts = DOMAIN w.scripts
    BY <2>1, AssessedIsState
  <2>3. Fitting(v, b, s, x)
    BY <2>1 DEF AssessesAt, Fitting
  <2>4. u \in Assessed(v, {b})
    BY <2>2, ApplySelectionAssesses
  <2>5. AssessesAt(u, v, b, {s}) /\ Mapping(u, b) /\ MatchedBy(u, b, s, x)
    BY <2>1, <2>2, <2>3, ApplySelectionMatches
  <2> HIDE DEF u
  <2>6. u \in Assessed(w, {b})
    BY <2>1, <2>4, AssessedTransitive
  <2>7. AssessesAt(u, w, b, T)
    <3>1. (T \ {s}) \cup {s} = T
      OBVIOUS
    <3> QED BY <2>1, <2>5, <3>1, AssessesAtTransitive
  <2>8. \A t \in T \ {s} : MatchedBy(u, b, t, x)
    BY <2>1, <2>5, MatchedStays
  <2> QED BY <2>5, <2>6, <2>7, <2>8 DEF AppliedTo, u
<1>4. \A T \in SUBSET S : \A s \in T : \A v \in W[T \ {s}] : ApplySelection(v, b, s, x) \in W[T]
  BY <1>3
<1> HIDE DEF W
<1>5. ApplyAll(w, b, x, S) \in W[S]
  BY <1>1, <1>2, <1>4, ApplyAllStays
<1> QED BY <1>5 DEF W

-----------------------------------------------------------------------------
(***************************************************************************)
(* Asking for the sources of scripts.                                      *)
(***************************************************************************)

\* v is w after sources were asked for, those of the scripts T among them.
HydratesTo(v, w, T) ==
  /\ v \in Assessed(w, {})
  /\ v.breakpoints = w.breakpoints /\ v.physical = w.physical
  /\ w.pending \subseteq v.pending
  /\ \A s \in DOMAIN w.scripts :
       /\ Advances(w.scripts[s], v.scripts[s])
       /\ s \in T => v.scripts[s].source # "unresolved"
  /\ SourcesAsked(w) => SourcesAsked(v)

\* Asking for sources leaves every breakpoint alone.
LEMMA HydratedLeaves ==
  ASSUME NEW w, IsState(w), NEW T, NEW v, HydratesTo(v, w, T)
  PROVE  \A b \in DOMAIN w.breakpoints : Leaves(v, w, b)
<1>1. DOMAIN v.scripts = DOMAIN w.scripts
  BY AssessedIsState DEF HydratesTo
<1> QED BY <1>1 DEF HydratesTo, Leaves, Knows, SameKnowledge, IsInstalled

\* Sources asked for twice.
LEMMA HydratesTransitive ==
  ASSUME NEW w, IsState(w), NEW T, NEW v, HydratesTo(v, w, T),
         NEW R, NEW u, HydratesTo(u, v, R)
  PROVE  HydratesTo(u, w, T \cup R)
<1>1. DOMAIN v.scripts = DOMAIN w.scripts
  BY AssessedIsState DEF HydratesTo
<1>2. u \in Assessed(w, {})
  BY AssessedTransitive DEF HydratesTo
<1>3. ASSUME NEW s \in DOMAIN w.scripts
      PROVE  /\ Advances(w.scripts[s], u.scripts[s])
             /\ s \in T \cup R => u.scripts[s].source # "unresolved"
  <2>1. /\ Advances(w.scripts[s], v.scripts[s]) /\ Advances(v.scripts[s], u.scripts[s])
        /\ s \in T => v.scripts[s].source # "unresolved"
        /\ s \in R => u.scripts[s].source # "unresolved"
    BY <1>1 DEF HydratesTo
  <2> QED BY <2>1 DEF Advances, IsInFlight
<1>4. /\ u.breakpoints = w.breakpoints /\ u.physical = w.physical
      /\ w.pending \subseteq u.pending /\ (SourcesAsked(w) => SourcesAsked(u))
  BY DEF HydratesTo
<1> QED BY <1>2, <1>3, <1>4 DEF HydratesTo

\* Asking for one source.
LEMMA HydrationHydrates ==
  ASSUME NEW w, IsState(w), NEW s \in DOMAIN w.scripts, NEW r \in BOOLEAN
  PROVE  HydratesTo(ScheduleSourceHydration(w, s, r), w, {s})
<1> DEFINE u == ScheduleSourceHydration(w, s, r)
           asks == w.scripts[s].source = "unresolved" \/ (w.scripts[s].source = "failed" /\ r)
<1> SUFFICES HydratesTo(u, w, {s})
  OBVIOUS
<1>1. u \in Assessed(w, {})
  BY StateTyped, HydrationAssesses
<1>2. CASE ~asks
  <2>1. u = w
    BY <1>2 DEF ScheduleSourceHydration
  <2> HIDE DEF u
  <2> QED BY <1>1, <1>2, <2>1 DEF HydratesTo, Advances
<1>3. CASE asks
  <2> DEFINE e == FetchEffect(s, w.scripts[s].version)
             x == [w.scripts[s] EXCEPT !.source = "pending"]
  <2>1. /\ u.breakpoints = w.breakpoints /\ u.physical = w.physical
        /\ u.scripts = [w.scripts EXCEPT ![s] = x] /\ u.pending = w.pending \cup {e}
    BY <1>3 DEF ScheduleSourceHydration, Emit, IsState, States, StatesOver
  <2>2. /\ x.version = w.scripts[s].version /\ x.source = "pending"
        /\ x.captured = w.scripts[s].captured /\ x.version \in Nat
    <3>1. w.scripts[s] \in ScriptState
      BY StateTyped
    <3> QED BY <3>1 DEF ScriptState
  <2>3. /\ e.kind = "fetch" /\ e.script = s /\ e.version = x.version
    BY <2>2 DEF FetchEffect
  <2>4. u.scripts[s] = x /\ \A t \in DOMAIN w.scripts \ {s} : u.scripts[t] = w.scripts[t]
    BY <2>1 DEF IsState, States, StatesOver
  <2>5. DOMAIN u.scripts = DOMAIN w.scripts
    BY <2>1
  <2>6. e = FetchEffect(s, x.version)
    BY <2>2
  <2> HIDE DEF x, e, u
  <2>7. Advances(w.scripts[s], x)
    BY <1>3, <2>2 DEF Advances, IsInFlight
  <2>8. ASSUME SourcesAsked(w)
        PROVE  SourcesAsked(u)
    <3>1. ASSUME NEW t \in DOMAIN u.scripts
          PROVE  LET script == u.scripts[t]
                 IN /\ script.source = "pending" => FetchEffect(t, script.version) \in u.pending
                    /\ script.source = "loaded" => BuildEffect(t, script.version) \in u.pending
                    /\ script.captured \in {NoContent, ScriptText[t]}
      <4>1. CASE t = s
        BY <2>1, <2>2, <2>4, <2>6, <2>8, <4>1 DEF SourcesAsked
      <4>2. CASE t # s
        BY <2>1, <2>4, <2>5, <2>8, <4>2 DEF SourcesAsked
      <4> QED BY <4>1, <4>2
    <3>2. ASSUME NEW f \in u.pending, f.kind \in {"fetch", "build"}
          PROVE  /\ f.script \in DOMAIN u.scripts /\ f.version <= u.scripts[f.script].version
                 /\ f.version = u.scripts[f.script].version =>
                      u.scripts[f.script].source = IF f.kind = "fetch" THEN "pending" ELSE "loaded"
      <4>1. CASE f = e
        BY <2>2, <2>3, <2>4, <2>5, <4>1
      <4>2. CASE f # e
        <5>1. f \in w.pending
          BY <2>1, <3>2, <4>2
        <5>2. /\ f.script \in DOMAIN w.scripts /\ f.version <= w.scripts[f.script].version
              /\ f.version = w.scripts[f.script].version =>
                      w.scripts[f.script].source = IF f.kind = "fetch" THEN "pending" ELSE "loaded"
          BY <2>8, <3>2, <5>1 DEF SourcesAsked
        <5>3. CASE f.script = s
          BY <1>3, <2>2, <2>4, <2>5, <3>2, <5>2, <5>3
        <5>4. CASE f.script # s
          BY <2>4, <2>5, <5>2, <5>4
        <5> QED BY <5>3, <5>4
      <4> QED BY <4>1, <4>2
    <3> QED BY <3>1, <3>2 DEF SourcesAsked
  <2>9. \A t \in DOMAIN w.scripts :
          /\ Advances(w.scripts[t], u.scripts[t])
          /\ t \in {s} => u.scripts[t].source # "unresolved"
    BY <2>2, <2>4, <2>7 DEF Advances
  <2>10. w.pending \subseteq u.pending
    BY <2>1
  <2> QED BY <1>1, <2>1, <2>8, <2>9, <2>10 DEF HydratesTo
<1> QED BY <1>2, <1>3

\* Asking for the sources of the scripts S.
LEMMA HydrateAllHydrates ==
  ASSUME NEW w, IsState(w), NEW S \in SUBSET DOMAIN w.scripts, NEW r \in BOOLEAN
  PROVE  HydratesTo(HydrateAll(w, S, r), w, S)
<1> DEFINE U == States(w)
           W == [T \in SUBSET S |-> {v \in U : HydratesTo(v, w, T)}]
<1>a. S \in SUBSET Scripts /\ IsFiniteSet(S)
  BY StateTyped, FS_Subset
<1>2. ASSUME NEW T \in SUBSET S, NEW s \in T, NEW v \in W[T \ {s}]
      PROVE  ScheduleSourceHydration(v, s, r) \in W[T]
  <2>1. HydratesTo(v, w, T \ {s})
    OBVIOUS
  <2>2. IsState(v) /\ s \in DOMAIN v.scripts
    BY <2>1, AssessedIsState DEF HydratesTo
  <2> DEFINE u == ScheduleSourceHydration(v, s, r)
  <2>3. HydratesTo(u, v, {s})
    BY <2>2, HydrationHydrates
  <2> HIDE DEF u
  <2>4. (T \ {s}) \cup {s} = T
    OBVIOUS
  <2>5. HydratesTo(u, w, T)
    BY <2>1, <2>3, <2>4, HydratesTransitive
  <2>6. u \in U
    BY <2>5 DEF HydratesTo, Assessed
  <2> QED BY <2>5, <2>6 DEF u
<1>3. w \in W[{}]
  <2>1. w \in Assessed(w, {}) /\ w \in U
    BY AssessedReflexive DEF IsState
  <2>2. HydratesTo(w, w, {})
    BY <2>1 DEF HydratesTo, Advances
  <2> QED BY <2>1, <2>2
<1>4. \A T \in SUBSET S : \A k \in T : \A v \in W[T \ {k}] : ScheduleSourceHydration(v, k, r) \in W[T]
  BY <1>2
<1>5. HydrateAll(w, S, r) \in W[S]
  <2> HIDE DEF W
  <2> QED BY <1>3, <1>4, <1>a, HydrateAllStays
<1> QED BY <1>5

-----------------------------------------------------------------------------
(***************************************************************************)
(* reconcile_breakpoint: the index is built anew and every script          *)
(* assessed.                                                               *)
(***************************************************************************)

\* What the index of all scripts says of one of them.
LEMMA CandidateIndexIs ==
  ASSUME NEW w, NEW source, NEW s \in DOMAIN w.scripts
  PROVE  LET i == CandidateIndex(w, source)
             own == IndexScript(source, s, w.scripts[s])
         IN /\ OfScript(i.exact, s) = own.exact /\ OfScript(i.friendly, s) = own.friendly
            /\ s \in i.unresolved <=> s \in own.unresolved
<1> DEFINE of(t) == IndexScript(source, t, w.scripts[t])
           i == CandidateIndex(w, source)
<1>1. /\ i.exact = UNION {of(t).exact : t \in DOMAIN w.scripts}
      /\ i.friendly = UNION {of(t).friendly : t \in DOMAIN w.scripts}
      /\ i.unresolved = UNION {of(t).unresolved : t \in DOMAIN w.scripts}
  BY DEF CandidateIndex
<1>2. ASSUME NEW t
      PROVE  /\ \A y \in of(t).exact : y[1] = t
             /\ \A y \in of(t).friendly : y[1] = t
             /\ \A y \in of(t).unresolved : y = t
  <2>1. \A y \in of(t).exact : y[1] = t
    BY DEF IndexScript
  <2>2. \A y \in of(t).friendly : y[1] = t
    <3> DEFINE X == {c \in IF w.scripts[t].source = "resolved" THEN w.scripts[t].view ELSE {} :
                        c.url # source /\ <<c.url, source>> \in FriendlyPairs}
    <3>1. of(t).friendly = {<<t, c>> : c \in X}
      BY DEF IndexScript
    <3> HIDE DEF X, of
    <3> QED BY <3>1
  <2>3. \A y \in of(t).unresolved : y = t
    BY DEF IndexScript
  <2> QED BY <2>1, <2>2, <2>3
<1> HIDE DEF i, of
<1>3. OfScript(i.exact, s) = of(s).exact
  BY <1>1, <1>2 DEF OfScript
<1>4. OfScript(i.friendly, s) = of(s).friendly
  BY <1>1, <1>2 DEF OfScript
<1>5. s \in i.unresolved <=> s \in of(s).unresolved
  BY <1>1, <1>2
<1> QED BY <1>3, <1>4, <1>5 DEF i, of

\* v is w with another index of breakpoint b.
NowIndexes(v, w, b, index) ==
  /\ v.scripts = w.scripts /\ v.physical = w.physical /\ v.pending = w.pending
  /\ DOMAIN v.breakpoints = DOMAIN w.breakpoints
  /\ \A c \in DOMAIN w.breakpoints \ {b} : v.breakpoints[c] = w.breakpoints[c]
  /\ LET x == v.breakpoints[b]
         y == w.breakpoints[b]
     IN /\ x.generation = y.generation /\ x.source = y.source /\ x.condition = y.condition
        /\ x.bindings = y.bindings /\ x.mappings = y.mappings /\ x.assessments = y.assessments
        /\ x.index = index /\ x.friendly = Selection(index).friendly

\* What WithIndex changes.
LEMMA WithIndexIs ==
  ASSUME NEW w, IsState(w), NEW b \in DOMAIN w.breakpoints, NEW index
  PROVE  NowIndexes(WithIndex(w, b, index), w, b, index)
<1> DEFINE x == [w.breakpoints[b] EXCEPT !.index = index, !.friendly = Selection(index).friendly]
           v == WithIndex(w, b, index)
<1>1. w.breakpoints[b] \in BreakpointOver(DOMAIN w.scripts)
  BY StateTyped
<1>2. v = [w EXCEPT !.breakpoints = [w.breakpoints EXCEPT ![b] = x]]
  BY DEF WithIndex, IsState, States, StatesOver
<1>3. /\ x.generation = w.breakpoints[b].generation /\ x.source = w.breakpoints[b].source
      /\ x.condition = w.breakpoints[b].condition /\ x.bindings = w.breakpoints[b].bindings
      /\ x.mappings = w.breakpoints[b].mappings /\ x.assessments = w.breakpoints[b].assessments
      /\ x.index = index /\ x.friendly = Selection(index).friendly
  BY <1>1 DEF BreakpointOver
<1> SUFFICES NowIndexes(v, w, b, index)
  OBVIOUS
<1> HIDE DEF x, v
<1>4. /\ v.scripts = w.scripts /\ v.physical = w.physical /\ v.pending = w.pending
      /\ v.breakpoints = [w.breakpoints EXCEPT ![b] = x]
  BY <1>2 DEF IsState, States, StatesOver
<1>5. DOMAIN v.breakpoints = DOMAIN w.breakpoints
  BY <1>4
<1>6. v.breakpoints[b] = x /\ \A c \in DOMAIN w.breakpoints \ {b} : v.breakpoints[c] = w.breakpoints[c]
  BY <1>4
<1> QED BY <1>3, <1>4, <1>5, <1>6 DEF NowIndexes

\* A new index of breakpoint b leaves the others alone, and the mappings in order.
LEMMA IndexLeaves ==
  ASSUME NEW w, NEW b \in DOMAIN w.breakpoints, NEW index, NEW v, NowIndexes(v, w, b, index)
  PROVE  /\ Mapping(w, b) => Mapping(v, b)
         /\ SourcesAsked(w) => SourcesAsked(v)
         /\ \A c \in DOMAIN w.breakpoints \ {b} : Leaves(v, w, c)
<1>1. Mapping(w, b) => Mapping(v, b)
  BY DEF NowIndexes, Mapping, Scheduled, Timely
<1>2. SourcesAsked(w) => SourcesAsked(v)
  BY DEF NowIndexes, SourcesAsked
<1>3. \A c \in DOMAIN w.breakpoints \ {b} : Leaves(v, w, c)
  BY DEF NowIndexes, Leaves, Knows, SameKnowledge, Advances, IsInstalled
<1> QED BY <1>1, <1>2, <1>3

\* Assessing breakpoint b leaves the others alone.
LEMMA AssessesAtLeaves ==
  ASSUME NEW w, NEW b, NEW S, NEW v, AssessesAt(v, w, b, S)
  PROVE  /\ SourcesAsked(w) => SourcesAsked(v)
         /\ \A c \in DOMAIN w.breakpoints \ {b} : Mapping(w, c) => Leaves(v, w, c)
<1>1. SourcesAsked(w) => SourcesAsked(v)
  <2>1. v.scripts = w.scripts
    BY DEF AssessesAt
  <2>2. SameSources(v, w)
    BY DEF AssessesAt, SameSources
  <2> QED BY <2>1, <2>2, SourcesStay
<1>2. ASSUME NEW c \in DOMAIN w.breakpoints \ {b}, Mapping(w, c)
      PROVE  Leaves(v, w, c)
  <2>1. \A e \in w.breakpoints[c].mappings : e \in w.pending => e \in v.pending
    <3>1. \A e \in w.breakpoints[c].mappings : e.breakpoint = c
      BY <1>2, MappingsAre
    <3> QED BY <1>2, <3>1 DEF AssessesAt
  <2>2. /\ v.scripts = w.scripts /\ v.physical = w.physical
        /\ v.breakpoints[c] = w.breakpoints[c]
    BY DEF AssessesAt
  <2> QED BY <2>1, <2>2 DEF Leaves, Knows, SameKnowledge, Advances, IsInstalled
<1> QED BY <1>1, <1>2

\* What reconciling breakpoint b comes to: it is reconciled, the others are
\* left alone.
Quiets(v, w, b) ==
  /\ Reconciled(v, b)
  /\ SourcesAsked(w) => SourcesAsked(v)
  /\ \A c \in DOMAIN w.breakpoints \ {b} : Mapping(w, c) => Leaves(v, w, c)

\* Bindings that are settled complete the reconciliation of breakpoint b, if
\* the rest of it was done.
LEMMA SettlingQuiets ==
  ASSUME NEW w, NEW Q, NEW b \in DOMAIN w.breakpoints, NEW t, IsState(t), Consistent(t, Q),
         DOMAIN t.breakpoints = DOMAIN w.breakpoints, DOMAIN t.scripts = DOMAIN w.scripts,
         Mapping(t, b), Judged(t, b, DOMAIN t.scripts), Wanted(t, b),
         SourcesAsked(w) => SourcesAsked(t),
         \A c \in DOMAIN w.breakpoints \ {b} : Mapping(w, c) => Leaves(t, w, c)
  PROVE  Quiets(ReconcilePhysicalBindings(t, b), w, b)
<1> DEFINE v == ReconcilePhysicalBindings(t, b)
<1>1. Settled(v, t, Q, b)
  BY ReconcilePhysicalBindingsSettles
<1> SUFFICES Quiets(v, w, b)
  OBVIOUS
<1> HIDE DEF v
<1>2. /\ Placed(v, b) /\ Knows(v, t, b) /\ (SourcesAsked(t) => SourcesAsked(v))
      /\ \A c \in DOMAIN w.breakpoints \ {b} : Leaves(v, t, c)
  BY <1>1, SettledPlaces
<1>3. DOMAIN v.scripts = DOMAIN t.scripts
  BY <1>2 DEF Knows
<1>4. Reconciled(v, b)
  BY <1>2, <1>3, KnowsKeeps DEF Reconciled
<1>5. \A c \in DOMAIN w.breakpoints \ {b} : Mapping(w, c) => Leaves(v, w, c)
  BY <1>2, LeavesTransitive
<1> QED BY <1>2, <1>4, <1>5 DEF Quiets

\* The full reconciliation of a breakpoint reconciles it (ReconcileBreakpoint).
LEMMA ReconcileBreakpointQuiets ==
  ASSUME NEW w, IsState(w), NEW Q, Consistent(w, Q), NEW b \in DOMAIN w.breakpoints,
         Mapping(w, b)
  PROVE  Quiets(ReconcileBreakpoint(w, b), w, b)
<1> DEFINE D == DOMAIN w.scripts
           source == w.breakpoints[b].source
           index == CandidateIndex(w, source)
           hydrate == {s \in D : w.scripts[s].source = "unresolved" /\ MayExpose(s, source)}
           v == WithIndex(w, b, index)
           x == Selection(index)
           u == ApplyAll(v, b, x, D)
           t == HydrateAll(u, hydrate, TRUE)
<1>1. ReconcileBreakpoint(w, b) = ReconcilePhysicalBindings(t, b)
  BY DEF ReconcileBreakpoint, ApplyAll, HydrateAll, InOrder, OneByOne
<1>2. index \in IndexOver(D) /\ IsSelection(D, x)
  BY CandidateIndexTyped, SelectionTyped
<1>3. hydrate \in SUBSET D
  OBVIOUS
<1>4. NowIndexes(v, w, b, index) /\ v \in Assessed(w, {b})
  BY <1>2, WithIndexIs, WithIndexAssesses
<1>5. \A s \in D :
        LET own == Own(w, b, s)
        IN /\ OfScript(index.exact, s) = own.exact /\ OfScript(index.friendly, s) = own.friendly
           /\ s \in index.unresolved <=> s \in own.unresolved
  BY CandidateIndexIs DEF Own
<1>6. \A s \in D : s \in hydrate <=> w.scripts[s].source = "unresolved" /\ MayExpose(s, source)
  OBVIOUS
<1>7. x = Selection(index)
  OBVIOUS
<1> HIDE DEF index, hydrate, v, x
<1>8. /\ IsState(v) /\ b \in DOMAIN v.breakpoints /\ DOMAIN v.scripts = D
      /\ DOMAIN v.breakpoints = DOMAIN w.breakpoints
  BY <1>4, AssessedIsState
<1>9. ASSUME NEW s \in D
      PROVE  Fitting(v, b, s, x)
  <2> SUFFICES ASSUME IsInFlight(w.scripts[s]), s \notin index.unresolved
               PROVE  (s \in x.scripts /\ x.kind # "waiting")
                       \/ (s \notin x.scripts /\ ~MayExpose(s, source))
    BY <1>4 DEF Fitting, NowIndexes
  <2>1. ~MayExpose(s, source)
    <3>1. s \notin Own(w, b, s).unresolved
      BY <1>5
    <3> QED BY <3>1 DEF Own, IndexScript, IsInFlight, IsUnbuilt
  <2>2. OfScript(index.friendly, s) = {}
    <3>1. Own(w, b, s).friendly = {}
      BY DEF Own, IndexScript, IsInFlight
    <3> QED BY <1>5, <3>1
  <2> QED BY <1>7, <2>1, <2>2, WaitsFor
<1>10. x.kind = "none" => x.scripts = {}
  <2>1. Selects(x, index)
    BY <1>7, SelectionIs
  <2> QED BY <2>1 DEF Selects
<1>11. Mapping(v, b)
  BY <1>4, IndexLeaves
<1>12. AppliedTo(u, v, b, x, D)
  BY <1>2, <1>8, <1>9, <1>10, <1>11, ApplyAllMatches
<1> HIDE DEF u
<1>13. /\ u \in Assessed(w, {b}) /\ IsState(u) /\ DOMAIN u.scripts = D
       /\ DOMAIN u.breakpoints = DOMAIN w.breakpoints
  BY <1>4, <1>8, <1>12, AssessedTransitive, AssessedIsState DEF AppliedTo
<1>14. /\ u.scripts = w.scripts /\ u.breakpoints[b].source = source
       /\ u.breakpoints[b].index = index /\ u.breakpoints[b].friendly = x.friendly
  BY <1>4, <1>7, <1>12 DEF AppliedTo, AssessesAt, NowIndexes
<1>15. Judged(u, b, D)
  <2>1. ASSUME NEW s \in D
        PROVE  Indexed(u, b, s) /\ MatchedBy(u, b, s, x)
    <3>1. Own(u, b, s) = Own(w, b, s)
      BY <1>14 DEF Own
    <3>2. OfScript(index.exact, s) \subseteq index.exact
      BY DEF OfScript
    <3>3. Indexed(u, b, s)
      BY <1>5, <1>14, <3>1, <3>2 DEF Indexed
    <3> QED BY <1>12, <3>3 DEF AppliedTo
  <2> QED BY <1>7, <1>14, <2>1 DEF Judged
<1>16. HydratesTo(t, u, hydrate)
  BY <1>3, <1>13, HydrateAllHydrates
<1> HIDE DEF t
<1>17. /\ t \in Assessed(w, {b}) /\ IsState(t) /\ DOMAIN t.scripts = D
       /\ DOMAIN t.breakpoints = DOMAIN w.breakpoints
  BY <1>13, <1>16, AssessedTransitive, AssessedIsState DEF HydratesTo
<1>18. \A c \in DOMAIN w.breakpoints : Leaves(t, u, c)
  BY <1>13, <1>16, HydratedLeaves
<1>19. Mapping(t, b) /\ Judged(t, b, D)
  <2>1. Knows(t, u, b)
    BY <1>18 DEF Leaves
  <2> QED BY <1>12, <1>13, <1>15, <2>1, KnowsKeeps DEF AppliedTo
<1>20. Wanted(t, b)
  <2>1. ASSUME NEW s \in D, t.scripts[s].source = "unresolved"
        PROVE  ~MayExpose(s, source)
    <3>1. s \notin hydrate /\ Advances(u.scripts[s], t.scripts[s])
      BY <1>13, <1>16, <2>1 DEF HydratesTo
    <3>2. w.scripts[s].source = "unresolved"
      BY <1>14, <2>1, <3>1 DEF Advances, IsInFlight
    <3> QED BY <1>6, <3>1, <3>2
  <2>2. t.breakpoints[b].source = source
    BY <1>14, <1>16 DEF HydratesTo
  <2> QED BY <1>17, <2>1, <2>2 DEF Wanted
<1>21. SourcesAsked(w) => SourcesAsked(t)
  <2>1. SourcesAsked(w) => SourcesAsked(v)
    BY <1>4, IndexLeaves
  <2>2. SourcesAsked(v) => SourcesAsked(u)
    BY <1>12, AssessesAtLeaves DEF AppliedTo
  <2> QED BY <1>16, <2>1, <2>2 DEF HydratesTo
<1>22. ASSUME NEW c \in DOMAIN w.breakpoints \ {b}, Mapping(w, c)
       PROVE  Leaves(t, w, c)
  <2>1. Leaves(v, w, c)
    BY <1>4, IndexLeaves
  <2>2. Mapping(v, c)
    BY <1>22, <2>1, KnowsKeeps DEF Leaves
  <2>3. Leaves(u, v, c)
    BY <1>8, <1>12, <2>2, AssessesAtLeaves DEF AppliedTo
  <2> QED BY <1>18, <2>1, <2>3, LeavesTransitive
<1>23. Consistent(t, Q)
  BY <1>17, AssessedConsistent
<1>24. Quiets(ReconcilePhysicalBindings(t, b), w, b)
  BY <1>17, <1>19, <1>20, <1>21, <1>22, <1>23, SettlingQuiets
<1> QED BY <1>1, <1>24

\* The full reconciliation of all breakpoints reconciles them (ReconcileAll).
LEMMA ReconcileAllQuiets ==
  ASSUME NEW w, IsState(w), NEW Q, Consistent(w, Q), SourcesAsked(w),
         \A b \in DOMAIN w.breakpoints : Mapping(w, b)
  PROVE  Quiet(ReconcileAll(w))
<1> DEFINE S == DOMAIN w.breakpoints
<1> DEFINE op(v, b) == ReconcileBreakpoint(v, b)
           U == States(w)
           W == [T \in SUBSET S |-> {v \in U : /\ Reconciles(v, w, Q, T) /\ SourcesAsked(v)
                                               /\ \A c \in S : Mapping(v, c)
                                               /\ \A c \in T : Reconciled(v, c)}]
<1>a. S \in SUBSET Breakpoints /\ IsFiniteSet(S)
  BY StateTyped, ReducerAssumption
<1>2. ASSUME NEW T \in SUBSET S, NEW b \in T, NEW v \in W[T \ {b}]
      PROVE  op(v, b) \in W[T]
  <2>1. /\ Reconciles(v, w, Q, T \ {b}) /\ SourcesAsked(v)
        /\ \A c \in S : Mapping(v, c)
        /\ \A c \in T \ {b} : Reconciled(v, c)
    OBVIOUS
  <2>2. IsState(v) /\ Consistent(v, Q) /\ b \in DOMAIN v.breakpoints
        /\ DOMAIN v.scripts = DOMAIN w.scripts /\ DOMAIN v.breakpoints = S
    BY <2>1 DEF Reconciles
  <2>3. Reconciles(op(v, b), v, Q, {b}) /\ Quiets(op(v, b), v, b)
    BY <2>1, <2>2, ReconcileBreakpointReconciles, ReconcileBreakpointQuiets
  <2> HIDE DEF op
  <2>4. (T \ {b}) \cap {b} = {} /\ (T \ {b}) \cup {b} = T
    OBVIOUS
  <2>5. Reconciles(op(v, b), w, Q, T)
    BY <2>1, <2>3, <2>4, ReconcilesTransitive
  <2>6. op(v, b) \in U
    BY <2>5 DEF Reconciles, IsState
  <2>7. SourcesAsked(op(v, b)) /\ Reconciled(op(v, b), b)
    BY <2>1, <2>3 DEF Quiets
  <2>8. \A c \in S \ {b} : Leaves(op(v, b), v, c)
    BY <2>1, <2>2, <2>3 DEF Quiets
  <2>9. \A c \in S : Mapping(op(v, b), c)
    BY <2>1, <2>7, <2>8, KnowsKeeps DEF Leaves, Reconciled
  <2>10. \A c \in T : Reconciled(op(v, b), c)
    BY <2>1, <2>7, <2>8, LeavesReconciled
  <2> QED BY <2>5, <2>6, <2>7, <2>9, <2>10
<1>3. w \in W[{}]
  <2>1. Reconciles(w, w, Q, {}) /\ w \in U
    BY ReconcilesReflexive DEF IsState
  <2> QED BY <2>1
<1>4. \A T \in SUBSET S : \A k \in T : \A v \in W[T \ {k}] : op(v, k) \in W[T]
  BY <1>2
<1>5. ReconcileAll(w) \in W[S]
  <2> HIDE DEF W
  <2> QED BY <1>3, <1>4, <1>a, ReconcileAllStays
<1> DEFINE v == ReconcileAll(w)
<1>6. Reconciles(v, w, Q, S) /\ SourcesAsked(v) /\ \A c \in S : Reconciled(v, c)
  BY <1>5
<1> HIDE DEF v
<1>7. Quiet(v)
  BY <1>6 DEF Quiet, Reconciles
<1> QED BY <1>7 DEF v

-----------------------------------------------------------------------------
(***************************************************************************)
(* reconcile_built_script: one script's source view was built or could not *)
(* be; the index is changed for that script alone, and only what the       *)
(* change of the selection calls for is assessed.                          *)
(***************************************************************************)

\* Index j says more of script s than i does, and the same of the others.
GrowsAt(j, i, s) ==
  /\ i.exact \subseteq j.exact /\ i.friendly \subseteq j.friendly
  /\ \A t : t # s =>
       /\ OfScript(j.exact, t) = OfScript(i.exact, t)
       /\ OfScript(j.friendly, t) = OfScript(i.friendly, t)
       /\ t \in j.unresolved <=> t \in i.unresolved

\* Exact candidates have the url that is asked for, the others have not.
Sorted(i, source) ==
  /\ \A e \in i.exact : e[2].url = source
  /\ \A e \in i.friendly : e[2].url # source

\* Where the selection is the same, so are the scripts, but for the one built.
LEMMA SamePayloadScripts ==
  ASSUME NEW i, NEW j, NEW s, NEW source, GrowsAt(j, i, s), Sorted(i, source), Sorted(j, source),
         NEW x, x = Selection(i), NEW y, y = Selection(j), SamePayload(x, y)
  PROVE  /\ \A t : t # s => (t \in x.scripts <=> t \in y.scripts)
         /\ Chosen(x, s) => Chosen(y, s)
<1>1. Selects(x, i) /\ Selects(y, j)
  BY SelectionIs
<1>2. x.kind = y.kind /\ x.candidates = y.candidates /\ x.friendly = y.friendly
  BY DEF SamePayload
<1>3. CASE x.kind = "none"
  BY <1>1, <1>2, <1>3 DEF Selects, Chosen
<1>4. CASE x.kind # "none"
  <2> DEFINE bi == IF i.exact = {} THEN i.friendly ELSE i.exact
             bj == IF j.exact = {} THEN j.friendly ELSE j.exact
  <2>1. i.exact = {} <=> j.exact = {}
    <3>1. CASE x.kind = "ambiguous"
      <4>1. x.candidates = {e[2] : e \in bi} /\ y.candidates = {e[2] : e \in bj}
            /\ x.candidates # {}
        BY <1>1, <1>2, <3>1 DEF Selects
      <4>2. \E e \in bi : \E f \in bj : e[2] = f[2]
        <5> HIDE DEF bi, bj
        <5>1. PICK c : c \in x.candidates
          BY <4>1
        <5>2. \E e \in bi : e[2] = c
          BY <4>1, <5>1
        <5>3. \E f \in bj : f[2] = c
          <6>1. c \in y.candidates
            BY <1>2, <5>1
          <6> QED BY <4>1, <6>1
        <5> QED BY <5>2, <5>3
      <4>3. \A e \in bi : e[2].url = source <=> i.exact # {}
        BY DEF Sorted
      <4>4. \A e \in bj : e[2].url = source <=> j.exact # {}
        BY DEF Sorted
      <4> HIDE DEF bi, bj
      <4> QED BY <4>2, <4>3, <4>4
    <3>2. CASE x.kind = "waiting"
      BY <1>1, <1>2, <3>2 DEF Selects
    <3>3. CASE x.kind = "unique"
      BY <1>1, <1>2, <3>3 DEF Selects
    <3> QED BY <1>1, <1>4, <3>1, <3>2, <3>3 DEF Selects
  <2>2. bi \subseteq bj
    BY <2>1 DEF GrowsAt
  <2>3. ASSUME NEW t, t # s
        PROVE  t \in {e[1] : e \in bi} <=> t \in {e[1] : e \in bj}
    <3>1. OfScript(bi, t) = OfScript(bj, t)
      BY <2>1, <2>3 DEF GrowsAt
    <3>2. /\ t \in {e[1] : e \in bi} <=> OfScript(bi, t) # {}
          /\ t \in {e[1] : e \in bj} <=> OfScript(bj, t) # {}
      BY DEF OfScript
    <3> QED BY <3>1, <3>2
  <2>4. CASE x.kind = "waiting"
    <3>1. /\ x.scripts = {e[1] : e \in bi} \cup i.unresolved
          /\ y.scripts = {e[1] : e \in bj} \cup j.unresolved
      BY <1>1, <1>2, <2>4 DEF Selects
    <3>2. \A t : t # s => (t \in i.unresolved <=> t \in j.unresolved)
      BY DEF GrowsAt
    <3> HIDE DEF bi, bj
    <3> QED BY <2>3, <2>4, <3>1, <3>2 DEF Chosen
  <2>5. CASE x.kind \in {"ambiguous", "unique"}
    <3>1. /\ x.scripts = {e[1] : e \in bi} /\ y.scripts = {e[1] : e \in bj}
      BY <1>1, <1>2, <2>5 DEF Selects
    <3> HIDE DEF bi, bj
    <3>2. x.scripts \subseteq y.scripts
      BY <2>2, <3>1
    <3> QED BY <1>2, <2>3, <3>1, <3>2 DEF Chosen
  <2> QED BY <1>1, <1>4, <2>4, <2>5 DEF Selects
<1> QED BY <1>3, <1>4

\* A script that the selection counts in as before is matched as before.
LEMMA MatchedKept ==
  ASSUME NEW w, NEW b, NEW i, NEW v, NowIndexes(v, w, b, i), NEW t,
         t \in i.unresolved <=> t \in w.breakpoints[b].index.unresolved,
         NEW x, NEW y, t \in x.scripts <=> t \in y.scripts,
         t \in x.scripts => x.kind = y.kind /\ x.candidates = y.candidates,
         MatchedBy(w, b, t, x)
  PROVE  MatchedBy(v, b, t, y)
<1>1. Chosen(x, t) <=> Chosen(y, t)
  BY DEF Chosen
<1>2. Chosen(x, t) => x.candidates = y.candidates
  BY DEF Chosen
<1>3. /\ v.scripts = w.scripts /\ v.pending = w.pending
      /\ v.breakpoints[b].mappings = w.breakpoints[b].mappings
      /\ v.breakpoints[b].assessments = w.breakpoints[b].assessments
      /\ v.breakpoints[b].source = w.breakpoints[b].source
      /\ v.breakpoints[b].index = i
  BY DEF NowIndexes
<1>4. \A c : IsReusable(w, b, t, c) => IsReusable(v, b, t, c)
  BY <1>3 DEF IsReusable
<1>5. CASE IsInFlight(w.scripts[t])
  BY <1>1, <1>3, <1>5 DEF MatchedBy
<1>6. CASE ~IsInFlight(w.scripts[t])
  <2>1. /\ Chosen(x, t) /\ w.scripts[t].source = "resolved" =>
             IsReusable(w, b, t, CHOOSE c \in x.candidates : TRUE)
        /\ ~Chosen(x, t) =>
             /\ t \in DOMAIN w.breakpoints[b].assessments
             /\ w.breakpoints[b].assessments[t] =
                  Assessment(w.scripts[t].version,
                    IF t \in x.scripts THEN x.kind
                    ELSE StatusWithoutCandidate(t, w.scripts[t], w.breakpoints[b].source))
    BY <1>6 DEF MatchedBy
  <2>2. Chosen(y, t) /\ v.scripts[t].source = "resolved" =>
             IsReusable(v, b, t, CHOOSE c \in y.candidates : TRUE)
    BY <1>1, <1>2, <1>3, <1>4, <2>1
  <2>3. ~Chosen(y, t) =>
             /\ t \in DOMAIN v.breakpoints[b].assessments
             /\ v.breakpoints[b].assessments[t] =
                  Assessment(v.scripts[t].version,
                    IF t \in y.scripts THEN y.kind
                    ELSE StatusWithoutCandidate(t, v.scripts[t], v.breakpoints[b].source))
    BY <1>1, <1>3, <2>1
  <2> QED BY <1>3, <1>6, <2>2, <2>3 DEF MatchedBy
<1> QED BY <1>5, <1>6

\* Breakpoint b is reconciled but for script s, which was just built.
Building(w, b, s) ==
  LET bp == w.breakpoints[b]
  IN /\ Mapping(w, b) /\ Wanted(w, b) /\ Placed(w, b)
     /\ Judged(w, b, DOMAIN w.scripts \ {s})
     /\ w.scripts[s].source = "resolved"
     /\ OfScript(bp.index.exact, s) \subseteq Own(w, b, s).exact
     /\ OfScript(bp.index.friendly, s) = {}
     /\ s \in DOMAIN bp.assessments =>
          /\ bp.assessments[s].status \notin {"mapping", "applicable", "unmapped"}
          /\ bp.assessments[s].status = "waiting" /\ s \notin bp.index.unresolved =>
               Chosen(Selection(bp.index), s)

\* It stays so when it is left alone.
LEMMA BuildingStays ==
  ASSUME NEW v, NEW w, NEW b, Leaves(v, w, b), NEW s \in DOMAIN w.scripts, Building(w, b, s)
  PROVE  Building(v, b, s)
<1>1. Knows(v, w, b)
  BY DEF Leaves
<1>2. /\ Mapping(v, b) /\ Wanted(v, b) /\ Placed(v, b)
      /\ Judged(v, b, DOMAIN w.scripts \ {s})
  BY <1>1, KnowsKeeps, PlacedStays DEF Building
<1>3. v.scripts[s] = w.scripts[s]
  BY <1>1 DEF Building, Knows, Advances
<1>4. DOMAIN v.scripts = DOMAIN w.scripts /\ SameKnowledge(v.breakpoints[b], w.breakpoints[b])
  BY <1>1 DEF Knows
<1> QED BY <1>2, <1>3, <1>4 DEF Building, SameKnowledge, Own

\* What the index says of the other scripts has the urls it is sorted by.
LEMMA JudgedSorted ==
  ASSUME NEW w, IsState(w), NEW b \in DOMAIN w.breakpoints,
         \A s \in DOMAIN w.scripts :
            /\ OfScript(w.breakpoints[b].index.exact, s) \subseteq Own(w, b, s).exact
            /\ OfScript(w.breakpoints[b].index.friendly, s) \subseteq Own(w, b, s).friendly
  PROVE  Sorted(w.breakpoints[b].index, w.breakpoints[b].source)
<1> DEFINE i == w.breakpoints[b].index
           source == w.breakpoints[b].source
<1>1. i \in IndexOver(DOMAIN w.scripts)
  BY StateTyped
<1>2. \A e \in i.exact \cup i.friendly : e[1] \in DOMAIN w.scripts
  BY <1>1 DEF IndexOver
<1>3. ASSUME NEW s
      PROVE  /\ \A e \in Own(w, b, s).exact : e[2].url = source
             /\ \A e \in Own(w, b, s).friendly : e[2].url # source
  <2> DEFINE view == IF w.scripts[s].source = "resolved" THEN w.scripts[s].view ELSE {}
             own == {[url |-> ScriptUrl[s], content |-> c] : c \in {w.scripts[s].captured} \ {NoContent}}
             X == {c \in own \cup view : c.url = source}
             Y == {c \in view : c.url # source /\ <<c.url, source>> \in FriendlyPairs}
  <2>1. Own(w, b, s).exact = {<<s, c>> : c \in X} /\ Own(w, b, s).friendly = {<<s, c>> : c \in Y}
    BY DEF Own, IndexScript
  <2>2. (\A c \in X : c.url = source) /\ (\A c \in Y : c.url # source)
    OBVIOUS
  <2> HIDE DEF X, Y
  <2> QED BY <2>1, <2>2
<1>4. \A e \in i.exact : e \in OfScript(i.exact, e[1])
  BY DEF OfScript
<1>5. \A e \in i.friendly : e \in OfScript(i.friendly, e[1])
  BY DEF OfScript
<1>6. \A e \in i.exact : e \in Own(w, b, e[1]).exact
  BY <1>2, <1>4
<1>7. \A e \in i.friendly : e \in Own(w, b, e[1]).friendly
  BY <1>2, <1>5
<1> QED BY <1>3, <1>6, <1>7 DEF Sorted

\* The index once it counts in the script that was built.
LEMMA BuiltIndexIs ==
  ASSUME NEW w, IsState(w), NEW b \in DOMAIN w.breakpoints, NEW s \in DOMAIN w.scripts,
         Building(w, b, s)
  PROVE  LET i == w.breakpoints[b].index
             j == IndexWithBuilt(w, b, s)
         IN /\ GrowsAt(j, i, s) /\ Sorted(i, w.breakpoints[b].source)
            /\ OfScript(j.exact, s) = Own(w, b, s).exact
            /\ OfScript(j.friendly, s) = Own(w, b, s).friendly
            /\ s \notin j.unresolved /\ Own(w, b, s).unresolved = {}
            /\ i.unresolved \subseteq j.unresolved \cup {s}
<1> DEFINE i == w.breakpoints[b].index
           j == IndexWithBuilt(w, b, s)
           own == Own(w, b, s)
<1>1. /\ j.exact = i.exact \cup own.exact /\ j.friendly = i.friendly \cup own.friendly
      /\ j.unresolved = (i.unresolved \ {s}) \cup own.unresolved
  BY DEF IndexWithBuilt, Own
<1>2. own.unresolved = {}
  BY DEF Building, Own, IndexScript, IsUnbuilt
<1>3. \A e \in own.exact : e[1] = s
  BY DEF Own, IndexScript
<1>4. \A e \in own.friendly : e[1] = s
  <2> DEFINE X == {c \in IF w.scripts[s].source = "resolved" THEN w.scripts[s].view ELSE {} :
                     c.url # w.breakpoints[b].source /\ <<c.url, w.breakpoints[b].source>> \in FriendlyPairs}
  <2>1. own.friendly = {<<s, c>> : c \in X}
    BY DEF Own, IndexScript
  <2> HIDE DEF X, own
  <2> QED BY <2>1
<1>5. OfScript(i.exact, s) \subseteq own.exact /\ OfScript(i.friendly, s) = {}
  BY DEF Building
<1>6. \A t \in DOMAIN w.scripts \ {s} : Indexed(w, b, t)
  BY DEF Building, Judged
<1> HIDE DEF own, j
<1>7. OfScript(j.exact, s) = own.exact /\ OfScript(j.friendly, s) = own.friendly
  BY <1>1, <1>3, <1>4, <1>5 DEF OfScript
<1>8. GrowsAt(j, i, s)
  <2>1. ASSUME NEW t, t # s
        PROVE  /\ OfScript(j.exact, t) = OfScript(i.exact, t)
               /\ OfScript(j.friendly, t) = OfScript(i.friendly, t)
               /\ t \in j.unresolved <=> t \in i.unresolved
    BY <1>1, <1>2, <1>3, <1>4, <2>1 DEF OfScript
  <2> QED BY <1>1, <2>1 DEF GrowsAt
<1>9. Sorted(i, w.breakpoints[b].source)
  <2>1. \A t \in DOMAIN w.scripts :
          /\ OfScript(i.exact, t) \subseteq Own(w, b, t).exact
          /\ OfScript(i.friendly, t) \subseteq Own(w, b, t).friendly
    BY <1>5, <1>6 DEF Indexed, own
  <2> QED BY <2>1, JudgedSorted
<1>10. s \notin j.unresolved /\ i.unresolved \subseteq j.unresolved \cup {s}
  BY <1>1, <1>2
<1> QED BY <1>2, <1>7, <1>8, <1>9, <1>10 DEF own, j

\* Selection y of index j follows selection x of the index i of breakpoint b,
\* script s was built, and S are the scripts assessed again.
Follow(w, b, s, i, j, x, y, S) ==
  /\ i = w.breakpoints[b].index /\ x = Selection(i) /\ y = Selection(j)
  /\ GrowsAt(j, i, s) /\ Sorted(i, w.breakpoints[b].source) /\ Sorted(j, w.breakpoints[b].source)
  /\ s \notin j.unresolved /\ i.unresolved \subseteq j.unresolved \cup {s}
  /\ S = ChangedScripts(x, y, s)

\* A script to be assessed again fits the new selection.
LEMMA ChangedFits ==
  ASSUME NEW w, NEW b, NEW s, NEW i, NEW j, NEW x, NEW y, NEW S, Follow(w, b, s, i, j, x, y, S),
         NEW v, NowIndexes(v, w, b, j), NEW t, t \in S, t # s, Indexed(w, b, t)
  PROVE  Fitting(v, b, t, y)
<1> SUFFICES ASSUME IsInFlight(w.scripts[t]), t \notin j.unresolved
             PROVE  t \in y.scripts /\ y.kind # "waiting"
  BY DEF Fitting, NowIndexes
<1>1. t \in x.scripts \/ t \in y.scripts
  BY DEF Follow, ChangedScripts
<1>2. t \notin i.unresolved
  BY DEF Follow
<1>3. OfScript(i.friendly, t) = {} /\ OfScript(j.friendly, t) = {}
  <2>1. Own(w, b, t).friendly = {}
    BY DEF Own, IndexScript, IsInFlight
  <2> QED BY <2>1 DEF Indexed, Follow, GrowsAt
<1>4. t \in y.scripts => y.kind # "waiting"
  BY <1>3, WaitsFor DEF Follow
<1>5. CASE t \in x.scripts
  <2>1. x.kind # "waiting"
    BY <1>2, <1>3, <1>5, WaitsFor DEF Follow
  <2>2. Selects(x, i) /\ Selects(y, j)
    BY SelectionIs DEF Follow
  <2>3. t \in {e[1] : e \in IF i.exact = {} THEN i.friendly ELSE i.exact}
    BY <1>5, <2>1, <2>2 DEF Selects
  <2>4. i.exact # {}
    BY <1>3, <2>3 DEF OfScript
  <2>5. PICK e \in i.exact : e[1] = t
    BY <2>3, <2>4
  <2>6. e \in j.exact
    BY <2>5 DEF Follow, GrowsAt
  <2>7. t \in y.scripts
    <3>1. t \in {f[1] : f \in j.exact} /\ {f[2] : f \in j.exact} # {} /\ j.exact # {}
      BY <2>5, <2>6
    <3> QED BY <2>2, <3>1 DEF Selects
  <2> QED BY <1>4, <2>7
<1> QED BY <1>1, <1>4, <1>5

\* Another script is matched as it was.
LEMMA UnchangedMatched ==
  ASSUME NEW w, NEW b, NEW s, NEW i, NEW j, NEW x, NEW y, NEW S, Follow(w, b, s, i, j, x, y, S),
         NEW v, NowIndexes(v, w, b, j), NEW t, t \notin S, MatchedBy(w, b, t, x)
  PROVE  MatchedBy(v, b, t, y)
<1>1. t # s
  BY DEF Follow, ChangedScripts
<1>2. t \in j.unresolved <=> t \in w.breakpoints[b].index.unresolved
  BY <1>1 DEF Follow, GrowsAt
<1>3. CASE SamePayload(x, y)
  <2>1. t \in x.scripts <=> t \in y.scripts
    BY <1>1, <1>3, SamePayloadScripts DEF Follow
  <2> QED BY <1>2, <1>3, <2>1, MatchedKept DEF SamePayload
<1>4. CASE ~SamePayload(x, y)
  <2>1. t \notin x.scripts /\ t \notin y.scripts
    BY <1>4 DEF Follow, ChangedScripts
  <2> QED BY <1>2, <2>1, MatchedKept
<1> QED BY <1>3, <1>4

\* Where the bindings stay, they are where they belong.
LEMMA BuiltPlaced ==
  ASSUME NEW w, NEW b, NEW s \in DOMAIN w.scripts,
         NEW i, NEW j, NEW x, NEW y, NEW S, Follow(w, b, s, i, j, x, y, S),
         Building(w, b, s), NEW v, NowIndexes(v, w, b, j), NEW u, AssessesAt(u, v, b, S),
         Mapping(u, b), MatchedBy(u, b, s, y),
         \/ w.breakpoints[b].bindings = <<>>
         \/ /\ SamePayload(x, y)
            /\ ~(s \in i.unresolved /\ j.unresolved = {} /\ u.breakpoints[b].mappings = {})
  PROVE  Placed(u, b)
<1> DEFINE old == w.breakpoints[b]
           now == u.breakpoints[b]
<1>1. /\ now.bindings = old.bindings /\ now.condition = old.condition /\ now.index = j
      /\ u.scripts = w.scripts /\ u.physical = w.physical
  BY DEF NowIndexes, AssessesAt
<1>2. \A t \in DOMAIN now.assessments : now.assessments[t].status \in {"applicable", "unmapped"}
        => t \in DOMAIN old.assessments /\ now.assessments[t] = old.assessments[t]
  BY DEF NowIndexes, AssessesAt
<1>3. Desired(u, b) \subseteq Desired(w, b)
  BY <1>1, <1>2 DEF Desired
<1>4. Placed(w, b)
  BY DEF Building
<1>5. ASSUME old.bindings # <<>>, j.unresolved = {}, Decided(u, b),
             \A p \in Desired(u, b) : IsInstalled(u, p)
      PROVE  DOMAIN old.bindings \subseteq Desired(u, b)
  <2>1. SamePayload(x, y)
        /\ ~(s \in i.unresolved /\ j.unresolved = {} /\ now.mappings = {})
    BY <1>5
  <2>2. now.mappings = {}
    BY <1>5 DEF Mapping, Scheduled, Decided
  <2>3. i.unresolved = {}
    BY <1>5, <2>1, <2>2 DEF Follow
  <2>4. S = {s}
    BY <2>1 DEF Follow, ChangedScripts
  <2>5. \A t : t # s =>
          /\ t \in DOMAIN now.assessments <=> t \in DOMAIN old.assessments
          /\ t \in DOMAIN old.assessments => now.assessments[t] = old.assessments[t]
    BY <2>4 DEF NowIndexes, AssessesAt
  <2>6. s \in DOMAIN old.assessments =>
           /\ old.assessments[s].status \notin {"mapping", "applicable", "unmapped"}
           /\ old.assessments[s].status = "waiting" => Chosen(x, s)
    BY <2>3 DEF Building, Follow
  <2>7. s \in DOMAIN old.assessments => old.assessments[s].status # "waiting"
    <3> SUFFICES ASSUME s \in DOMAIN old.assessments, old.assessments[s].status = "waiting"
                 PROVE  FALSE
      OBVIOUS
    <3>1. Chosen(y, s)
      BY <2>1, <2>6, SamePayloadScripts DEF Follow
    <3>2. IsReusable(u, b, s, CHOOSE c \in y.candidates : TRUE)
      BY <1>1, <3>1 DEF MatchedBy, Building, IsInFlight
    <3>3. s \in DOMAIN now.assessments
          /\ now.assessments[s].status \in {"applicable", "unmapped", "mapping"}
      BY <3>2 DEF IsReusable
    <3>4. now.assessments[s] = old.assessments[s]
      BY <1>2, <1>5, <3>3 DEF Decided
    <3> QED BY <3>3, <3>4
  <2>8. Decided(w, b)
    <3>1. ASSUME NEW t \in DOMAIN old.assessments
          PROVE  old.assessments[t].status \notin {"waiting", "mapping"}
      BY <1>5, <2>5, <2>6, <2>7 DEF Decided
    <3> QED BY <3>1 DEF Decided
  <2>9. Desired(w, b) \subseteq Desired(u, b)
    <3>1. \A t \in DOMAIN old.assessments : old.assessments[t].status = "applicable"
             => t \in DOMAIN now.assessments /\ now.assessments[t] = old.assessments[t]
      BY <2>5, <2>6
    <3> QED BY <1>1, <3>1 DEF Desired
  <2>10. \A p \in Desired(w, b) : IsInstalled(w, p)
    BY <1>1, <1>5, <2>9 DEF IsInstalled
  <2>11. old.index.unresolved = {}
    BY <2>3 DEF Follow
  <2> QED BY <1>4, <2>8, <2>9, <2>10, <2>11 DEF Placed
<1>6. old.bindings = <<>> => DOMAIN old.bindings = {}
  BY MapsEmpty
<1> QED BY <1>1, <1>3, <1>4, <1>5, <1>6 DEF Placed

\* The incremental reconciliation of one breakpoint completes it (BuiltOne).
LEMMA BuiltOneQuiets ==
  ASSUME NEW w, IsState(w), NEW Q, Consistent(w, Q), NEW b \in DOMAIN w.breakpoints,
         NEW s \in DOMAIN w.scripts, Building(w, b, s)
  PROVE  Quiets(BuiltOne(w, b, s), w, b)
<1> DEFINE D == DOMAIN w.scripts
           i == w.breakpoints[b].index
           j == IndexWithBuilt(w, b, s)
           x == Selection(i)
           y == Selection(j)
           v == WithIndex(w, b, j)
           S == ChangedScripts(x, y, s)
           u == ApplyAll(v, b, y, S)
           again == /\ u.breakpoints[b].bindings # <<>>
                    /\ \/ ~SamePayload(x, y)
                       \/ s \in i.unresolved /\ j.unresolved = {} /\ u.breakpoints[b].mappings = {}
<1>1. BuiltOne(w, b, s) = IF again THEN ReconcilePhysicalBindings(u, b) ELSE u
  BY DEF BuiltOne
<1>2. j \in IndexOver(D) /\ IsSelection(D, y) /\ IsSelection(D, x)
  BY IndexWithBuiltTyped, StateTyped, SelectionTyped
<1>3. S \in SUBSET D /\ s \in S
  BY <1>2 DEF ChangedScripts, IsSelection
<1>4. NowIndexes(v, w, b, j) /\ v \in Assessed(w, {b})
  BY <1>2, WithIndexIs, WithIndexAssesses
<1>5. /\ GrowsAt(j, i, s) /\ Sorted(i, w.breakpoints[b].source)
      /\ OfScript(j.exact, s) = Own(w, b, s).exact
      /\ OfScript(j.friendly, s) = Own(w, b, s).friendly
      /\ s \notin j.unresolved /\ Own(w, b, s).unresolved = {}
      /\ i.unresolved \subseteq j.unresolved \cup {s}
  BY BuiltIndexIs
<1>6. x = Selection(i) /\ y = Selection(j) /\ S = ChangedScripts(x, y, s) /\ i = w.breakpoints[b].index
  OBVIOUS
<1> HIDE DEF j, x, y, v, S, i
<1>7. /\ IsState(v) /\ b \in DOMAIN v.breakpoints /\ DOMAIN v.scripts = D
      /\ DOMAIN v.breakpoints = DOMAIN w.breakpoints
  BY <1>4, AssessedIsState
<1>8. /\ v.scripts = w.scripts /\ v.breakpoints[b].source = w.breakpoints[b].source
      /\ v.breakpoints[b].index = j /\ v.breakpoints[b].friendly = y.friendly
  BY <1>4, <1>6 DEF NowIndexes
<1>9. \A t \in D : Own(v, b, t) = Own(w, b, t)
  BY <1>8 DEF Own
<1>10. \A t \in D \ {s} : Indexed(w, b, t) /\ MatchedBy(w, b, t, x)
  BY <1>6 DEF Building, Judged
<1>11. ASSUME NEW t \in D
       PROVE  Indexed(v, b, t)
  <2>1. CASE t = s
    <3>1. OfScript(j.exact, s) \subseteq j.exact
      BY DEF OfScript
    <3> QED BY <1>5, <1>8, <1>9, <2>1, <3>1 DEF Indexed
  <2>2. CASE t # s
    <3>1. Indexed(w, b, t)
      BY <1>10, <2>2
    <3>2. /\ OfScript(j.exact, t) = OfScript(i.exact, t)
          /\ OfScript(j.friendly, t) = OfScript(i.friendly, t)
          /\ t \in j.unresolved <=> t \in i.unresolved
          /\ i.exact \subseteq j.exact
      BY <1>5, <2>2 DEF GrowsAt
    <3> QED BY <1>6, <1>8, <1>9, <3>1, <3>2 DEF Indexed
  <2> QED BY <2>1, <2>2
<1>12. Sorted(j, w.breakpoints[b].source)
  <2>1. \A t \in DOMAIN v.scripts :
          /\ OfScript(v.breakpoints[b].index.exact, t) \subseteq Own(v, b, t).exact
          /\ OfScript(v.breakpoints[b].index.friendly, t) \subseteq Own(v, b, t).friendly
    BY <1>7, <1>11 DEF Indexed
  <2> QED BY <1>7, <1>8, <2>1, JudgedSorted
<1>13. Follow(w, b, s, i, j, x, y, S)
  BY <1>5, <1>6, <1>12 DEF Follow
<1>14. \A t \in S : Fitting(v, b, t, y)
  <2>1. Fitting(v, b, s, y)
    BY <1>8 DEF Fitting, Building, IsInFlight
  <2>2. \A t \in S \ {s} : Indexed(w, b, t)
    BY <1>3, <1>10
  <2>3. \A t \in S \ {s} : Fitting(v, b, t, y)
    BY <1>4, <1>13, <2>2, ChangedFits
  <2> QED BY <2>1, <2>3
<1>15. \A t \in D \ S : MatchedBy(v, b, t, y)
  BY <1>3, <1>4, <1>10, <1>13, UnchangedMatched
<1>16. y.kind = "none" => y.scripts = {}
  <2>1. Selects(y, j)
    BY <1>6, SelectionIs
  <2> QED BY <2>1 DEF Selects
<1>17. Mapping(v, b)
  BY <1>4, IndexLeaves DEF Building
<1>18. AppliedTo(u, v, b, y, S)
  BY <1>2, <1>3, <1>7, <1>14, <1>16, <1>17, ApplyAllMatches
<1> SUFFICES Quiets(IF again THEN ReconcilePhysicalBindings(u, b) ELSE u, w, b)
  BY <1>1
<1> HIDE DEF u
<1>19. /\ u \in Assessed(w, {b}) /\ IsState(u) /\ DOMAIN u.scripts = D
       /\ DOMAIN u.breakpoints = DOMAIN w.breakpoints
  BY <1>4, <1>7, <1>18, AssessedTransitive, AssessedIsState DEF AppliedTo
<1>20. AssessesAt(u, v, b, S) /\ Mapping(u, b) /\ \A t \in S : MatchedBy(u, b, t, y)
  BY <1>18 DEF AppliedTo
<1>21. /\ u.scripts = v.scripts /\ u.breakpoints[b].source = v.breakpoints[b].source
       /\ u.breakpoints[b].index = j /\ u.breakpoints[b].friendly = y.friendly
       /\ u.breakpoints[b].bindings = v.breakpoints[b].bindings
  BY <1>8, <1>20 DEF AssessesAt
<1>22. Judged(u, b, D)
  <2>1. ASSUME NEW t \in D
        PROVE  Indexed(u, b, t) /\ MatchedBy(u, b, t, y)
    <3>1. Own(u, b, t) = Own(v, b, t)
      BY <1>21 DEF Own
    <3>2. Indexed(u, b, t)
      BY <1>8, <1>11, <1>21, <3>1 DEF Indexed
    <3> QED BY <1>15, <1>20, <3>2, MatchedStays
  <2> QED BY <1>6, <1>21, <2>1 DEF Judged
<1>23. Wanted(u, b)
  BY <1>8, <1>21 DEF Wanted, Building
<1>24. SourcesAsked(w) => SourcesAsked(u)
  BY <1>4, <1>20, IndexLeaves, AssessesAtLeaves
<1>25. ASSUME NEW c \in DOMAIN w.breakpoints \ {b}, Mapping(w, c)
       PROVE  Leaves(u, w, c)
  <2>1. Leaves(v, w, c)
    BY <1>4, IndexLeaves
  <2>2. Mapping(v, c)
    BY <1>25, <2>1, KnowsKeeps DEF Leaves
  <2>3. Leaves(u, v, c)
    BY <1>7, <1>20, <2>2, AssessesAtLeaves
  <2> QED BY <2>1, <2>3, LeavesTransitive
<1>26. Consistent(u, Q)
  BY <1>19, AssessedConsistent
<1>27. Quiets(ReconcilePhysicalBindings(u, b), w, b)
  BY <1>19, <1>20, <1>22, <1>23, <1>24, <1>25, <1>26, SettlingQuiets
<1>28. ASSUME ~again
       PROVE  Quiets(u, w, b)
  <2>1. \/ w.breakpoints[b].bindings = <<>>
        \/ /\ SamePayload(x, y)
           /\ ~(s \in i.unresolved /\ j.unresolved = {} /\ u.breakpoints[b].mappings = {})
    BY <1>4, <1>21, <1>28 DEF NowIndexes
  <2>2. Placed(u, b)
    BY <1>3, <1>4, <1>13, <1>20, <2>1, BuiltPlaced
  <2> QED BY <1>19, <1>20, <1>22, <1>23, <1>24, <1>25, <2>2 DEF Quiets, Reconciled
<1> QED BY <1>27, <1>28

\* The incremental reconciliation of all breakpoints (ReconcileBuiltScript).
LEMMA ReconcileBuiltScriptQuiets ==
  ASSUME NEW w, IsState(w), NEW Q, Consistent(w, Q), SourcesAsked(w), NEW s \in DOMAIN w.scripts,
         \A b \in DOMAIN w.breakpoints : Building(w, b, s)
  PROVE  Quiet(ReconcileBuiltScript(w, s))
<1> DEFINE S == DOMAIN w.breakpoints
<1> DEFINE op(v, b) == BuiltOne(v, b, s)
           U == States(w)
           W == [T \in SUBSET S |-> {v \in U : /\ Reconciles(v, w, Q, T) /\ SourcesAsked(v)
                                               /\ \A c \in T : Reconciled(v, c)
                                               /\ \A c \in S \ T : Building(v, c, s)}]
<1>a. S \in SUBSET Breakpoints /\ IsFiniteSet(S)
  BY StateTyped, ReducerAssumption
<1>2. ASSUME NEW T \in SUBSET S, NEW b \in T, NEW v \in W[T \ {b}]
      PROVE  op(v, b) \in W[T]
  <2>1. /\ Reconciles(v, w, Q, T \ {b}) /\ SourcesAsked(v)
        /\ \A c \in T \ {b} : Reconciled(v, c)
        /\ \A c \in S \ (T \ {b}) : Building(v, c, s)
    OBVIOUS
  <2>2. IsState(v) /\ Consistent(v, Q) /\ b \in DOMAIN v.breakpoints
        /\ DOMAIN v.scripts = DOMAIN w.scripts /\ DOMAIN v.breakpoints = S
    BY <2>1 DEF Reconciles
  <2>3. Reconciles(op(v, b), v, Q, {b}) /\ Quiets(op(v, b), v, b)
    BY <2>1, <2>2, BuiltOneReconciles, BuiltOneQuiets
  <2> HIDE DEF op
  <2>4. (T \ {b}) \cap {b} = {} /\ (T \ {b}) \cup {b} = T
    OBVIOUS
  <2>5. Reconciles(op(v, b), w, Q, T)
    BY <2>1, <2>3, <2>4, ReconcilesTransitive
  <2>6. op(v, b) \in U
    BY <2>5 DEF Reconciles, IsState
  <2>7. SourcesAsked(op(v, b)) /\ Reconciled(op(v, b), b)
    BY <2>1, <2>3 DEF Quiets
  <2>8. \A c \in S \ {b} : Leaves(op(v, b), v, c)
    <3>1. \A c \in S \ {b} : Mapping(v, c)
      BY <2>1 DEF Reconciled, Building
    <3> QED BY <2>2, <2>3, <3>1 DEF Quiets
  <2>9. \A c \in T : Reconciled(op(v, b), c)
    BY <2>1, <2>7, <2>8, LeavesReconciled
  <2>10. \A c \in S \ T : Building(op(v, b), c, s)
    BY <2>1, <2>2, <2>8, BuildingStays
  <2> QED BY <2>5, <2>6, <2>7, <2>9, <2>10
<1>3. w \in W[{}]
  <2>1. Reconciles(w, w, Q, {}) /\ w \in U
    BY ReconcilesReflexive DEF IsState
  <2> QED BY <2>1
<1>4. \A T \in SUBSET S : \A k \in T : \A v \in W[T \ {k}] : op(v, k) \in W[T]
  BY <1>2
<1>5. ReconcileBuiltScript(w, s) \in W[S]
  <2> HIDE DEF W
  <2> QED BY <1>3, <1>4, <1>a, BuiltAllStays
<1> DEFINE v == ReconcileBuiltScript(w, s)
<1>6. Reconciles(v, w, Q, S) /\ SourcesAsked(v) /\ \A c \in S : Reconciled(v, c)
  BY <1>5
<1> HIDE DEF v
<1>7. Quiet(v)
  BY <1>6 DEF Quiet, Reconciles
<1> QED BY <1>7 DEF v

-----------------------------------------------------------------------------
(***************************************************************************)
(* apply_parsed_script: a script that no breakpoint has assessed yet.      *)
(***************************************************************************)

\* Breakpoint b is reconciled but for script s, which was just announced.
Unassessed(w, b, s) ==
  LET bp == w.breakpoints[b]
  IN /\ Mapping(w, b) /\ Placed(w, b) /\ Judged(w, b, DOMAIN w.scripts \ {s})
     /\ \A t \in DOMAIN w.scripts \ {s} :
          w.scripts[t].source = "unresolved" => ~MayExpose(t, bp.source)
     /\ IsUnbuilt(w.scripts[s])
     /\ w.scripts[s].source = "unresolved" => w.scripts[s].captured = NoContent
     /\ s \notin DOMAIN bp.assessments /\ s \notin bp.index.unresolved
     /\ OfScript(bp.index.exact, s) = {} /\ OfScript(bp.index.friendly, s) = {}

\* It stays so when it is left alone.
LEMMA UnassessedStays ==
  ASSUME NEW v, NEW w, NEW b, Leaves(v, w, b), NEW s \in DOMAIN w.scripts, Unassessed(w, b, s)
  PROVE  Unassessed(v, b, s)
<1>1. Knows(v, w, b)
  BY DEF Leaves
<1>2. Mapping(v, b) /\ Placed(v, b) /\ Judged(v, b, DOMAIN w.scripts \ {s})
  BY <1>1, KnowsKeeps, PlacedStays DEF Unassessed
<1>3. /\ DOMAIN v.scripts = DOMAIN w.scripts
      /\ SameKnowledge(v.breakpoints[b], w.breakpoints[b])
      /\ \A t \in DOMAIN w.scripts : Advances(w.scripts[t], v.scripts[t])
  BY <1>1 DEF Knows
<1>4. \A t \in DOMAIN w.scripts \ {s} :
          v.scripts[t].source = "unresolved" => ~MayExpose(t, w.breakpoints[b].source)
  BY <1>3 DEF Unassessed, Advances, IsInFlight
<1>5. IsUnbuilt(v.scripts[s])
      /\ (v.scripts[s].source = "unresolved" => v.scripts[s].captured = NoContent)
  BY <1>3 DEF Unassessed, Advances, IsInFlight, IsUnbuilt
<1> QED BY <1>2, <1>3, <1>4, <1>5 DEF Unassessed, SameKnowledge

\* Selection y differs from x in waiting for script s as well, at most.
WaitsAlso(y, x, s) ==
  /\ SamePayload(x, y)
  /\ \A t : t # s => (t \in x.scripts <=> t \in y.scripts)
  /\ s \in y.scripts => y.kind = "waiting"

\* One more script that may match changes no selection but a friendly one.
LEMMA SelectionWaits ==
  ASSUME NEW i, NEW j, NEW s,
         j.exact = i.exact, j.friendly = i.friendly, j.unresolved = i.unresolved \cup {s},
         Selection(i).friendly = FALSE, OfScript(i.exact, s) = {}, OfScript(i.friendly, s) = {}
  PROVE  WaitsAlso(Selection(j), Selection(i), s)
<1> DEFINE x == Selection(i)
           y == Selection(j)
<1>1. Selects(x, i) /\ Selects(y, j)
  BY SelectionIs
<1>2. s \notin {e[1] : e \in i.exact} /\ s \notin {e[1] : e \in i.friendly}
  BY DEF OfScript
<1> DEFINE bucket == IF i.exact = {} THEN i.friendly ELSE i.exact
           C == {e[2] : e \in bucket}
           R == {e[1] : e \in bucket}
<1>3. s \notin R
  BY <1>2
<1>4. \/ C = {} /\ x.kind = "none" /\ x.candidates = {} /\ x.scripts = {}
      \/ C # {} /\ Cardinality(C) > 1 /\ x.kind = "ambiguous" /\ x.candidates = C /\ x.scripts = R
      \/ /\ C # {} /\ ~(Cardinality(C) > 1) /\ Cardinality(C) = 1 /\ i.exact = {}
         /\ x.kind = "waiting" /\ x.candidates = {} /\ x.scripts = R \cup i.unresolved
      \/ /\ C # {} /\ ~(Cardinality(C) > 1) /\ i.exact # {} /\ x.kind = "unique"
         /\ x.candidates = C /\ x.scripts = R
  BY <1>1 DEF Selects
<1>5. /\ \/ C = {} /\ y.kind = "none" /\ y.candidates = {} /\ y.scripts = {}
         \/ C # {} /\ Cardinality(C) > 1 /\ y.kind = "ambiguous" /\ y.candidates = C /\ y.scripts = R
         \/ /\ C # {} /\ ~(Cardinality(C) > 1) /\ Cardinality(C) = 1 /\ i.exact = {}
            /\ y.kind = "waiting" /\ y.candidates = {} /\ y.scripts = R \cup j.unresolved
         \/ /\ C # {} /\ ~(Cardinality(C) > 1) /\ (i.exact # {} \/ Cardinality(C) # 1)
            /\ y.kind = "unique" /\ y.candidates = C /\ y.scripts = R
      /\ y.friendly = (y.kind = "unique" /\ i.exact = {})
  BY <1>1 DEF Selects
<1> HIDE DEF C, R, x, y
<1>6. y.kind = x.kind /\ y.candidates = x.candidates
  BY <1>4, <1>5
<1>7. y.friendly = FALSE
  BY <1>4, <1>5
<1>8. \A t : t # s => (t \in x.scripts <=> t \in y.scripts)
  BY <1>4, <1>5
<1>9. s \in y.scripts => y.kind = "waiting"
  BY <1>3, <1>4, <1>5
<1>10. x.friendly = FALSE
  BY DEF x
<1>11. WaitsAlso(y, x, s)
  BY <1>6, <1>7, <1>8, <1>9, <1>10 DEF SamePayload, WaitsAlso
<1> QED BY <1>11 DEF x, y

\* A script that was just announced is assessed without a candidate.
LEMMA AnnouncedIs ==
  ASSUME NEW w, IsState(w), NEW b \in DOMAIN w.breakpoints, NEW s \in DOMAIN w.scripts,
         Unassessed(w, b, s), NEW k, k \in {"waiting", "notFound"},
         NEW a, a = Assessment(w.scripts[s].version, k)
  PROVE  LET v == SetAssessment(w, b, s, a)
         IN /\ v \in Assessed(w, {b}) /\ AssessesAt(v, w, b, {s}) /\ Mapping(v, b)
            /\ s \in DOMAIN v.breakpoints[b].assessments
            /\ v.breakpoints[b].assessments[s] = a /\ Desired(v, b) = Desired(w, b)
<1> DEFINE v == SetAssessment(w, b, s, a)
           old == w.breakpoints[b].assessments
           now == v.breakpoints[b].assessments
<1> SUFFICES /\ v \in Assessed(w, {b}) /\ AssessesAt(v, w, b, {s}) /\ Mapping(v, b)
             /\ s \in DOMAIN now /\ now[s] = a /\ Desired(v, b) = Desired(w, b)
  OBVIOUS
<1>1. a \in AssessmentState /\ a.status = k /\ a.version = w.scripts[s].version
  BY StateTyped, AssessmentTyped DEF Assessment
<1>2. v \in Assessed(w, {b})
  BY <1>1, SetAssessmentAssesses
<1>3. NowAssesses(v, w, b, w.breakpoints[b].mappings, With(old, s, a), w.pending)
  BY AssessmentIs
<1> HIDE DEF v
<1>4. now = With(old, s, a)
  BY <1>3 DEF NowAssesses
<1>5. /\ DOMAIN now = DOMAIN old \cup {s} /\ now[s] = a
      /\ \A t \in DOMAIN old \ {s} : now[t] = old[t]
  BY <1>4 DEF With
<1>6. s \notin DOMAIN old
  BY DEF Unassessed
<1>7. \A t : t # s => /\ t \in DOMAIN now <=> t \in DOMAIN old
                      /\ t \in DOMAIN old => now[t] = old[t]
  BY <1>5
<1>8. \A t \in DOMAIN now : now[t].status \in {"applicable", "unmapped"}
        => t \in DOMAIN old /\ now[t] = old[t]
  BY <1>1, <1>5
<1> HIDE DEF now, old
<1>9. AssessesAt(v, w, b, {s})
  BY <1>3, <1>7, <1>8 DEF NowAssesses, AssessesAt, now, old
<1>10. Mapping(v, b)
  <2>1. /\ v.scripts = w.scripts /\ v.pending = w.pending
        /\ v.breakpoints[b].mappings = w.breakpoints[b].mappings
        /\ v.breakpoints[b].generation = w.breakpoints[b].generation
    BY <1>3 DEF NowAssesses
  <2>2. ASSUME NEW e \in v.breakpoints[b].mappings
        PROVE  Scheduled(v, b, e)
    <3>1. Scheduled(w, b, e)
      BY <2>1, <2>2 DEF Unassessed, Mapping
    <3>2. e.script \in DOMAIN old
      BY <3>1 DEF Scheduled, old
    <3>3. e.script \in DOMAIN now /\ now[e.script] = old[e.script]
      BY <1>5, <1>6, <3>2
    <3> QED BY <2>1, <3>1, <3>3 DEF Scheduled, now, old
  <2>3. ASSUME NEW t \in DOMAIN now
        PROVE  Timely(v, b, t)
    <3>1. CASE t = s
      BY <1>1, <1>5, <2>1, <3>1 DEF Timely, now
    <3>2. CASE t # s
      <4>1. t \in DOMAIN old /\ now[t] = old[t]
        BY <1>5, <2>3, <3>2
      <4>2. Timely(w, b, t)
        BY <4>1 DEF Unassessed, Mapping, old
      <4> QED BY <2>1, <4>1, <4>2 DEF Timely, now, old
    <3> QED BY <3>1, <3>2
  <2> QED BY <2>2, <2>3 DEF Mapping, now
<1>11. Desired(v, b) = Desired(w, b)
  <2>1. v.scripts = w.scripts /\ v.breakpoints[b].condition = w.breakpoints[b].condition
    BY <1>3 DEF NowAssesses
  <2>2. now[s].status # "applicable"
    BY <1>1, <1>5
  <2>3. Desired(v, b) \subseteq Desired(w, b)
    BY <1>5, <2>1, <2>2 DEF Desired, now, old
  <2>4. Desired(w, b) \subseteq Desired(v, b)
    BY <1>5, <1>6, <2>1, <2>2 DEF Desired, now, old
  <2> QED BY <2>3, <2>4
<1> QED BY <1>2, <1>5, <1>9, <1>10, <1>11

\* A script that may match is waited for (AssessParsed).
LEMMA WaitingQuiets ==
  ASSUME NEW w, IsState(w), NEW b \in DOMAIN w.breakpoints, NEW s \in DOMAIN w.scripts,
         Unassessed(w, b, s), w.breakpoints[b].friendly = FALSE,
         MayExpose(s, w.breakpoints[b].source)
  PROVE  Quiets(AssessParsed(w, b, s), w, b)
<1> DEFINE D == DOMAIN w.scripts
           source == w.breakpoints[b].source
           a == Assessment(w.scripts[s].version, "waiting")
           v == SetAssessment(w, b, s, a)
           i == w.breakpoints[b].index
           j == [exact |-> i.exact, friendly |-> i.friendly, unresolved |-> i.unresolved \cup {s}]
           x == Selection(i)
           y == Selection(j)
           u == WithIndex(v, b, j)
           t == ScheduleSourceHydration(u, s, FALSE)
<1>1. /\ v \in Assessed(w, {b}) /\ AssessesAt(v, w, b, {s}) /\ Mapping(v, b)
      /\ s \in DOMAIN v.breakpoints[b].assessments
      /\ v.breakpoints[b].assessments[s] = a /\ Desired(v, b) = Desired(w, b)
  BY AnnouncedIs
<1>2. j \in IndexOver(D) /\ i \in IndexOver(D)
  <2>1. i \in IndexOver(D)
    BY StateTyped
  <2> QED BY <2>1 DEF IndexOver
<1>3. x.friendly = FALSE
  BY DEF Unassessed, Judged
<1>4. /\ SamePayload(x, y)
      /\ \A r : r # s => (r \in x.scripts <=> r \in y.scripts)
      /\ s \in y.scripts => y.kind = "waiting"
  <2>1. OfScript(i.exact, s) = {} /\ OfScript(i.friendly, s) = {}
    BY DEF Unassessed
  <2>2. j.exact = i.exact /\ j.friendly = i.friendly /\ j.unresolved = i.unresolved \cup {s}
    OBVIOUS
  <2> HIDE DEF i, j
  <2>3. WaitsAlso(y, x, s)
    BY <1>3, <2>1, <2>2, SelectionWaits
  <2> HIDE DEF x, y
  <2> QED BY <2>3 DEF WaitsAlso
<1>5. AssessParsed(w, b, s) = t
  <2>1. StatusWithoutCandidate(s, w.scripts[s], source) = "waiting"
    BY DEF StatusWithoutCandidate, Unassessed, IsUnbuilt
  <2>2. AssessParsed(w, b, s) =
          ScheduleSourceHydration([v EXCEPT !.breakpoints[b].index.unresolved = @ \cup {s}], s, FALSE)
    BY <2>1 DEF AssessParsed
  <2>3. [v EXCEPT !.breakpoints[b].index.unresolved = @ \cup {s}] = u
    <3>1. IsState(v) /\ b \in DOMAIN v.breakpoints /\ DOMAIN v.scripts = D
      BY <1>1, AssessedIsState
    <3>2. v.breakpoints[b] \in BreakpointOver(D) /\ v.breakpoints[b].index = i
          /\ v.breakpoints[b].friendly = FALSE
      BY <1>1, <3>1, StateTyped DEF AssessesAt
    <3>3. y.friendly = FALSE
      BY <1>3, <1>4 DEF SamePayload
    <3>4. [v.breakpoints[b] EXCEPT !.index.unresolved = @ \cup {s}]
            = [v.breakpoints[b] EXCEPT !.index = j, !.friendly = y.friendly]
      <4>1. [i EXCEPT !.unresolved = @ \cup {s}] = j
        BY <1>2 DEF IndexOver
      <4> HIDE DEF i, j, y, v
      <4> DEFINE z == v.breakpoints[b]
      <4>2. [z EXCEPT !.index.unresolved = @ \cup {s}] = [z EXCEPT !.index = j]
        <5>1. z.index = i
          BY <3>2
        <5>2. z \in BreakpointOver(D)
          BY <3>2
        <5> HIDE DEF z
        <5> QED BY <4>1, <5>1, <5>2
      <4>3. [z EXCEPT !.index = j] = [z EXCEPT !.index = j, !.friendly = FALSE]
        <5>1. z.friendly = FALSE /\ z \in BreakpointOver(D)
          BY <3>2
        <5> HIDE DEF z
        <5> QED BY <5>1 DEF BreakpointOver
      <4> QED BY <3>3, <4>2, <4>3
    <3> DEFINE q == [v.breakpoints[b] EXCEPT !.index = j, !.friendly = y.friendly]
    <3>5. u = [v EXCEPT !.breakpoints[b] = q]
      <4> HIDE DEF v, j
      <4> QED BY <3>1 DEF WithIndex, IsState, States, StatesOver
    <3>6. [v EXCEPT !.breakpoints[b].index.unresolved = @ \cup {s}]
            = [v EXCEPT !.breakpoints[b] = q]
      <4> HIDE DEF v, j, y
      <4> QED BY <3>1, <3>4 DEF IsState, States, StatesOver
    <3> QED BY <3>5, <3>6
  <2> QED BY <2>2, <2>3
<1>6. IsState(v) /\ b \in DOMAIN v.breakpoints /\ DOMAIN v.scripts = D
      /\ DOMAIN v.breakpoints = DOMAIN w.breakpoints
  BY <1>1, AssessedIsState
<1>7. NowIndexes(u, v, b, j) /\ u \in Assessed(v, {b})
  <2> HIDE DEF v, j
  <2> QED BY <1>2, <1>6, WithIndexIs, WithIndexAssesses
<1>8. /\ j.exact = i.exact /\ j.friendly = i.friendly /\ j.unresolved = i.unresolved \cup {s}
      /\ x = Selection(i) /\ y = Selection(j) /\ i = w.breakpoints[b].index
  OBVIOUS
<1>9. a.status = "waiting" /\ a = Assessment(w.scripts[s].version, "waiting")
  BY DEF Assessment
<1> HIDE DEF a, v, i, j, x, y, u
<1>10. /\ u.scripts = w.scripts /\ u.physical = w.physical /\ u.pending = v.pending
       /\ u.breakpoints[b].source = source /\ u.breakpoints[b].index = j
       /\ u.breakpoints[b].friendly = y.friendly
       /\ u.breakpoints[b].bindings = w.breakpoints[b].bindings
       /\ u.breakpoints[b].assessments = v.breakpoints[b].assessments
       /\ u.breakpoints[b].condition = v.breakpoints[b].condition
  BY <1>1, <1>7, <1>8 DEF NowIndexes, AssessesAt
<1>11. IsState(u) /\ DOMAIN u.scripts = D /\ DOMAIN u.breakpoints = DOMAIN w.breakpoints
  BY <1>6, <1>7, AssessedIsState
<1>12. ASSUME NEW r \in D
       PROVE  Indexed(u, b, r) /\ MatchedBy(u, b, r, y)
  <2>1. Own(u, b, r) = Own(w, b, r)
    BY <1>10 DEF Own
  <2>2. CASE r = s
    <3>1. /\ Own(w, b, s).friendly = {} /\ s \in Own(w, b, s).unresolved
          /\ ~IsInFlight(w.scripts[s]) => Own(w, b, s).exact = {}
      BY DEF Unassessed, Own, IndexScript, IsUnbuilt, IsInFlight
    <3>2. OfScript(j.exact, s) = {} /\ OfScript(j.friendly, s) = {} /\ s \in j.unresolved
      BY <1>8 DEF Unassessed
    <3>3. Indexed(u, b, s)
      BY <1>10, <2>1, <2>2, <3>1, <3>2 DEF Indexed
    <3>4. ~Chosen(y, s)
      BY <1>4 DEF Chosen
    <3>5. StatusWithoutCandidate(s, w.scripts[s], source) = "waiting"
      BY DEF StatusWithoutCandidate, Unassessed, IsUnbuilt
    <3>6. MatchedBy(u, b, s, y)
      BY <1>1, <1>4, <1>9, <1>10, <3>2, <3>4, <3>5 DEF MatchedBy
    <3> QED BY <2>2, <3>3, <3>6
  <2>3. CASE r # s
    <3>1. Indexed(w, b, r) /\ MatchedBy(w, b, r, x)
      BY <1>8, <2>3 DEF Unassessed, Judged
    <3>2. Indexed(u, b, r)
      BY <1>8, <1>10, <2>1, <2>3, <3>1 DEF Indexed
    <3>3. MatchedBy(v, b, r, x)
      BY <1>1, <2>3, <3>1, MatchedStays
    <3>4. r \in j.unresolved <=> r \in v.breakpoints[b].index.unresolved
      BY <1>1, <1>8, <2>3 DEF AssessesAt
    <3>5. /\ r \in x.scripts <=> r \in y.scripts
          /\ x.kind = y.kind /\ x.candidates = y.candidates
      BY <1>4, <2>3 DEF SamePayload
    <3>6. MatchedBy(u, b, r, y)
      BY <1>7, <3>3, <3>4, <3>5, MatchedKept
    <3> QED BY <3>2, <3>6
  <2> QED BY <2>2, <2>3
<1>13. Mapping(u, b) /\ Judged(u, b, D)
  BY <1>1, <1>6, <1>7, <1>8, <1>10, <1>12, IndexLeaves DEF Judged
<1>14. Placed(u, b)
  <2>1. Desired(u, b) = Desired(v, b)
    BY <1>1, <1>10 DEF Desired, AssessesAt
  <2>2. u.breakpoints[b].index.unresolved # {}
    BY <1>8, <1>10
  <2> QED BY <1>1, <1>10, <2>1, <2>2 DEF Placed, Unassessed
<1>15. HydratesTo(t, u, {s})
  BY <1>11, HydrationHydrates
<1> HIDE DEF t
<1>16. \A c \in DOMAIN w.breakpoints : Leaves(t, u, c)
  BY <1>11, <1>15, HydratedLeaves
<1>17. Mapping(t, b) /\ Judged(t, b, D) /\ Placed(t, b) /\ DOMAIN t.scripts = D
  <2>1. Knows(t, u, b) /\ Leaves(t, u, b)
    BY <1>16 DEF Leaves
  <2> QED BY <1>11, <1>13, <1>14, <2>1, KnowsKeeps, PlacedStays DEF Knows
<1>18. Wanted(t, b)
  <2>1. ASSUME NEW r \in D, t.scripts[r].source = "unresolved"
        PROVE  ~MayExpose(r, source)
    <3>1. r # s /\ Advances(w.scripts[r], t.scripts[r])
      BY <1>10, <1>11, <1>15, <2>1 DEF HydratesTo
    <3> QED BY <2>1, <3>1 DEF Unassessed, Advances, IsInFlight
  <2>2. t.breakpoints[b].source = source
    BY <1>10, <1>15 DEF HydratesTo
  <2> QED BY <1>17, <2>1, <2>2 DEF Wanted
<1>19. SourcesAsked(w) => SourcesAsked(t)
  BY <1>1, <1>6, <1>7, <1>15, IndexLeaves, AssessesAtLeaves DEF HydratesTo
<1>20. ASSUME NEW c \in DOMAIN w.breakpoints \ {b}, Mapping(w, c)
       PROVE  Leaves(t, w, c)
  <2>1. Leaves(v, w, c)
    BY <1>1, <1>20, AssessesAtLeaves
  <2>2. Leaves(u, v, c)
    BY <1>6, <1>7, IndexLeaves
  <2> QED BY <1>16, <2>1, <2>2, LeavesTransitive
<1> QED BY <1>5, <1>17, <1>18, <1>19, <1>20 DEF Quiets, Reconciled

\* A script that cannot match is not found (AssessParsed).
LEMMA NotFoundQuiets ==
  ASSUME NEW w, IsState(w), NEW Q, Consistent(w, Q), NEW b \in DOMAIN w.breakpoints,
         NEW s \in DOMAIN w.scripts, Unassessed(w, b, s), ~MayExpose(s, w.breakpoints[b].source)
  PROVE  Quiets(AssessParsed(w, b, s), w, b)
<1> DEFINE D == DOMAIN w.scripts
           source == w.breakpoints[b].source
           a == Assessment(w.scripts[s].version, "notFound")
           v == SetAssessment(w, b, s, a)
           x == Selection(w.breakpoints[b].index)
<1>1. /\ v \in Assessed(w, {b}) /\ AssessesAt(v, w, b, {s}) /\ Mapping(v, b)
      /\ s \in DOMAIN v.breakpoints[b].assessments
      /\ v.breakpoints[b].assessments[s] = a /\ Desired(v, b) = Desired(w, b)
  BY AnnouncedIs
<1>2. StatusWithoutCandidate(s, w.scripts[s], source) = "notFound"
  BY DEF StatusWithoutCandidate, Unassessed, IsUnbuilt
<1>3. AssessParsed(w, b, s) =
        IF w.breakpoints[b].bindings # <<>> THEN ReconcilePhysicalBindings(v, b) ELSE v
  BY <1>2 DEF AssessParsed
<1>4. a.status = "notFound" /\ a = Assessment(w.scripts[s].version, "notFound")
  BY DEF Assessment
<1> SUFFICES Quiets(IF w.breakpoints[b].bindings # <<>> THEN ReconcilePhysicalBindings(v, b) ELSE v, w, b)
  BY <1>3
<1> HIDE DEF a, v
<1>5. IsState(v) /\ DOMAIN v.scripts = D /\ DOMAIN v.breakpoints = DOMAIN w.breakpoints
      /\ Consistent(v, Q)
  BY <1>1, AssessedIsState, AssessedConsistent
<1>6. /\ v.scripts = w.scripts /\ v.breakpoints[b].source = source
      /\ v.breakpoints[b].index = w.breakpoints[b].index
      /\ v.breakpoints[b].friendly = w.breakpoints[b].friendly
      /\ v.breakpoints[b].bindings = w.breakpoints[b].bindings
  BY <1>1 DEF AssessesAt
<1>7. ~(s \in x.scripts)
  <2>1. Selects(x, w.breakpoints[b].index)
    BY SelectionIs
  <2> DEFINE i == w.breakpoints[b].index
  <2>2. /\ s \notin {e[1] : e \in i.exact} /\ s \notin {e[1] : e \in i.friendly}
        /\ s \notin i.unresolved
    BY DEF Unassessed, OfScript
  <2> HIDE DEF x, i
  <2>3. Selects(x, i)
    BY <2>1 DEF i
  <2> QED BY <2>2, <2>3 DEF Selects
<1>8. ASSUME NEW r \in D
      PROVE  Indexed(v, b, r) /\ MatchedBy(v, b, r, x)
  <2>1. Own(v, b, r) = Own(w, b, r)
    BY <1>6 DEF Own
  <2>2. CASE r = s
    <3>1. /\ Own(w, b, s).friendly = {} /\ s \notin Own(w, b, s).unresolved
          /\ ~IsInFlight(w.scripts[s]) => Own(w, b, s).exact = {}
      BY DEF Unassessed, Own, IndexScript, IsUnbuilt, IsInFlight
    <3>2. Indexed(v, b, s)
      BY <1>6, <2>1, <2>2, <3>1 DEF Indexed, Unassessed
    <3>3. MatchedBy(v, b, s, x)
      BY <1>1, <1>2, <1>4, <1>6, <1>7 DEF MatchedBy, Chosen
    <3> QED BY <2>2, <3>2, <3>3
  <2>3. CASE r # s
    <3>1. Indexed(w, b, r) /\ MatchedBy(w, b, r, x)
      BY <2>3 DEF Unassessed, Judged
    <3>2. Indexed(v, b, r)
      BY <1>6, <2>1, <3>1 DEF Indexed
    <3>3. MatchedBy(v, b, r, x)
      BY <1>1, <2>3, <3>1, MatchedStays
    <3> QED BY <3>2, <3>3
  <2> QED BY <2>2, <2>3
<1>9. Mapping(v, b) /\ Judged(v, b, D)
  BY <1>1, <1>6, <1>8 DEF Judged, Unassessed
<1>10. Wanted(v, b)
  BY <1>6 DEF Wanted, Unassessed
<1>11. SourcesAsked(w) => SourcesAsked(v)
  BY <1>1, AssessesAtLeaves
<1>12. \A c \in DOMAIN w.breakpoints \ {b} : Mapping(w, c) => Leaves(v, w, c)
  BY <1>1, AssessesAtLeaves
<1>13. Quiets(ReconcilePhysicalBindings(v, b), w, b)
  BY <1>5, <1>9, <1>10, <1>11, <1>12, SettlingQuiets
<1>14. ASSUME w.breakpoints[b].bindings = <<>>
       PROVE  Quiets(v, w, b)
  <2>1. DOMAIN v.breakpoints[b].bindings = {} /\ DOMAIN w.breakpoints[b].bindings = {}
    BY <1>6, <1>14, MapsEmpty
  <2>2. Desired(w, b) \subseteq DOMAIN w.breakpoints[b].bindings
    BY DEF Unassessed, Placed
  <2>3. Placed(v, b)
    BY <1>1, <2>1, <2>2 DEF Placed
  <2> QED BY <1>5, <1>9, <1>10, <1>11, <1>12, <2>3 DEF Quiets, Reconciled
<1> QED BY <1>13, <1>14

\* A breakpoint is reconciled with a script that was announced (ScriptParsed).
LEMMA ParsedOneQuiets ==
  ASSUME NEW w, IsState(w), NEW Q, Consistent(w, Q), NEW b \in DOMAIN w.breakpoints,
         NEW s \in DOMAIN w.scripts, NEW again, Mapping(w, b), again \/ Unassessed(w, b, s)
  PROVE  Quiets(ParsedOne(w, b, s, again), w, b)
<1>1. CASE again \/ NeedsFullReconciliation(w, b, s)
  BY <1>1, ReconcileBreakpointQuiets DEF ParsedOne
<1>2. CASE ~(again \/ NeedsFullReconciliation(w, b, s))
  <2>1. ParsedOne(w, b, s, again) = AssessParsed(w, b, s)
    BY <1>2 DEF ParsedOne
  <2>2. Unassessed(w, b, s) /\ (MayExpose(s, w.breakpoints[b].source) => w.breakpoints[b].friendly = FALSE)
    <3>1. w.breakpoints[b].friendly \in BOOLEAN
      BY StateTyped, BreakpointFields
    <3> QED BY <1>2, <3>1 DEF NeedsFullReconciliation
  <2> QED BY <2>1, <2>2, WaitingQuiets, NotFoundQuiets
<1> QED BY <1>1, <1>2

\* Every breakpoint is reconciled with a script that was announced.
LEMMA AssessAllQuiets ==
  ASSUME NEW w, IsState(w), NEW Q, Consistent(w, Q), SourcesAsked(w), NEW s \in DOMAIN w.scripts,
         NEW again, \A b \in DOMAIN w.breakpoints : Mapping(w, b) /\ (again \/ Unassessed(w, b, s))
  PROVE  LET v == AssessAll(w, s, again, DOMAIN w.breakpoints)
         IN Quiet(v) /\ Reconciles(v, w, Q, DOMAIN w.breakpoints)
<1> DEFINE S == DOMAIN w.breakpoints
<1> DEFINE op(v, b) == ParsedOne(v, b, s, again)
           U == States(w)
           W == [T \in SUBSET S |-> {v \in U : /\ Reconciles(v, w, Q, T) /\ SourcesAsked(v)
                                               /\ \A c \in T : Reconciled(v, c)
                                               /\ \A c \in S : Mapping(v, c)
                                               /\ \A c \in S \ T : again \/ Unassessed(v, c, s)}]
<1>a. S \in SUBSET Breakpoints /\ IsFiniteSet(S)
  BY StateTyped, ReducerAssumption
<1>2. ASSUME NEW T \in SUBSET S, NEW b \in T, NEW v \in W[T \ {b}]
      PROVE  op(v, b) \in W[T]
  <2>1. /\ Reconciles(v, w, Q, T \ {b}) /\ SourcesAsked(v)
        /\ \A c \in T \ {b} : Reconciled(v, c)
        /\ \A c \in S : Mapping(v, c)
        /\ \A c \in S \ (T \ {b}) : again \/ Unassessed(v, c, s)
    OBVIOUS
  <2>2. IsState(v) /\ Consistent(v, Q) /\ b \in DOMAIN v.breakpoints
        /\ DOMAIN v.scripts = DOMAIN w.scripts /\ DOMAIN v.breakpoints = S
    BY <2>1 DEF Reconciles
  <2>3. Reconciles(op(v, b), v, Q, {b}) /\ Quiets(op(v, b), v, b)
    BY <2>1, <2>2, ParsedOneReconciles, ParsedOneQuiets
  <2> HIDE DEF op
  <2>4. (T \ {b}) \cap {b} = {} /\ (T \ {b}) \cup {b} = T
    OBVIOUS
  <2>5. Reconciles(op(v, b), w, Q, T)
    BY <2>1, <2>3, <2>4, ReconcilesTransitive
  <2>6. op(v, b) \in U
    BY <2>5 DEF Reconciles, IsState
  <2>7. SourcesAsked(op(v, b)) /\ Reconciled(op(v, b), b)
    BY <2>1, <2>3 DEF Quiets
  <2>8. \A c \in S \ {b} : Leaves(op(v, b), v, c)
    BY <2>1, <2>2, <2>3 DEF Quiets
  <2>9. \A c \in T : Reconciled(op(v, b), c)
    BY <2>1, <2>7, <2>8, LeavesReconciled
  <2>10. \A c \in S : Mapping(op(v, b), c)
    BY <2>1, <2>7, <2>8, KnowsKeeps DEF Leaves, Reconciled
  <2>11. \A c \in S \ T : again \/ Unassessed(op(v, b), c, s)
    BY <2>1, <2>2, <2>8, UnassessedStays
  <2> QED BY <2>5, <2>6, <2>7, <2>9, <2>10, <2>11
<1>3. w \in W[{}]
  <2>1. Reconciles(w, w, Q, {}) /\ w \in U
    BY ReconcilesReflexive DEF IsState
  <2> QED BY <2>1
<1>4. \A T \in SUBSET S : \A k \in T : \A v \in W[T \ {k}] : op(v, k) \in W[T]
  BY <1>2
<1> DEFINE v == AssessAll(w, s, again, S)
<1>5. v \in W[S]
  <2> HIDE DEF W, S
  <2> QED BY <1>3, <1>4, <1>a, AssessAllStays
<1>6. Reconciles(v, w, Q, S) /\ SourcesAsked(v) /\ \A c \in S : Reconciled(v, c)
  BY <1>5
<1> HIDE DEF v
<1>7. Quiet(v)
  BY <1>6 DEF Quiet, Reconciles
<1> QED BY <1>6, <1>7 DEF v

-----------------------------------------------------------------------------
(***************************************************************************)
(* Pauses and frames, of which breakpoints know nothing but the sources    *)
(* that are fetched for them.                                              *)
(***************************************************************************)

\* v is w in what the breakpoints depend on.
Untouched(v, w) ==
  /\ v.scripts = w.scripts /\ v.breakpoints = w.breakpoints /\ v.physical = w.physical
  /\ \A e : e.kind \in {"fetch", "build", "map"} => (e \in v.pending <=> e \in w.pending)

\* What touches no breakpoint keeps them reconciled.
LEMMA UntouchedQuiet ==
  ASSUME NEW w, NEW v, Untouched(v, w), Quiet(w)
  PROVE  Quiet(v)
<1>1. SourcesAsked(v)
  BY SourcesStay DEF Untouched, SameSources, Quiet
<1>2. ASSUME NEW b \in DOMAIN w.breakpoints
      PROVE  Reconciled(v, b)
  <2>1. Reconciled(w, b)
    BY DEF Quiet
  <2>2. \A e \in w.breakpoints[b].mappings : e.kind = "map"
    BY <2>1, MappingsAre DEF Reconciled
  <2>3. Leaves(v, w, b)
    BY <2>2 DEF Untouched, Leaves, Knows, SameKnowledge, Advances, IsInstalled
  <2> QED BY <2>1, <2>3, LeavesReconciled
<1> QED BY <1>1, <1>2 DEF Quiet, Untouched

\* An effect about no source and no mapping touches no breakpoint.
LEMMA FrameEmitted ==
  ASSUME NEW w, IsState(w), NEW n, NEW i
  PROVE  Untouched(Emit(w, FrameEffect(n, i)), w)
<1> DEFINE e == FrameEffect(n, i)
           v == Emit(w, e)
<1>1. e.kind = "frame"
  BY DEF FrameEffect
<1> HIDE DEF e
<1>2. /\ v.scripts = w.scripts /\ v.breakpoints = w.breakpoints /\ v.physical = w.physical
      /\ v.pending = w.pending \cup {e}
  BY DEF Emit, IsState, States, StatesOver
<1> HIDE DEF v
<1>3. Untouched(v, w)
  BY <1>1, <1>2 DEF Untouched
<1> QED BY <1>3 DEF v, e

\* The loop that asks for the projection of frames (ScheduleFrameMappings).
LEMMA EmitFramesUntouched ==
  ASSUME NEW w, IsState(w), NEW S \in SUBSET DOMAIN Frames(w), NEW n, S # {} => n \in Nat
  PROVE  Untouched(EmitFrames(w, n, S), w)
<1> DEFINE op(v, i) == Emit(v, FrameEffect(n, i))
           last == [T \in (SUBSET S) \ {{}} |-> Greatest(T)]
           U == {v \in Assessed(w, {}) : Untouched(v, w)}
           W == [T \in SUBSET S |-> {v \in U : TRUE}]
           step == [i \in S |-> [v \in U |-> op(v, i)]]
           rhs(g) == [T \in SUBSET S |->
                        IF T = {} THEN w ELSE op(g[T \ {Greatest(T)}], Greatest(T))]
           table == CHOOSE g : g = rhs(g)
<1>a. S \in SUBSET Nat /\ IsFiniteSet(S)
  BY FramesTyped
<1>1. \A T \in (SUBSET S) \ {{}} : last[T] = Greatest(T) /\ last[T] \in T
  BY GreatestExists, ReducerAssumption, <1>a
<1>2. ASSUME NEW T \in SUBSET S, NEW i \in T, NEW v \in W[T \ {i}]
      PROVE  op(v, i) \in W[T]
  <2>1. FrameEffect(n, i) \in Effects /\ ~IsPhysicalEffect(FrameEffect(n, i))
    BY <1>a, EffectKinds
  <2>2. op(v, i) \in Assessed(v, {})
    BY <2>1, AssessedIsState, EmitAssesses
  <2>3. Untouched(op(v, i), v)
    BY AssessedIsState, FrameEmitted
  <2> HIDE DEF op
  <2>4. Untouched(op(v, i), w)
    BY <2>3 DEF Untouched
  <2> QED BY <2>2, <2>4, AssessedTransitive
<1>3. w \in W[{}]
  BY AssessedReflexive DEF Untouched
<1>4. \A T \in SUBSET S : W[T] \subseteq U
  OBVIOUS
<1> HIDE DEF W, U
<1>5. PICK f : IsTable(f, S, w, last, step) /\ \A T \in SUBSET S : f[T] \in W[T]
  <2>1. ASSUME NEW T \in (SUBSET S) \ {{}}, NEW v \in W[T \ {last[T]}]
        PROVE  step[last[T]][v] \in W[T]
    <3>1. last[T] \in T /\ last[T] \in S /\ T \ {last[T]} \in SUBSET S
      BY <1>1
    <3>2. v \in U
      BY <1>4, <3>1
    <3> HIDE DEF last, op
    <3>3. step[last[T]][v] = op(v, last[T])
      BY <3>1, <3>2
    <3> HIDE DEF step
    <3> QED BY <1>2, <3>1, <3>3
  <2> HIDE DEF last, step
  <2> QED BY <1>1, <1>3, <1>a, <2>1, LoopStays
<1>6. f = rhs(f)
  <2>1. ASSUME NEW T \in SUBSET S, T # {}
        PROVE  f[T] = op(f[T \ {Greatest(T)}], Greatest(T))
    <3>1. /\ last[T] \in T /\ last[T] = Greatest(T) /\ last[T] \in S
          /\ T \ {last[T]} \in SUBSET S
      BY <1>1, <2>1
    <3>2. f[T \ {last[T]}] \in U
      BY <1>4, <1>5, <3>1
    <3> HIDE DEF last, op
    <3>3. f[T] = step[last[T]][f[T \ {last[T]}]]
      <4> HIDE DEF step
      <4> QED BY <1>5, <2>1 DEF IsTable
    <3> QED BY <3>1, <3>2, <3>3
  <2> HIDE DEF op, step, last
  <2> QED BY <1>5, <2>1 DEF IsTable
<1>7. table = rhs(table)
  <2> HIDE DEF rhs
  <2> QED BY <1>6
<1>8. table[S] \in W[S]
  <2> HIDE DEF table, op
  <2>1. table[{}] \in W[{}]
    BY <1>3, <1>7
  <2>2. ASSUME NEW T \in (SUBSET S) \ {{}}, table[T \ {last[T]}] \in W[T \ {last[T]}]
        PROVE  table[T] \in W[T]
    <3>1. last[T] \in T /\ last[T] = Greatest(T)
      BY <1>1
    <3>2. table[T] = op(table[T \ {last[T]}], last[T])
      BY <1>7, <3>1
    <3> HIDE DEF last, rhs
    <3> QED BY <1>2, <2>2, <3>1, <3>2
  <2> HIDE DEF last, rhs
  <2> QED BY <1>1, <2>1, <1>a, <2>2, LoopEnds
<1>9. EmitFrames(w, n, S) = table[S]
  BY DEF EmitFrames, InOrder, OneByOne
<1> HIDE DEF table
<1> QED BY <1>4, <1>8, <1>9 DEF U

\* Marking frames touches no breakpoint (SetFrames).
LEMMA SetFramesUntouched ==
  ASSUME NEW w, IsState(w), NEW S, NEW k
  PROVE  Untouched(SetFrames(w, S, k), w)
<1> DEFINE f == [i \in DOMAIN w.pause.frames |->
                   IF i \in S THEN [w.pause.frames[i] EXCEPT !.projected = k]
                   ELSE w.pause.frames[i]]
           v == [w EXCEPT !.pause.frames = f]
<1>1. SetFrames(w, S, k) \in {w, v}
  BY DEF SetFrames
<1>2. /\ v.scripts = w.scripts /\ v.breakpoints = w.breakpoints /\ v.physical = w.physical
      /\ v.pending = w.pending
  BY DEF IsState, States, StatesOver
<1> HIDE DEF v
<1>3. Untouched(v, w) /\ Untouched(w, w)
  BY <1>2 DEF Untouched
<1> QED BY <1>1, <1>3

\* The frames of a script whose source can be mapped touch no breakpoint.
LEMMA FrameMappingsUntouched ==
  ASSUME NEW w, IsState(w), NEW s
  PROVE  Untouched(ScheduleFrameMappings(w, s), w)
<1> DEFINE S == RawFrames(w, s)
           v == SetFrames(w, S, "pending")
           u == EmitFrames(v, w.pause.epoch, S)
<1>1. ScheduleFrameMappings(w, s) \in {w, u}
  BY DEF ScheduleFrameMappings, EmitFrames, InOrder, OneByOne
<1>2. S \in SUBSET DOMAIN Frames(w) /\ S \in SUBSET DOMAIN Frames(v)
      /\ (S # {} => w.pause.epoch \in Nat)
  <2>1. S \in SUBSET DOMAIN Frames(w)
    BY DEF RawFrames
  <2> HIDE DEF S
  <2>2. S # {} => w.pause \in Pause /\ w.pause # NoPause
    BY <2>1, FramesTyped
  <2>3. S # {} => DOMAIN Frames(w) = DOMAIN Frames(v)
    <3> SUFFICES ASSUME S # {} PROVE DOMAIN Frames(w) = DOMAIN Frames(v)
      OBVIOUS
    <3> DEFINE g == w.pause.frames
               f == [i \in DOMAIN g |->
                        IF i \in S THEN [g[i] EXCEPT !.projected = "pending"] ELSE g[i]]
               x == [w.pause EXCEPT !.frames = f]
    <3>1. v = [w EXCEPT !.pause.frames = f]
      BY DEF SetFrames
    <3>2. v.pause = x
      BY <3>1 DEF IsState, States, StatesOver
    <3>3. x.frames = f /\ DOMAIN f = DOMAIN g
      BY <2>2 DEF Pause
    <3>4. v.pause # NoPause
      <4>1. v \in Assessed(w, {})
        BY <2>1, SetFramesAssesses, StateTyped
      <4> QED BY <4>1, <2>2 DEF Assessed, Assesses, SameSession
    <3> HIDE DEF f, v
    <3> QED BY <2>2, <3>2, <3>3, <3>4 DEF Frames
  <2> QED BY <2>1, <2>2, <2>3, FramesTyped
<1>3. IsState(v) /\ Untouched(v, w)
  <2>1. v \in Assessed(w, {})
    BY <1>2, SetFramesAssesses, StateTyped
  <2> QED BY <2>1, AssessedIsState, SetFramesUntouched
<1> HIDE DEF S, v
<1>4. Untouched(u, v)
  BY <1>2, <1>3, EmitFramesUntouched
<1> HIDE DEF u
<1>5. Untouched(u, w) /\ Untouched(w, w)
  BY <1>3, <1>4 DEF Untouched
<1> QED BY <1>1, <1>5

\* Taking an effect about no source and no mapping touches no breakpoint.
LEMMA TakenUntouched ==
  ASSUME NEW w, IsState(w), NEW e, e.kind \notin {"fetch", "build", "map"}
  PROVE  Untouched(TakePending(w, e), w)
<1> DEFINE v == TakePending(w, e)
<1>1. /\ v.scripts = w.scripts /\ v.breakpoints = w.breakpoints /\ v.physical = w.physical
      /\ v.pending = w.pending \ {e}
  BY DEF TakePending, IsState, States, StatesOver
<1> HIDE DEF v
<1>2. Untouched(v, w)
  BY <1>1 DEF Untouched
<1> QED BY <1>2 DEF v

\* The answers about frames touch no breakpoint (FrameMapped, FrameFailed).
LEMMA FrameMappedUntouched ==
  ASSUME NEW w, IsState(w), NEW e, e.kind = "frame"
  PROVE  Untouched(FrameMapped(w, e), w) /\ Untouched(FrameFailed(w, e), w)
<1> DEFINE t == TakePending(w, e)
           S == {e.index} \cap DOMAIN Frames(w)
<1>1. Untouched(t, w) /\ IsState(t)
  <2>1. t \in Assessed(w, {})
    BY TakenAssesses DEF TakePending, IsPhysicalEffect
  <2> QED BY <2>1, AssessedIsState, TakenUntouched
<1>2. /\ FrameMapped(w, e) \in {t, SetFrames(t, S, "resolved")}
      /\ FrameFailed(w, e) \in {t, SetFrames(t, {e.index}, "failed")}
  BY DEF FrameMapped, FrameFailed
<1> HIDE DEF t, S
<1>3. /\ Untouched(SetFrames(t, S, "resolved"), t)
      /\ Untouched(SetFrames(t, {e.index}, "failed"), t)
  BY <1>1, SetFramesUntouched
<1>4. /\ Untouched(SetFrames(t, S, "resolved"), w)
      /\ Untouched(SetFrames(t, {e.index}, "failed"), w)
  BY <1>1, <1>3 DEF Untouched
<1> QED BY <1>1, <1>2, <1>4

\* What is about the execution only touches no breakpoint (Resumed,
\* ResumeRequested, ReleaseIfWaiting, CommandAccepted).
LEMMA ExecutionUntouched ==
  ASSUME NEW w, IsState(w), NEW n
  PROVE  /\ Untouched(Resumed(w, n), w) /\ Untouched(ResumeRequested(w, n), w)
         /\ Untouched(ReleaseIfWaiting(w), w)
         /\ \A e : e.kind \notin {"fetch", "build", "map"} => Untouched(CommandAccepted(w, e), w)
<1>1. Untouched(w, w)
  BY DEF Untouched
<1>2. Untouched(Resumed(w, n), w)
  <2> DEFINE v == [w EXCEPT !.phase = "running", !.epoch = 0, !.pause = NoPause,
                            !.pending = {e \in @ : ~(e.kind = "frame" /\ e.epoch = n)}]
  <2>1. /\ v.scripts = w.scripts /\ v.breakpoints = w.breakpoints /\ v.physical = w.physical
        /\ v.pending = {e \in w.pending : ~(e.kind = "frame" /\ e.epoch = n)}
    BY DEF IsState, States, StatesOver
  <2>2. Resumed(w, n) \in {w, v}
    BY DEF Resumed
  <2> HIDE DEF v
  <2>3. Untouched(v, w)
    BY <2>1 DEF Untouched
  <2> QED BY <1>1, <2>2, <2>3
<1>3. Untouched(ResumeRequested(w, n), w)
  <2> DEFINE v == [w EXCEPT !.phase = "resuming"]
             u == Emit(v, ResumeEffect(n))
  <2>1. /\ u.scripts = w.scripts /\ u.breakpoints = w.breakpoints /\ u.physical = w.physical
        /\ u.pending = w.pending \cup {ResumeEffect(n)}
    BY DEF Emit, IsState, States, StatesOver
  <2>2. ResumeRequested(w, n) \in {w, u}
    BY DEF ResumeRequested
  <2>3. ResumeEffect(n).kind = "resume"
    BY DEF ResumeEffect
  <2> HIDE DEF u
  <2>4. Untouched(u, w)
    BY <2>1, <2>3 DEF Untouched
  <2> QED BY <1>1, <2>2, <2>4
<1>4. Untouched(ReleaseIfWaiting(w), w)
  <2> DEFINE u == Emit(w, ReleaseEffect)
  <2>1. /\ u.scripts = w.scripts /\ u.breakpoints = w.breakpoints /\ u.physical = w.physical
        /\ u.pending = w.pending \cup {ReleaseEffect}
    BY DEF Emit, IsState, States, StatesOver
  <2>2. ReleaseIfWaiting(w) \in {w, u}
    BY DEF ReleaseIfWaiting
  <2>3. ReleaseEffect.kind = "release"
    BY DEF ReleaseEffect
  <2> HIDE DEF u
  <2>4. Untouched(u, w)
    BY <2>1, <2>3 DEF Untouched
  <2> QED BY <1>1, <2>2, <2>4
<1>5. ASSUME NEW e, e.kind \notin {"fetch", "build", "map"}
      PROVE  Untouched(CommandAccepted(w, e), w)
  <2> DEFINE t == TakePending(w, e)
             v == [t EXCEPT !.waiting = FALSE]
  <2>1. Untouched(t, w)
    BY <1>5, TakenUntouched
  <2>2. /\ v.scripts = t.scripts /\ v.breakpoints = t.breakpoints /\ v.physical = t.physical
        /\ v.pending = t.pending
    BY DEF TakePending, IsState, States, StatesOver
  <2>3. CommandAccepted(w, e) \in {w, t, v}
    BY DEF CommandAccepted
  <2> HIDE DEF v, t
  <2>4. Untouched(v, w)
    BY <2>1, <2>2 DEF Untouched
  <2> QED BY <1>1, <2>1, <2>3, <2>4
<1> QED BY <1>2, <1>3, <1>4, <1>5

\* Asking for a source keeps the breakpoints reconciled.
LEMMA HydrationQuiet ==
  ASSUME NEW w, IsState(w), NEW s, NEW r \in BOOLEAN, Quiet(w)
  PROVE  Quiet(ScheduleSourceHydration(w, s, r))
<1> DEFINE v == ScheduleSourceHydration(w, s, r)
<1>1. CASE s \in DOMAIN w.scripts
  <2>1. HydratesTo(v, w, {s})
    BY <1>1, HydrationHydrates
  <2> HIDE DEF v
  <2>2. \A b \in DOMAIN w.breakpoints : Reconciled(v, b)
    BY <2>1, HydratedLeaves, LeavesReconciled DEF Quiet
  <2>3. SourcesAsked(v) /\ DOMAIN v.breakpoints = DOMAIN w.breakpoints
    BY <2>1 DEF HydratesTo, Quiet
  <2> QED BY <2>2, <2>3 DEF Quiet, v
<1>2. CASE s \notin DOMAIN w.scripts
  BY <1>2 DEF ScheduleSourceHydration
<1> QED BY <1>1, <1>2

\* The loop over the scripts of a pause keeps the breakpoints reconciled.
LEMMA VisitQuiet ==
  ASSUME NEW w, IsState(w), NEW scripts \in Seq(Scripts), NEW S \in SUBSET DOMAIN scripts,
         Quiet(w)
  PROVE  Quiet(VisitAll(w, scripts, S))
<1> DEFINE op(v, i) == VisitFrame(v, scripts, i)
           last == [T \in (SUBSET S) \ {{}} |-> Greatest(T)]
           U == {v \in Assessed(w, {}) : Quiet(v)}
           W == [T \in SUBSET S |-> {v \in U : TRUE}]
           step == [i \in S |-> [v \in U |-> op(v, i)]]
           rhs(g) == [T \in SUBSET S |->
                        IF T = {} THEN w ELSE op(g[T \ {Greatest(T)}], Greatest(T))]
           table == CHOOSE g : g = rhs(g)
<1>a. S \in SUBSET Nat /\ IsFiniteSet(S)
  <2>1. DOMAIN scripts = 1..Len(scripts) /\ Len(scripts) \in Nat
    OBVIOUS
  <2>2. IsFiniteSet(1..Len(scripts))
    BY <2>1, FS_Interval
  <2>3. S \subseteq 1..Len(scripts)
    BY <2>1
  <2>4. IsFiniteSet(S)
    BY <2>2, <2>3, FS_Subset
  <2> QED BY <2>1, <2>3, <2>4
<1>1. \A T \in (SUBSET S) \ {{}} : last[T] = Greatest(T) /\ last[T] \in T
  BY GreatestExists, ReducerAssumption, <1>a
<1>2. ASSUME NEW T \in SUBSET S, NEW i \in T, NEW v \in W[T \ {i}]
      PROVE  op(v, i) \in W[T]
  <2>1. op(v, i) \in Assessed(v, {})
    <3>1. IsState(v) /\ scripts[i] \in Scripts
      BY AssessedIsState
    <3>2. /\ ScheduleFrameMappings(v, scripts[i]) \in Assessed(v, {})
          /\ ScheduleSourceHydration(v, scripts[i], FALSE) \in Assessed(v, {})
          /\ v \in Assessed(v, {})
      BY <3>1, FrameMappingsAssess, HydrationAssesses, AssessedReflexive
    <3> QED BY <3>2 DEF VisitFrame
  <2>2. Quiet(op(v, i))
    <3>1. IsState(v) /\ scripts[i] \in Scripts /\ Quiet(v)
      BY AssessedIsState
    <3>2. Quiet(ScheduleFrameMappings(v, scripts[i]))
      BY <3>1, FrameMappingsUntouched, UntouchedQuiet
    <3>3. Quiet(ScheduleSourceHydration(v, scripts[i], FALSE))
      BY <3>1, HydrationQuiet
    <3> QED BY <3>1, <3>2, <3>3 DEF VisitFrame
  <2> HIDE DEF op
  <2> QED BY <2>1, <2>2, AssessedTransitive
<1>3. w \in W[{}]
  BY AssessedReflexive
<1>4. \A T \in SUBSET S : W[T] \subseteq U
  OBVIOUS
<1> HIDE DEF W, U
<1>5. PICK f : IsTable(f, S, w, last, step) /\ \A T \in SUBSET S : f[T] \in W[T]
  <2>1. ASSUME NEW T \in (SUBSET S) \ {{}}, NEW v \in W[T \ {last[T]}]
        PROVE  step[last[T]][v] \in W[T]
    <3>1. last[T] \in T /\ last[T] \in S /\ T \ {last[T]} \in SUBSET S
      BY <1>1
    <3>2. v \in U
      BY <1>4, <3>1
    <3> HIDE DEF last, op
    <3>3. step[last[T]][v] = op(v, last[T])
      BY <3>1, <3>2
    <3> HIDE DEF step
    <3> QED BY <1>2, <3>1, <3>3
  <2> HIDE DEF last, step
  <2> QED BY <1>1, <1>3, <1>a, <2>1, LoopStays
<1>6. f = rhs(f)
  <2>1. ASSUME NEW T \in SUBSET S, T # {}
        PROVE  f[T] = op(f[T \ {Greatest(T)}], Greatest(T))
    <3>1. /\ last[T] \in T /\ last[T] = Greatest(T) /\ last[T] \in S
          /\ T \ {last[T]} \in SUBSET S
      BY <1>1, <2>1
    <3>2. f[T \ {last[T]}] \in U
      BY <1>4, <1>5, <3>1
    <3> HIDE DEF last, op
    <3>3. f[T] = step[last[T]][f[T \ {last[T]}]]
      <4> HIDE DEF step
      <4> QED BY <1>5, <2>1 DEF IsTable
    <3> QED BY <3>1, <3>2, <3>3
  <2> HIDE DEF op, step, last
  <2> QED BY <1>5, <2>1 DEF IsTable
<1>7. table = rhs(table)
  <2> HIDE DEF rhs
  <2> QED BY <1>6
<1>8. table[S] \in W[S]
  <2> HIDE DEF table, op
  <2>1. table[{}] \in W[{}]
    BY <1>3, <1>7
  <2>2. ASSUME NEW T \in (SUBSET S) \ {{}}, table[T \ {last[T]}] \in W[T \ {last[T]}]
        PROVE  table[T] \in W[T]
    <3>1. last[T] \in T /\ last[T] = Greatest(T)
      BY <1>1
    <3>2. table[T] = op(table[T \ {last[T]}], last[T])
      BY <1>7, <3>1
    <3> HIDE DEF last, rhs
    <3> QED BY <1>2, <2>2, <3>1, <3>2
  <2> HIDE DEF last, rhs
  <2> QED BY <1>1, <2>1, <1>a, <2>2, LoopEnds
<1>9. VisitAll(w, scripts, S) = table[S]
  BY DEF VisitAll, InOrder, OneByOne
<1> HIDE DEF table
<1> QED BY <1>4, <1>8, <1>9 DEF U

\* A pause keeps the breakpoints reconciled (Paused).
LEMMA PausedQuiet ==
  ASSUME NEW w, IsState(w), NEW Q, Consistent(w, Q), NEW scripts \in Seq(Scripts),
         ~IsStopped(w), Quiet(w)
  PROVE  Quiet(Paused(w, scripts))
<1> DEFINE frames == [i \in DOMAIN scripts |-> [script |-> scripts[i], projected |-> "raw"]]
           pause == [epoch |-> w.nextEpoch, frames |-> frames]
           y == IF w.phase = "resuming" THEN w.pending \ {ResumeEffect(w.epoch)} ELSE w.pending
           u == WithExecution(w, "paused", w.nextEpoch, w.nextEpoch + 1, pause, w.waiting, y)
           v == VisitAll(u, scripts, DOMAIN scripts)
<1>1. w.phase \in {"running", "paused", "resuming"} /\ w.epoch \in Nat /\ w.nextEpoch \in Nat
      /\ w.waiting \in BOOLEAN
  BY StateFields DEF IsState, States
<1>2. Paused(w, scripts) = v
  <2>1. u = [w EXCEPT !.phase = "paused", !.epoch = w.nextEpoch, !.nextEpoch = @ + 1,
               !.pause = [epoch |-> w.nextEpoch, frames |-> frames],
               !.pending = IF w.phase = "resuming" THEN @ \ {ResumeEffect(w.epoch)} ELSE @]
    BY DEF WithExecution, IsState, States, StatesOver
  <2> HIDE DEF u
  <2>2. w.phase = "running"
    BY <1>1 DEF IsStopped
  <2> QED BY <2>1, <2>2 DEF Paused, VisitAll, InOrder, OneByOne, VisitFrame
<1>3. pause \in Pause
  <2>1. frames \in Seq(Frame)
    <3>1. DOMAIN scripts = 1..Len(scripts) /\ Len(scripts) \in Nat
      OBVIOUS
    <3>2. \A i \in DOMAIN scripts : frames[i] \in Frame
      BY DEF Frame
    <3> QED BY <3>1, <3>2
  <2> HIDE DEF frames
  <2> QED BY <1>1, <2>1 DEF Pause
<1>4. Untouched(u, w)
  <2>1. ResumeEffect(w.epoch).kind = "resume"
    BY DEF ResumeEffect
  <2>2. /\ u.scripts = w.scripts /\ u.breakpoints = w.breakpoints /\ u.physical = w.physical
        /\ u.pending = y
    BY DEF WithExecution, IsState, States, StatesOver
  <2> HIDE DEF u
  <2> QED BY <2>1, <2>2 DEF Untouched
<1> HIDE DEF pause
<1>5. y \in SUBSET Effects /\ \A e \in w.pending : IsPhysicalEffect(e) => e \in y
  <2>1. ~IsPhysicalEffect(ResumeEffect(w.epoch))
    BY <1>1, EffectKinds
  <2> QED BY <2>1, StateTyped
<1> HIDE DEF y
<1>6. IsState(u)
  <2>1. w.nextEpoch + 1 \in Nat
    BY <1>1
  <2> QED BY <1>1, <1>3, <1>5, <2>1, ExecutionSet DEF HasExecution
<1> HIDE DEF u
<1>7. Quiet(v)
  BY <1>4, <1>6, UntouchedQuiet, VisitQuiet
<1> QED BY <1>2, <1>7

-----------------------------------------------------------------------------
(***************************************************************************)
(* Completions of fetches, source views and mappings, current and stale    *)
(* ones.                                                                   *)
(***************************************************************************)

\* The answer to a source effect of an old version finds nothing to change.
LEMMA StaleSourceQuiet ==
  ASSUME NEW w, IsState(w), NEW e, e.kind \in {"fetch", "build"}, Quiet(w),
         ~(e \in w.pending /\ IsCurrentScript(w, e))
  PROVE  Quiet(TakePending(w, e))
<1> DEFINE v == TakePending(w, e)
<1>1. /\ v.scripts = w.scripts /\ v.breakpoints = w.breakpoints /\ v.physical = w.physical
      /\ v.pending = w.pending \ {e}
  BY DEF TakePending, IsState, States, StatesOver
<1> HIDE DEF v
<1>2. SourcesAsked(v)
  <2>1. SourcesAsked(w)
    BY DEF Quiet
  <2>2. ASSUME NEW s \in DOMAIN w.scripts
        PROVE  /\ e # FetchEffect(s, w.scripts[s].version) \/ e \notin w.pending
               /\ e # BuildEffect(s, w.scripts[s].version) \/ e \notin w.pending
    BY DEF FetchEffect, BuildEffect, IsCurrentScript
  <2> QED BY <1>1, <2>1, <2>2 DEF SourcesAsked
<1>3. ASSUME NEW b \in DOMAIN w.breakpoints
      PROVE  Reconciled(v, b)
  <2>1. Reconciled(w, b)
    BY DEF Quiet
  <2>2. \A f \in w.breakpoints[b].mappings : f.kind = "map"
    BY <2>1, MappingsAre DEF Reconciled
  <2>3. Leaves(v, w, b)
    BY <1>1, <2>2 DEF Leaves, Knows, SameKnowledge, Advances, IsInstalled
  <2> QED BY <2>1, <2>3, LeavesReconciled
<1>4. Quiet(v)
  BY <1>1, <1>2, <1>3 DEF Quiet
<1> QED BY <1>4 DEF v

\* The effect of the current version of a script is the only one pending.
SourceOf(w, e) ==
  /\ e.script \in DOMAIN w.scripts /\ e.version = w.scripts[e.script].version
  /\ w.scripts[e.script].source = IF e.kind = "fetch" THEN "pending" ELSE "loaded"
  /\ \A f \in w.pending : (f.kind \in {"fetch", "build"} /\ f.script = e.script /\ f # e)
       => f.version < e.version

\* A source effect of a current version finds its source where it left it.
LEMMA CurrentSource ==
  ASSUME NEW w, IsState(w), NEW e \in w.pending, e.kind \in {"fetch", "build"},
         SourcesAsked(w), IsCurrentScript(w, e)
  PROVE  SourceOf(w, e)
<1>1. /\ e.script \in DOMAIN w.scripts /\ e.version = w.scripts[e.script].version
      /\ e.version \in Nat
  BY StateTyped DEF IsCurrentScript
<1>2. w.scripts[e.script].source = IF e.kind = "fetch" THEN "pending" ELSE "loaded"
  BY <1>1 DEF SourcesAsked
<1>3. ASSUME NEW f \in w.pending, f.kind \in {"fetch", "build"}, f.script = e.script, f # e
      PROVE  f.version < e.version
  <2>1. f \in SourceEffects /\ e \in SourceEffects
    <3>1. f \in Effects /\ e \in Effects
      BY StateTyped
    <3> QED BY <1>3, <3>1 DEF Effects, MapEffects, SourceEffects, PhysicalEffects,
                              FrameEffects, SessionEffects
  <2>2. f.version \in Nat /\ (f.kind = e.kind => f.version # e.version)
    BY <1>3, <2>1 DEF SourceEffects
  <2>3. f.version <= e.version /\ f.version # e.version
    <3>1. /\ f.version <= w.scripts[f.script].version
          /\ f.version = w.scripts[f.script].version =>
               w.scripts[f.script].source = IF f.kind = "fetch" THEN "pending" ELSE "loaded"
      BY <1>3 DEF SourcesAsked
    <3> QED BY <1>1, <1>2, <1>3, <2>2, <3>1
  <2> QED BY <1>1, <2>2, <2>3
<1> QED BY <1>1, <1>2, <1>3 DEF SourceOf

\* Script e.script of w becomes x, and effect e is answered, by effects y.
Answered(v, w, e, x, y) ==
  /\ v.breakpoints = w.breakpoints /\ v.physical = w.physical
  /\ DOMAIN v.scripts = DOMAIN w.scripts /\ v.scripts[e.script] = x
  /\ \A s \in DOMAIN w.scripts : s # e.script => v.scripts[s] = w.scripts[s]
  /\ v.pending = (w.pending \ {e}) \cup y
  /\ x.version = e.version /\ x.captured \in {NoContent, ScriptText[e.script]}

\* The sources are asked for after an answer, if the new one is.
LEMMA AnsweredAsked ==
  ASSUME NEW w, IsState(w), NEW e \in w.pending, e.kind \in {"fetch", "build"},
         SourcesAsked(w), SourceOf(w, e), NEW x, NEW y, NEW v, Answered(v, w, e, x, y),
         \/ y = {} /\ x.source \in {"resolved", "failed"}
         \/ y = {BuildEffect(e.script, e.version)} /\ x.source = "loaded"
  PROVE  SourcesAsked(v)
<1> DEFINE d == BuildEffect(e.script, e.version)
<1>1. d.kind = "build" /\ d.script = e.script /\ d.version = e.version
  BY DEF BuildEffect
<1>2. ASSUME NEW s \in DOMAIN v.scripts
      PROVE  LET script == v.scripts[s]
             IN /\ script.source = "pending" => FetchEffect(s, script.version) \in v.pending
                /\ script.source = "loaded" => BuildEffect(s, script.version) \in v.pending
                /\ script.captured \in {NoContent, ScriptText[s]}
  <2>1. CASE s = e.script
    BY <2>1 DEF Answered
  <2>2. CASE s # e.script
    <3>1. FetchEffect(s, w.scripts[s].version) # e /\ BuildEffect(s, w.scripts[s].version) # e
      BY <2>2 DEF FetchEffect, BuildEffect
    <3> QED BY <2>2, <3>1 DEF Answered, SourcesAsked
  <2> QED BY <2>1, <2>2
<1>3. ASSUME NEW f \in v.pending, f.kind \in {"fetch", "build"}
      PROVE  /\ f.script \in DOMAIN v.scripts /\ f.version <= v.scripts[f.script].version
             /\ f.version = v.scripts[f.script].version =>
                  v.scripts[f.script].source = IF f.kind = "fetch" THEN "pending" ELSE "loaded"
  <2>a. w.scripts[e.script].version \in Nat
    BY StateTyped DEF SourceOf
  <2>1. CASE f \in w.pending /\ f # e
    <3>1. /\ f.script \in DOMAIN w.scripts /\ f.version <= w.scripts[f.script].version
          /\ f.version = w.scripts[f.script].version =>
               w.scripts[f.script].source = IF f.kind = "fetch" THEN "pending" ELSE "loaded"
      BY <1>3, <2>1 DEF SourcesAsked
    <3>2. CASE f.script = e.script
      <4>1. f.version < e.version
        BY <1>3, <2>1, <3>2 DEF SourceOf
      <4>2. f.version \in Nat
        <5>1. f \in Effects
          BY <2>1, StateTyped
        <5> QED BY <1>3, <5>1 DEF Effects, MapEffects, SourceEffects, PhysicalEffects,
                                  FrameEffects, SessionEffects
      <4> QED BY <2>a, <3>1, <3>2, <4>1, <4>2 DEF Answered, SourceOf
    <3>3. CASE f.script # e.script
      BY <3>1, <3>3 DEF Answered
    <3> QED BY <3>2, <3>3
  <2>2. CASE ~(f \in w.pending /\ f # e)
    <3>1. f \in y
      BY <2>2 DEF Answered
    <3>2. f = d /\ x.source = "loaded"
      BY <3>1
    <3> QED BY <1>1, <2>a, <3>2 DEF Answered, SourceOf
  <2> QED BY <2>1, <2>2
<1> QED BY <1>2, <1>3 DEF SourcesAsked

\* What touches no breakpoint leaves each of them.
LEMMA UntouchedLeaves ==
  ASSUME NEW w, NEW v, Untouched(v, w)
  PROVE  /\ SourcesAsked(w) => SourcesAsked(v)
         /\ \A b \in DOMAIN w.breakpoints : Mapping(w, b) => Leaves(v, w, b)
<1>1. SourcesAsked(w) => SourcesAsked(v)
  BY SourcesStay DEF Untouched, SameSources
<1>2. ASSUME NEW b \in DOMAIN w.breakpoints, Mapping(w, b)
      PROVE  Leaves(v, w, b)
  <2>1. \A e \in w.breakpoints[b].mappings : e.kind = "map"
    BY <1>2, MappingsAre
  <2> QED BY <2>1 DEF Untouched, Leaves, Knows, SameKnowledge, Advances, IsInstalled
<1> QED BY <1>1, <1>2

\* An answer about a source that is not built leaves the mappings alone.
LEMMA AnsweredMapping ==
  ASSUME NEW w, NEW e, e.kind \in {"fetch", "build"}, SourceOf(w, e),
         NEW x, NEW y, NEW v, Answered(v, w, e, x, y), NEW b \in DOMAIN w.breakpoints, Mapping(w, b)
  PROVE  Mapping(v, b)
<1>1. ASSUME NEW f \in w.breakpoints[b].mappings
      PROVE  Scheduled(v, b, f)
  <2>1. Scheduled(w, b, f) /\ f.kind = "map"
    BY MappingsAre DEF Mapping
  <2>2. f \in v.pending
    BY <2>1 DEF Answered, Scheduled
  <2>3. f.script \in DOMAIN w.scripts
    BY <2>1 DEF Mapping, Scheduled, Timely
  <2>4. v.scripts[f.script].version = w.scripts[f.script].version
    BY <2>3 DEF Answered, SourceOf
  <2> QED BY <2>1, <2>2, <2>4 DEF Scheduled, Answered
<1>2. ASSUME NEW s \in DOMAIN w.breakpoints[b].assessments
      PROVE  Timely(v, b, s)
  <2>1. Timely(w, b, s)
    BY DEF Mapping
  <2>2. CASE s = e.script
    BY <2>1, <2>2 DEF Timely, SourceOf, Answered
  <2>3. CASE s # e.script
    BY <2>1, <2>3 DEF Timely, Answered
  <2> QED BY <2>2, <2>3
<1> QED BY <1>1, <1>2 DEF Mapping, Answered

\* The state after a source effect of script s was answered by x.
LEMMA AnsweredIs ==
  ASSUME NEW w, IsState(w), NEW e, e.script \in DOMAIN w.scripts, NEW x, x \in ScriptState,
         x.version = e.version, x.captured \in {NoContent, ScriptText[e.script]}
  PROVE  Answered([TakePending(w, e) EXCEPT !.scripts[e.script] = x], w, e, x, {})
<1> DEFINE v == [TakePending(w, e) EXCEPT !.scripts[e.script] = x]
<1>1. /\ v.breakpoints = w.breakpoints /\ v.physical = w.physical
      /\ v.scripts = [w.scripts EXCEPT ![e.script] = x]
      /\ v.pending = w.pending \ {e}
  BY DEF TakePending, IsState, States, StatesOver
<1> HIDE DEF v
<1>2. Answered(v, w, e, x, {})
  BY <1>1 DEF Answered
<1> QED BY <1>2 DEF v

\* A source that was fetched is known (ScriptSourceFetched).
LEMMA FetchedQuiet ==
  ASSUME NEW w, IsState(w), NEW Q, Consistent(w, Q), NEW e \in Effects, e.kind = "fetch",
         Quiet(w), ScriptText[e.script] \in Contents
  PROVE  Quiet(ScriptSourceFetched(w, e, ScriptText[e.script]))
<1> DEFINE t == TakePending(w, e)
           content == ScriptText[e.script]
           x == [w.scripts[e.script] EXCEPT !.source = "loaded", !.captured = content]
           v == [t EXCEPT !.scripts[e.script].source = "loaded",
                          !.scripts[e.script].captured = content]
           d == BuildEffect(e.script, e.version)
           u == Emit(v, d)
<1>1. CASE e \in w.pending /\ IsCurrentScript(w, e)
  <2>1. SourceOf(w, e) /\ SourcesAsked(w)
    BY <1>1, CurrentSource DEF Quiet
  <2>2. e.script \in DOMAIN w.scripts /\ w.scripts[e.script].version = e.version
        /\ w.scripts[e.script] \in ScriptState
    BY <1>1, StateTyped DEF IsCurrentScript
  <2>3. x \in ScriptState /\ x.version = e.version /\ x.captured = content /\ x.source = "loaded"
    BY <2>2 DEF ScriptState
  <2>4. v = [t EXCEPT !.scripts[e.script] = x]
    BY <2>2 DEF TakePending, IsState, States, StatesOver
  <2>5. ScriptSourceFetched(w, e, content) = u
    BY <1>1 DEF ScriptSourceFetched
  <2>6. /\ u.breakpoints = v.breakpoints /\ u.physical = v.physical /\ u.scripts = v.scripts
        /\ u.pending = v.pending \cup {d}
    BY DEF Emit, TakePending, IsState, States, StatesOver
  <2> HIDE DEF u, v, x
  <2>7. Answered(v, w, e, x, {})
    <3>1. Answered([t EXCEPT !.scripts[e.script] = x], w, e, x, {})
      BY <2>2, <2>3, AnsweredIs
    <3> HIDE DEF t
    <3> QED BY <2>4, <3>1
  <2>8. Answered(u, w, e, x, {d})
    BY <2>6, <2>7 DEF Answered
  <2>9. SourcesAsked(u)
    BY <1>1, <2>1, <2>3, <2>8, AnsweredAsked
  <2>10. \A s \in DOMAIN w.scripts : Advances(w.scripts[s], u.scripts[s])
    <3>1. w.scripts[e.script].captured \in {NoContent, content}
      BY <2>1, <2>2 DEF SourcesAsked
    <3>2. Advances(w.scripts[e.script], x)
      BY <2>1, <2>2, <2>3, <3>1 DEF Advances, IsInFlight, SourceOf
    <3> QED BY <2>8, <3>2 DEF Answered, Advances
  <2>11. ASSUME NEW b \in DOMAIN w.breakpoints
         PROVE  Reconciled(u, b)
    <3>1. Reconciled(w, b)
      BY DEF Quiet
    <3>2. \A f \in w.breakpoints[b].mappings : f.kind = "map"
      BY <3>1, MappingsAre DEF Reconciled
    <3>3. Leaves(u, w, b)
      BY <2>8, <2>10, <3>2 DEF Answered, Leaves, Knows, SameKnowledge, IsInstalled
    <3> QED BY <3>1, <3>3, LeavesReconciled
  <2>12. Quiet(u)
    BY <2>8, <2>9, <2>11 DEF Quiet, Answered
  <2> QED BY <2>5, <2>12
<1>2. CASE ~(e \in w.pending /\ IsCurrentScript(w, e))
  BY <1>2, StaleSourceQuiet DEF ScriptSourceFetched
<1> QED BY <1>1, <1>2

\* A source that failed is reconciled with (SourceFailed).
LEMMA FailedQuiet ==
  ASSUME NEW w, IsState(w), NEW Q, Consistent(w, Q), NEW e \in Effects,
         e.kind \in {"fetch", "build"}, Quiet(w)
  PROVE  Quiet(SourceFailed(w, e))
<1> DEFINE t == TakePending(w, e)
           s == e.script
           x == [w.scripts[s] EXCEPT !.source = "failed"]
           v == [t EXCEPT !.scripts[s].source = "failed"]
           u == SetFrames(v, RawFrames(w, s), "failed")
<1>1. CASE e \in w.pending /\ IsCurrentScript(w, e)
  <2>1. SourceOf(w, e) /\ SourcesAsked(w)
    BY <1>1, CurrentSource DEF Quiet
  <2>2. s \in DOMAIN w.scripts /\ w.scripts[s].version = e.version
        /\ w.scripts[s] \in ScriptState
    BY <1>1, StateTyped DEF IsCurrentScript
  <2>3. x \in ScriptState /\ x.version = e.version /\ x.source = "failed"
        /\ x.captured \in {NoContent, ScriptText[s]}
    BY <2>1, <2>2 DEF ScriptState, SourcesAsked
  <2>4. v = [t EXCEPT !.scripts[s] = x]
    BY <2>2 DEF TakePending, IsState, States, StatesOver
  <2>5. SourceFailed(w, e) = ReconcileAll(u)
    BY <1>1 DEF SourceFailed
  <2>6. v.pause = w.pause
    BY DEF TakePending, IsState, States, StatesOver
  <2> HIDE DEF v, x
  <2>7. Answered(v, w, e, x, {}) /\ v \in Assessed(w, {})
    <3>1. /\ Answered([t EXCEPT !.scripts[s] = x], w, e, x, {})
          /\ [t EXCEPT !.scripts[s] = x] \in Assessed(w, {})
      BY <1>1, <2>2, <2>3, AnsweredIs, SourceEffectTaken
    <3> HIDE DEF t
    <3> QED BY <2>4, <3>1
  <2>8. SourcesAsked(v)
    BY <1>1, <2>1, <2>3, <2>7, AnsweredAsked
  <2>9. \A b \in DOMAIN w.breakpoints : Mapping(v, b)
    BY <2>1, <2>7, AnsweredMapping DEF Quiet, Reconciled
  <2>10. RawFrames(w, s) \in SUBSET DOMAIN Frames(v)
    BY <2>6 DEF RawFrames, Frames
  <2>11. IsState(v) /\ Consistent(v, Q) /\ v.pending \in SUBSET Effects
         /\ DOMAIN v.breakpoints = DOMAIN w.breakpoints
    BY <2>7, AssessedIsState, AssessedConsistent, StateTyped
  <2>12. u \in Assessed(v, {}) /\ Untouched(u, v)
    BY <2>10, <2>11, SetFramesAssesses, SetFramesUntouched
  <2> HIDE DEF u
  <2>13. IsState(u) /\ Consistent(u, Q) /\ SourcesAsked(u)
         /\ DOMAIN u.breakpoints = DOMAIN w.breakpoints
    BY <2>8, <2>11, <2>12, AssessedIsState, AssessedConsistent, UntouchedLeaves
  <2>14. \A b \in DOMAIN u.breakpoints : Mapping(u, b)
    BY <2>9, <2>11, <2>12, <2>13, UntouchedLeaves, KnowsKeeps DEF Leaves
  <2> QED BY <2>5, <2>13, <2>14, ReconcileAllQuiets
<1>2. CASE ~(e \in w.pending /\ IsCurrentScript(w, e))
  BY <1>2, StaleSourceQuiet DEF SourceFailed
<1> QED BY <1>1, <1>2

\* Breakpoint b of w waits for script e.script to be reconciled, now that it is built.
LEMMA AnsweredBuilding ==
  ASSUME NEW w, IsState(w), NEW e, e.kind = "build", SourceOf(w, e),
         NEW x, x.source = "resolved", x.captured = w.scripts[e.script].captured,
         NEW v, Answered(v, w, e, x, {}), NEW b \in DOMAIN w.breakpoints, Reconciled(w, b)
  PROVE  Building(v, b, e.script)
<1> DEFINE s == e.script
           bp == w.breakpoints[b]
           D == DOMAIN w.scripts
<1>1. /\ v.breakpoints[b] = bp /\ v.physical = w.physical /\ DOMAIN v.scripts = D
      /\ v.scripts[s] = x /\ s \in D /\ w.scripts[s].source = "loaded"
      /\ \A r \in D \ {s} : v.scripts[r] = w.scripts[r]
      /\ v.pending = w.pending \ {e} /\ x.version = w.scripts[s].version
  BY DEF Answered, SourceOf
<1>2. Mapping(v, b)
  BY AnsweredMapping DEF Reconciled
<1>3. Wanted(v, b)
  BY <1>1 DEF Reconciled, Wanted
<1>4. Placed(v, b)
  <2>1. SameVersions(v, w)
    BY <1>1 DEF SameVersions
  <2>2. Desired(v, b) = Desired(w, b)
    BY <1>1, <2>1, DesiredSame
  <2> QED BY <1>1, <2>2 DEF Reconciled, Placed, Decided, IsInstalled
<1>5. ASSUME NEW r \in D \ {s}
      PROVE  Indexed(v, b, r) /\ MatchedBy(v, b, r, Selection(bp.index))
  <2>1. Indexed(w, b, r) /\ MatchedBy(w, b, r, Selection(bp.index))
    BY DEF Reconciled, Judged
  <2>2. v.scripts[r] = w.scripts[r]
    BY <1>1
  <2>3. Indexed(v, b, r)
    BY <1>1, <2>1, <2>2 DEF Indexed, Own
  <2>4. \A c : IsReusable(w, b, r, c) => IsReusable(v, b, r, c)
    <3>1. \A f \in bp.mappings : f.kind = "map"
      BY MappingsAre DEF Reconciled
    <3> QED BY <1>1, <2>2, <3>1 DEF IsReusable
  <2>5. MatchedBy(v, b, r, Selection(bp.index))
    BY <1>1, <2>1, <2>2, <2>4 DEF MatchedBy
  <2> QED BY <2>3, <2>5
<1>6. Judged(v, b, D \ {s})
  BY <1>1, <1>5 DEF Reconciled, Judged
<1>7. Indexed(w, b, s) /\ MatchedBy(w, b, s, Selection(bp.index))
  BY <1>1 DEF Reconciled, Judged
<1>8. OfScript(bp.index.exact, s) \subseteq Own(v, b, s).exact /\ OfScript(bp.index.friendly, s) = {}
  <2>1. Own(w, b, s).exact \subseteq Own(v, b, s).exact /\ Own(w, b, s).friendly = {}
    BY <1>1 DEF Own, IndexScript
  <2> QED BY <1>7, <2>1 DEF Indexed
<1>9. s \in DOMAIN bp.assessments =>
        /\ bp.assessments[s].status \notin {"mapping", "applicable", "unmapped"}
        /\ bp.assessments[s].status = "waiting" /\ s \notin bp.index.unresolved =>
             Chosen(Selection(bp.index), s)
  BY <1>1, <1>7 DEF MatchedBy, IsInFlight, Reconciled, Mapping, Timely
<1> QED BY <1>1, <1>2, <1>3, <1>4, <1>6, <1>8, <1>9 DEF Building

\* A view that was built is reconciled with (SourceViewBuilt).
LEMMA ViewBuiltQuiet ==
  ASSUME NEW w, IsState(w), NEW Q, Consistent(w, Q), NEW e \in Effects, e.kind = "build",
         NEW view \in SUBSET AnyCandidate, Quiet(w)
  PROVE  Quiet(SourceViewBuilt(w, e, view))
<1> DEFINE t == TakePending(w, e)
           s == e.script
           x == [w.scripts[s] EXCEPT !.source = "resolved", !.view = view]
           v == [t EXCEPT !.scripts[s].source = "resolved", !.scripts[s].view = view]
           u == ReconcileBuiltScript(v, s)
<1>1. CASE e \in w.pending /\ IsCurrentScript(w, e)
  <2>1. SourceOf(w, e) /\ SourcesAsked(w)
    BY <1>1, CurrentSource DEF Quiet
  <2>2. s \in DOMAIN w.scripts /\ w.scripts[s].version = e.version
        /\ w.scripts[s] \in ScriptState
    BY <1>1, StateTyped DEF IsCurrentScript
  <2>3. x \in ScriptState /\ x.version = e.version /\ x.source = "resolved"
        /\ x.captured = w.scripts[s].captured
    BY <2>2 DEF ScriptState
  <2>a. x.captured \in {NoContent, ScriptText[s]}
    BY <2>1, <2>2, <2>3 DEF SourcesAsked
  <2>4. v = [t EXCEPT !.scripts[s] = x]
    BY <2>2 DEF TakePending, IsState, States, StatesOver
  <2>5. SourceViewBuilt(w, e, view) = ScheduleFrameMappings(u, s)
    BY <1>1 DEF SourceViewBuilt
  <2> HIDE DEF v, x
  <2>6. Answered(v, w, e, x, {}) /\ v \in Assessed(w, {})
    <3>1. /\ Answered([t EXCEPT !.scripts[s] = x], w, e, x, {})
          /\ [t EXCEPT !.scripts[s] = x] \in Assessed(w, {})
      BY <1>1, <2>2, <2>3, <2>a, AnsweredIs, SourceEffectTaken
    <3> HIDE DEF t
    <3> QED BY <2>4, <3>1
  <2>7. SourcesAsked(v)
    BY <1>1, <2>1, <2>3, <2>6, AnsweredAsked
  <2>8. IsState(v) /\ Consistent(v, Q) /\ s \in DOMAIN v.scripts
        /\ DOMAIN v.breakpoints = DOMAIN w.breakpoints
    BY <2>2, <2>6, AssessedIsState, AssessedConsistent
  <2>9. \A b \in DOMAIN v.breakpoints : Building(v, b, s)
    BY <2>1, <2>3, <2>6, <2>8, AnsweredBuilding DEF Quiet
  <2>10. Quiet(u) /\ IsState(u)
    <3>1. Quiet(u)
      BY <2>7, <2>8, <2>9, ReconcileBuiltScriptQuiets
    <3>2. Reconciles(u, v, Q, DOMAIN v.breakpoints)
      BY <2>8, ReconcileBuiltScriptReconciles
    <3> QED BY <3>1, <3>2 DEF Reconciles
  <2> HIDE DEF u
  <2>11. Quiet(ScheduleFrameMappings(u, s))
    BY <2>10, FrameMappingsUntouched, UntouchedQuiet
  <2> QED BY <2>5, <2>11
<1>2. CASE ~(e \in w.pending /\ IsCurrentScript(w, e))
  BY <1>2, StaleSourceQuiet DEF SourceViewBuilt
<1> QED BY <1>1, <1>2

\* What a breakpoint waits for is current.
LEMMA MappingCurrent ==
  ASSUME NEW w, IsState(w), NEW b \in DOMAIN w.breakpoints, Mapping(w, b),
         NEW e \in w.breakpoints[b].mappings
  PROVE  e \in w.pending /\ IsCurrentMapping(w, e) /\ e.breakpoint = b
<1> DEFINE bp == w.breakpoints[b]
           s == e.script
           a == bp.assessments[s]
<1>1. Scheduled(w, b, e) /\ e.breakpoint = b
  BY MappingsAre DEF Mapping
<1>2. /\ e \in w.pending /\ s \in DOMAIN bp.assessments /\ a.status = "mapping"
      /\ e.generation = bp.generation /\ e.version = w.scripts[s].version
      /\ e.candidate = a.candidate
  BY <1>1 DEF Scheduled, MapEffect
<1>3. Timely(w, b, s)
  BY <1>2 DEF Mapping
<1>4. a \in AssessmentState
  <2>1. bp.assessments \in Maps(DOMAIN w.scripts, AssessmentState)
    BY StateTyped, BreakpointFields
  <2> QED BY <1>2, <2>1, MapsHave
<1>5. /\ a.version = e.version /\ a.positions = {} /\ s \in DOMAIN w.scripts
  BY <1>2, <1>3 DEF Timely
<1> HIDE DEF a
<1>6. a = [Assessment(e.version, "mapping") EXCEPT !.candidate = e.candidate]
  BY <1>2, <1>4, <1>5 DEF AssessmentState, Assessment
<1> QED BY <1>1, <1>2, <1>5, <1>6 DEF IsCurrentMapping, a

\* The current mapping of breakpoint b is the one its assessment waits for.
LEMMA CurrentMappingIs ==
  ASSUME NEW w, IsState(w), NEW e \in Effects, e.kind = "map", IsCurrentMapping(w, e),
         Mapping(w, e.breakpoint)
  PROVE  LET bp == w.breakpoints[e.breakpoint]
             a == bp.assessments[e.script]
         IN /\ a.status = "mapping" /\ a.candidate = e.candidate /\ a.version = e.version
            /\ e \in bp.mappings /\ w.scripts[e.script].source = "resolved"
            /\ \A f \in bp.mappings : f.script = e.script => f = e
<1> DEFINE b == e.breakpoint
           s == e.script
           bp == w.breakpoints[b]
           a == bp.assessments[s]
<1>1. e \in MapEffects
  BY DEF Effects, SourceEffects, PhysicalEffects, FrameEffects, SessionEffects
<1>2. /\ s \in DOMAIN w.scripts /\ w.scripts[s].version = e.version
      /\ bp.generation = e.generation /\ s \in DOMAIN bp.assessments
      /\ a = [Assessment(e.version, "mapping") EXCEPT !.candidate = e.candidate]
  BY DEF IsCurrentMapping
<1>3. a.status = "mapping" /\ a.candidate = e.candidate /\ a.version = e.version
  BY <1>2 DEF Assessment
<1>4. e = MapEffect(b, bp.generation, s, e.version, e.candidate)
  BY <1>1, <1>2 DEF MapEffects, MapEffect
<1> HIDE DEF a
<1>5. Timely(w, b, s)
  BY <1>2 DEF Mapping
<1>6. e \in bp.mappings /\ w.scripts[s].source = "resolved"
  BY <1>3, <1>4, <1>5 DEF Timely, a
<1>7. ASSUME NEW f \in bp.mappings, f.script = s PROVE f = e
  <2>1. Scheduled(w, b, f)
    BY DEF Mapping
  <2>2. f = MapEffect(b, bp.generation, s, w.scripts[s].version, a.candidate)
    BY <1>7, <2>1 DEF Scheduled, a
  <2> QED BY <1>2, <1>3, <1>4, <2>2
<1> QED BY <1>3, <1>6, <1>7 DEF a

\* An answer that no breakpoint waits for changes nothing.
LEMMA StaleMappingQuiet ==
  ASSUME NEW w, IsState(w), NEW e, e.kind = "map", Quiet(w),
         ~(e \in w.pending /\ IsCurrentMapping(w, e))
  PROVE  Quiet(TakePending(w, e))
<1> DEFINE v == TakePending(w, e)
<1>1. /\ v.scripts = w.scripts /\ v.breakpoints = w.breakpoints /\ v.physical = w.physical
      /\ v.pending = w.pending \ {e}
  BY DEF TakePending, IsState, States, StatesOver
<1> HIDE DEF v
<1>2. SourcesAsked(v)
  BY <1>1, SourcesStay DEF SameSources, Quiet
<1>3. ASSUME NEW b \in DOMAIN w.breakpoints
      PROVE  Reconciled(v, b)
  <2>1. Reconciled(w, b)
    BY DEF Quiet
  <2>2. \A f \in w.breakpoints[b].mappings : f # e
    BY <2>1, MappingCurrent DEF Reconciled
  <2>3. Leaves(v, w, b)
    BY <1>1, <2>2 DEF Leaves, Knows, SameKnowledge, Advances, IsInstalled
  <2> QED BY <2>1, <2>3, LeavesReconciled
<1>4. Quiet(v)
  BY <1>1, <1>2, <1>3 DEF Quiet
<1> QED BY <1>4 DEF v

\* v is w once the mapping e was answered and a judges its script.
HasMapped(v, w, e, a) ==
    NowAssesses(v, w, e.breakpoint, w.breakpoints[e.breakpoint].mappings \ {e},
                With(w.breakpoints[e.breakpoint].assessments, e.script, a), w.pending \ {e})

\* A breakpoint that was mapped has still to be placed.
LEMMA MappedJudged ==
  ASSUME NEW w, IsState(w), NEW e \in Effects, e.kind = "map", IsCurrentMapping(w, e),
         NEW a, a.status \in {"applicable", "unmapped"}, a.version = e.version,
         a.candidate = e.candidate, NEW v, HasMapped(v, w, e, a),
         Reconciled(w, e.breakpoint)
  PROVE  Mapping(v, e.breakpoint) /\ Judged(v, e.breakpoint, DOMAIN v.scripts)
<1> DEFINE b == e.breakpoint
           s == e.script
           bp == w.breakpoints[b]
           now == v.breakpoints[b]
           x == Selection(bp.index)
<1>1. /\ bp.assessments[s].status = "mapping" /\ bp.assessments[s].candidate = e.candidate
      /\ bp.assessments[s].version = e.version
      /\ e \in bp.mappings /\ w.scripts[s].source = "resolved"
      /\ \A f \in bp.mappings : f.script = s => f = e
  BY CurrentMappingIs DEF Reconciled
<1>2. /\ v.scripts = w.scripts /\ v.pending = w.pending \ {e}
      /\ now.generation = bp.generation /\ now.source = bp.source /\ now.index = bp.index
      /\ now.friendly = bp.friendly /\ now.mappings = bp.mappings \ {e}
      /\ now.assessments = With(bp.assessments, s, a)
  BY DEF NowAssesses, HasMapped
<1>3. /\ s \in DOMAIN w.scripts /\ w.scripts[s].version = e.version /\ s \in DOMAIN bp.assessments
  BY DEF IsCurrentMapping
<1>4. /\ DOMAIN now.assessments = DOMAIN bp.assessments /\ now.assessments[s] = a
      /\ \A t \in DOMAIN bp.assessments \ {s} : now.assessments[t] = bp.assessments[t]
  BY <1>2, <1>3 DEF With
<1> HIDE DEF now
<1>5. ASSUME NEW f \in now.mappings PROVE Scheduled(v, b, f)
  <2>1. f \in bp.mappings /\ f # e /\ f.script # s
    BY <1>1, <1>2, <1>5
  <2>2. Scheduled(w, b, f)
    BY <2>1 DEF Reconciled, Mapping
  <2> QED BY <1>2, <1>4, <2>1, <2>2 DEF Scheduled, now
<1>6. ASSUME NEW t \in DOMAIN now.assessments PROVE Timely(v, b, t)
  <2>1. Timely(w, b, t)
    BY <1>4 DEF Reconciled, Mapping
  <2>2. CASE t = s
    BY <1>1, <1>2, <1>3, <1>4, <2>2 DEF Timely, now
  <2>3. CASE t # s
    <3>1. MapEffect(b, bp.generation, t, bp.assessments[t].version, bp.assessments[t].candidate) # e
      BY <2>3 DEF MapEffect
    <3> QED BY <1>2, <1>4, <2>1, <2>3, <3>1 DEF Timely, now
  <2> QED BY <2>2, <2>3
<1>7. Mapping(v, b)
  BY <1>5, <1>6 DEF Mapping, now
<1>8. ASSUME NEW t \in DOMAIN w.scripts
      PROVE  Indexed(v, b, t) /\ MatchedBy(v, b, t, x)
  <2>1. Indexed(w, b, t) /\ MatchedBy(w, b, t, x)
    BY DEF Reconciled, Judged
  <2>2. Indexed(v, b, t)
    BY <1>2, <2>1 DEF Indexed, Own, now
  <2>3. CASE t # s
    <3>1. \A c : IsReusable(w, b, t, c) => IsReusable(v, b, t, c)
      BY <1>2, <1>4, <2>3 DEF IsReusable, now
    <3>2. MatchedBy(v, b, t, x)
      BY <1>2, <1>4, <2>1, <2>3, <3>1 DEF MatchedBy, now
    <3> QED BY <2>2, <3>2
  <2>4. CASE t = s
    <3>1. Chosen(x, s)
      <4>1. Selects(x, bp.index)
        BY SelectionIs
      <4>2. ASSUME ~Chosen(x, s) PROVE FALSE
        <5>1. bp.assessments[s].status =
                IF s \in x.scripts THEN x.kind
                ELSE StatusWithoutCandidate(s, w.scripts[s], bp.source)
          BY <1>1, <2>1, <2>4, <4>2 DEF MatchedBy, Assessment, IsInFlight
        <5>2. StatusWithoutCandidate(s, w.scripts[s], bp.source) # "mapping"
          BY DEF StatusWithoutCandidate
        <5> QED BY <1>1, <4>1, <5>1, <5>2 DEF Selects
      <4> QED BY <4>2
    <3>2. \A c : IsReusable(w, b, s, c) => IsReusable(v, b, s, c)
      BY <1>1, <1>2, <1>3, <1>4 DEF IsReusable, now
    <3>3. MatchedBy(v, b, s, x)
      BY <1>1, <1>2, <2>1, <2>4, <3>1, <3>2 DEF MatchedBy, IsInFlight, now
    <3> QED BY <2>2, <2>4, <3>3
  <2> QED BY <2>3, <2>4
<1>9. Judged(v, b, DOMAIN v.scripts)
  BY <1>2, <1>8 DEF Judged, Reconciled, now
<1> QED BY <1>7, <1>9

\* A breakpoint that became quiet leaves all of them so.
LEMMA QuietsQuiet ==
  ASSUME NEW w, NEW b, NEW v, Quiets(v, w, b), Quiet(w), DOMAIN v.breakpoints = DOMAIN w.breakpoints
  PROVE  Quiet(v)
<1>1. ASSUME NEW c \in DOMAIN w.breakpoints PROVE Reconciled(v, c)
  BY LeavesReconciled DEF Quiets, Quiet, Reconciled
<1> QED BY <1>1 DEF Quiets, Quiet

\* A mapping that was answered is placed (BreakpointMapped).
LEMMA MappedQuiet ==
  ASSUME NEW w, IsState(w), NEW Q, Consistent(w, Q), NEW e \in Effects, e.kind = "map",
         NEW P \in SUBSET Positions, IsFiniteSet(P), Quiet(w)
  PROVE  Quiet(BreakpointMapped(w, e, P))
<1> DEFINE b == e.breakpoint
           s == e.script
           bp == w.breakpoints[b]
           status == IF P = {} THEN "unmapped" ELSE "applicable"
           a == [Assessment(e.version, status) EXCEPT !.candidate = e.candidate, !.positions = P]
           x == [bp EXCEPT !.mappings = @ \ {e}]
           taken == TakePending(w, e)
           v == [taken EXCEPT !.breakpoints[b].mappings = @ \ {e}]
           u == SetAssessment(v, b, s, a)
<1>1. e \in MapEffects /\ ~IsPhysicalEffect(e)
  <2>1. e \in MapEffects
    BY DEF Effects, SourceEffects, PhysicalEffects, FrameEffects, SessionEffects
  <2> QED BY <2>1, EffectKinds
<1>2. CASE e \in w.pending /\ IsCurrentMapping(w, e)
  <2>1. b \in DOMAIN w.breakpoints /\ s \in DOMAIN w.scripts
    BY <1>2 DEF IsCurrentMapping
  <2>2. a \in AssessmentState
    <3>1. e.version \in Nat /\ e.candidate \in AnyCandidate
      BY <1>1 DEF MapEffects
    <3>2. status \in {"waiting", "mapping", "applicable", "unmapped",
                      "failed", "notFound", "ambiguous"}
      OBVIOUS
    <3> HIDE DEF status
    <3> QED BY <3>1, <3>2, AssessmentTyped
  <2>3. bp \in BreakpointOver(DOMAIN w.scripts) /\ w.pending \in SUBSET Effects
    BY <2>1, StateTyped
  <2>4. x \in BreakpointOver(DOMAIN w.scripts)
    <3>1. bp.mappings \ {e} \in SUBSET MapEffects
      BY <2>3, BreakpointFields
    <3> QED BY <2>3, <3>1, MappingsSet
  <2>5. /\ x.generation = bp.generation /\ x.source = bp.source
        /\ x.condition = bp.condition /\ x.bindings = bp.bindings
        /\ x.index = bp.index /\ x.friendly = bp.friendly /\ x.assessments = bp.assessments
        /\ x.mappings = bp.mappings \ {e}
    BY <2>3 DEF BreakpointOver
  <2>6. [w EXCEPT !.pending = w.pending \ {e}, !.breakpoints[b] = x] \in Assessed(w, {b})
    <3> HIDE DEF x
    <3> QED BY <1>1, <2>1, <2>3, <2>4, <2>5, BreakpointAssessed
  <2>7. v = [w EXCEPT !.pending = w.pending \ {e}, !.breakpoints[b] = x]
    BY DEF TakePending, IsState, States, StatesOver
  <2>8. v \in Assessed(w, {b})
    BY <2>6, <2>7
  <2>a. NowAssesses(v, w, b, bp.mappings \ {e}, bp.assessments, w.pending \ {e})
    <3>1. /\ v.scripts = w.scripts /\ v.physical = w.physical /\ v.pending = w.pending \ {e}
          /\ v.breakpoints = [w.breakpoints EXCEPT ![b] = x]
      BY <2>7 DEF IsState, States, StatesOver
    <3> HIDE DEF v, x
    <3> QED BY <2>1, <2>5, <3>1 DEF NowAssesses
  <2>9. IsState(v) /\ b \in DOMAIN v.breakpoints /\ s \in DOMAIN v.scripts
    BY <2>1, <2>8, AssessedIsState
  <2>10. a.status \in {"applicable", "unmapped"} /\ a.version = e.version /\ a.candidate = e.candidate
    BY DEF Assessment
  <2>11. BreakpointMapped(w, e, P) = ReconcilePhysicalBindings(u, b)
    BY <1>2 DEF BreakpointMapped
  <2> HIDE DEF v, a
  <2>12. u \in Assessed(v, {b}) /\ NowAssesses(u, v, b, v.breakpoints[b].mappings,
                                               With(v.breakpoints[b].assessments, s, a), v.pending)
    BY <2>2, <2>9, SetAssessmentAssesses, AssessmentIs
  <2> HIDE DEF u
  <2>13. u \in Assessed(w, {b})
    BY <2>8, <2>12, AssessedTransitive
  <2>14. NowAssesses(u, w, b, bp.mappings \ {e}, With(bp.assessments, s, a), w.pending \ {e})
    BY <2>a, <2>12 DEF NowAssesses
  <2>15. IsState(u) /\ Consistent(u, Q) /\ DOMAIN u.scripts = DOMAIN w.scripts
         /\ DOMAIN u.breakpoints = DOMAIN w.breakpoints
    BY <2>13, AssessedIsState, AssessedConsistent
  <2>16. Mapping(u, b) /\ Judged(u, b, DOMAIN u.scripts)
    <3>1. Reconciled(w, e.breakpoint) /\ IsCurrentMapping(w, e)
      BY <1>2, <2>1 DEF Quiet
    <3>2. HasMapped(u, w, e, a)
      BY <2>14 DEF HasMapped
    <3> QED BY <2>10, <3>1, <3>2, MappedJudged
  <2>17. Wanted(u, b)
    BY <2>1, <2>14 DEF Quiet, Reconciled, Wanted, NowAssesses
  <2>18. SourcesAsked(u) /\ SourcesAsked(w)
    BY <2>14, SourcesStay DEF NowAssesses, SameSources, Quiet
  <2>19. ASSUME NEW c \in DOMAIN w.breakpoints \ {b} PROVE Leaves(u, w, c)
    <3>1. \A f \in w.breakpoints[c].mappings : f # e
      BY MappingCurrent DEF Quiet, Reconciled
    <3> QED BY <2>14, <3>1 DEF NowAssesses, Leaves, Knows, SameKnowledge, Advances, IsInstalled
  <2>20. Quiets(ReconcilePhysicalBindings(u, b), w, b)
    BY <2>1, <2>15, <2>16, <2>17, <2>18, <2>19, SettlingQuiets
  <2>21. DOMAIN ReconcilePhysicalBindings(u, b).breakpoints = DOMAIN w.breakpoints
    <3>1. Settled(ReconcilePhysicalBindings(u, b), u, Q, b)
      BY <2>1, <2>15, ReconcilePhysicalBindingsSettles
    <3> QED BY <2>15, <3>1 DEF Settled, Rebinds
  <2> QED BY <2>11, <2>18, <2>20, <2>21, QuietsQuiet
<1>3. CASE ~(e \in w.pending /\ IsCurrentMapping(w, e))
  BY <1>3, StaleMappingQuiet DEF BreakpointMapped
<1> QED BY <1>2, <1>3

-----------------------------------------------------------------------------
(***************************************************************************)
(* Completions of physical effects: a physical breakpoint is installed,    *)
(* could not be, or is gone.                                               *)
(***************************************************************************)

\* The two differ in what the browser is asked to hold and in the states of the
\* bindings only.
Shifts(v, w) ==
  /\ v.scripts = w.scripts /\ DOMAIN v.breakpoints = DOMAIN w.breakpoints
  /\ \A b \in DOMAIN w.breakpoints :
       /\ SameKnowledge(v.breakpoints[b], w.breakpoints[b])
       /\ DOMAIN v.breakpoints[b].bindings = DOMAIN w.breakpoints[b].bindings
  /\ \A e : ~IsPhysicalEffect(e) => (e \in v.pending <=> e \in w.pending)

\* Such a step keeps what the assessments know, and where nothing becomes installed it
\* leaves the breakpoint alone.
LEMMA ShiftsLeaves ==
  ASSUME NEW v, NEW w, Shifts(v, w)
  PROVE  /\ SourcesAsked(w) => SourcesAsked(v)
         /\ \A b \in DOMAIN w.breakpoints : Mapping(w, b) =>
              /\ Knows(v, w, b)
              /\ (\A p \in DOMAIN w.breakpoints[b].bindings : IsInstalled(v, p) => IsInstalled(w, p))
                   => Leaves(v, w, b)
<1>1. SameSources(v, w)
  BY DEF Shifts, SameSources, IsPhysicalEffect
<1>2. SourcesAsked(w) => SourcesAsked(v)
  BY <1>1, SourcesStay DEF Shifts
<1>3. ASSUME NEW b \in DOMAIN w.breakpoints, Mapping(w, b) PROVE Knows(v, w, b)
  <2>1. \A e \in w.breakpoints[b].mappings : ~IsPhysicalEffect(e)
    BY <1>3, MappingsAre DEF IsPhysicalEffect
  <2> QED BY <2>1 DEF Shifts, Knows, Advances
<1> QED BY <1>2, <1>3 DEF Leaves, Shifts

\* What is quiet stays so when nothing becomes installed.
LEMMA ShiftsQuiet ==
  ASSUME NEW v, NEW w, Shifts(v, w), \A p : IsInstalled(v, p) => IsInstalled(w, p), Quiet(w)
  PROVE  Quiet(v)
<1>1. ASSUME NEW b \in DOMAIN w.breakpoints PROVE Reconciled(v, b)
  <2>1. Reconciled(w, b) /\ Mapping(w, b)
    BY DEF Quiet, Reconciled
  <2>2. Leaves(v, w, b)
    BY <2>1, ShiftsLeaves
  <2> QED BY <2>1, <2>2, LeavesReconciled
<1> QED BY <1>1, ShiftsLeaves DEF Quiet, Shifts

\* An installed breakpoint changes no knowledge before its owners are settled
\* (BreakpointInstalled).
LEMMA InstalledShifts ==
  ASSUME NEW w, NEW u, NEW Q, NEW p, NEW O, HasInstalled(u, w, Q, p, O)
  PROVE  /\ Shifts(u, w)
         /\ O # {} => Consistent(u, Q)
         /\ Bound(w) => \A c \in DOMAIN w.breakpoints \ O : Mapping(w, c) =>
              \A q \in DOMAIN w.breakpoints[c].bindings :
                 q \in PhysicalKey => (IsInstalled(u, q) => IsInstalled(w, q))
<1>1. Shifts(u, w)
  BY DEF HasInstalled, Shifts, SameButBindings, SameSpecification, SameKnowledge
<1>2. O # {} => Consistent(u, Q)
  <2>1. O # {} => AskedAt(u, p)
    BY DEF HasInstalled, AskedAt
  <2>2. O # {} => Asked(u)
    BY <2>1 DEF HasInstalled, Asked
  <2> QED BY <2>2 DEF HasInstalled, Consistent
<1>3. ASSUME Bound(w), NEW c \in DOMAIN w.breakpoints \ O,
             NEW q \in DOMAIN w.breakpoints[c].bindings, q \in PhysicalKey, IsInstalled(u, q)
      PROVE  IsInstalled(w, q)
  <2>1. BoundAt(u, c, q) /\ q \in DOMAIN u.breakpoints[c].bindings
    BY <1>3 DEF HasInstalled, Bound
  <2>2. q # p
    BY <2>1 DEF HasInstalled, BoundAt
  <2> QED BY <1>3, <2>2 DEF HasInstalled, IsInstalled
<1> QED BY <1>1, <1>2, <1>3

\* Everything is known of b, which may have to be placed.
Known(w, b) == Mapping(w, b) /\ Judged(w, b, DOMAIN w.scripts) /\ Wanted(w, b)

\* Settling the breakpoints that are not placed places all.
LEMMA SettleAllQuiets ==
  ASSUME NEW w, IsState(w), NEW Q, Consistent(w, Q), NEW S \in SUBSET DOMAIN w.breakpoints,
         SourcesAsked(w), \A b \in DOMAIN w.breakpoints : Known(w, b),
         \A b \in DOMAIN w.breakpoints \ S : Placed(w, b)
  PROVE  Quiet(SettleAll(w, S))
<1> DEFINE D == DOMAIN w.breakpoints
           op(v, b) == ReconcilePhysicalBindings(v, b)
           U == States(w)
           W == [T \in SUBSET S |-> {v \in U : /\ Reconciles(v, w, Q, T) /\ SourcesAsked(v)
                                               /\ \A c \in D : Known(v, c)
                                               /\ \A c \in (D \ S) \cup T : Placed(v, c)}]
<1>a. S \in SUBSET Breakpoints /\ IsFiniteSet(S)
  BY StateTyped, ReducerAssumption, FS_Subset
<1>2. ASSUME NEW T \in SUBSET S, NEW b \in T, NEW v \in W[T \ {b}]
      PROVE  op(v, b) \in W[T]
  <2>1. /\ Reconciles(v, w, Q, T \ {b}) /\ SourcesAsked(v)
        /\ \A c \in D : Known(v, c)
        /\ \A c \in (D \ S) \cup (T \ {b}) : Placed(v, c)
    OBVIOUS
  <2>2. IsState(v) /\ Consistent(v, Q) /\ b \in DOMAIN v.breakpoints /\ b \in D
        /\ DOMAIN v.scripts = DOMAIN w.scripts /\ DOMAIN v.breakpoints = D
    BY <2>1 DEF Reconciles
  <2>3. Reconciles(op(v, b), v, Q, {b}) /\ Settled(op(v, b), v, Q, b)
    BY <2>2, AssessedReflexive, AssessedThenReconciled, ReconcilePhysicalBindingsSettles
  <2> HIDE DEF op, D
  <2>4. (T \ {b}) \cap {b} = {} /\ (T \ {b}) \cup {b} = T
    OBVIOUS
  <2>5. Reconciles(op(v, b), w, Q, T)
    BY <2>1, <2>3, <2>4, ReconcilesTransitive
  <2>6. op(v, b) \in U
    BY <2>5 DEF Reconciles, IsState
  <2>7. /\ Placed(op(v, b), b) /\ Knows(op(v, b), v, b) /\ SourcesAsked(op(v, b))
        /\ \A c \in D \ {b} : Leaves(op(v, b), v, c)
    BY <2>1, <2>2, <2>3, SettledPlaces
  <2>8. \A c \in D : Knows(op(v, b), v, c)
    BY <2>7 DEF Leaves
  <2>9. DOMAIN op(v, b).scripts = DOMAIN v.scripts
    BY <2>3 DEF Reconciles
  <2>10. ASSUME NEW c \in D PROVE Known(op(v, b), c)
    <3>1. Knows(op(v, b), v, c) /\ Known(v, c)
      BY <2>1, <2>8
    <3> QED BY <2>9, <3>1, KnowsKeeps DEF Known
  <2>11. \A c \in (D \ S) \cup T : Placed(op(v, b), c)
    <3>1. b \notin D \ S
      OBVIOUS
    <3>2. ASSUME NEW c \in (D \ S) \cup T, c # b PROVE Placed(op(v, b), c)
      <4>1. Placed(v, c) /\ c \in D
        BY <2>1, <3>2 DEF D
      <4>2. Leaves(op(v, b), v, c)
        BY <2>7, <3>2, <4>1
      <4> QED BY <4>1, <4>2, PlacedStays
    <3> QED BY <2>7, <3>2
  <2> QED BY <2>5, <2>6, <2>7, <2>10, <2>11
<1>3. w \in W[{}]
  <2>1. Reconciles(w, w, Q, {}) /\ w \in U
    BY ReconcilesReflexive DEF IsState
  <2> QED BY <2>1
<1>4. \A T \in SUBSET S : \A k \in T : \A v \in W[T \ {k}] : op(v, k) \in W[T]
  BY <1>2
<1> DEFINE v == SettleAll(w, S)
<1>5. v \in W[S]
  <2> HIDE DEF W
  <2> QED BY <1>3, <1>4, <1>a, SettleAllStays
<1>6. /\ Reconciles(v, w, Q, S) /\ SourcesAsked(v) /\ \A c \in D : Known(v, c)
      /\ \A c \in D : Placed(v, c)
  BY <1>5
<1> HIDE DEF v
<1>7. Quiet(v)
  BY <1>6 DEF Quiet, Reconciles, Reconciled, Known
<1> QED BY <1>7 DEF v

\* What an answer to an installation leaves is quiet (BreakpointInstalled).
LEMMA InstalledQuiet ==
  ASSUME NEW w, IsState(w), NEW e \in Effects, e.kind = "install", w.out = <<>>,
         NEW Q, e \notin Q, Consistent(w, Q \cup {e}), Quiet(w)
  PROVE  Quiet(BreakpointInstalled(w, e))
<1> DEFINE p == e.physical
           O == w.physical[p].owners
           y == [TakePending(w, e) EXCEPT !.physical[p].status = "installed"]
           u == SetBindings(y, O, p, "installed")
<1>1. /\ HasInstalled(u, w, Q, p, O)
      /\ e \in w.pending /\ p \in DOMAIN w.physical /\ w.physical[p].status = "installing"
      /\ p \in PhysicalKey /\ O \in SUBSET DOMAIN w.breakpoints
      /\ BreakpointInstalled(w, e) =
            IF O = {} THEN SchedulePhysicalRemoval(u, p) ELSE SettleAll(u, O)
  BY InstalledIs
<1> HIDE DEF y, u, O, p
<1>2. IsState(u) /\ DOMAIN u.breakpoints = DOMAIN w.breakpoints /\ u.scripts = w.scripts
      /\ DOMAIN u.physical = DOMAIN w.physical
  BY <1>1 DEF HasInstalled
<1>3. Shifts(u, w) /\ Bound(w)
  BY <1>1, InstalledShifts DEF Consistent
<1>4. CASE O = {}
  <2> DEFINE v == SchedulePhysicalRemoval(u, p)
  <2>1. /\ v.breakpoints = u.breakpoints /\ SameButBindings(v, u)
        /\ v.pending = u.pending \cup {RemoveEffect(p)}
        /\ DOMAIN v.physical = DOMAIN u.physical
        /\ v.physical[p].status = "removing"
        /\ \A q \in DOMAIN u.physical : q # p => v.physical[q] = u.physical[q]
    <3>1. Owed(u, Q) /\ NoEffectOn(u, Q, p)
      BY <1>1 DEF HasInstalled
    <3> QED BY <1>1, <1>2, <3>1, RemovalIs
  <2> HIDE DEF v
  <2>2. \A x : ~IsPhysicalEffect(x) => (x \in v.pending <=> x \in u.pending)
    BY <2>1 DEF RemoveEffect, IsPhysicalEffect
  <2>3. Shifts(v, w)
    BY <1>3, <2>1, <2>2 DEF Shifts, SameButBindings
  <2>4. \A q : IsInstalled(v, q) => IsInstalled(w, q)
    BY <1>1, <1>2, <2>1 DEF HasInstalled, IsInstalled
  <2>5. Quiet(v)
    BY <2>3, <2>4, ShiftsQuiet
  <2> QED BY <1>1, <1>4, <2>5 DEF v
<1>5. CASE O # {}
  <2>1. Consistent(u, Q)
    BY <1>1, <1>5, InstalledShifts
  <2>2. ASSUME NEW b \in DOMAIN w.breakpoints PROVE Known(u, b) /\ (b \notin O => Placed(u, b))
    <3>1. Reconciled(w, b) /\ Mapping(w, b)
      BY DEF Quiet, Reconciled
    <3>2. Knows(u, w, b)
      BY <1>3, <3>1, ShiftsLeaves
    <3>3. Known(u, b)
      BY <1>2, <3>1, <3>2, KnowsKeeps DEF Known, Reconciled
    <3>4. ASSUME b \notin O PROVE Placed(u, b)
      <4>1. DOMAIN w.breakpoints[b].bindings \subseteq PhysicalKey
        BY PhysicalTyped
      <4>2. \A q \in DOMAIN w.breakpoints[b].bindings : IsInstalled(u, q) => IsInstalled(w, q)
        BY <1>1, <1>3, <3>1, <3>4, <4>1, InstalledShifts
      <4>3. Leaves(u, w, b)
        BY <1>3, <3>1, <4>2, ShiftsLeaves
      <4> QED BY <3>1, <4>3, PlacedStays DEF Reconciled
    <3> QED BY <3>3, <3>4
  <2>3. SourcesAsked(u)
    BY <1>3, ShiftsLeaves DEF Quiet
  <2>4. Quiet(SettleAll(u, O))
    BY <1>1, <1>2, <2>1, <2>2, <2>3, SettleAllQuiets
  <2> QED BY <1>1, <1>5, <2>4
<1> QED BY <1>4, <1>5

\* What an answer to a removal leaves is quiet (BreakpointRemoved).
LEMMA RemovedQuiet ==
  ASSUME NEW w, IsState(w), NEW e \in Effects, e.kind = "remove", w.out = <<>>,
         NEW Q, e \notin Q, Consistent(w, Q \cup {e}), Quiet(w)
  PROVE  Quiet(BreakpointRemoved(w, e))
<1> DEFINE p == e.physical
           O == w.physical[p].owners
           t == TakePending(w, e)
<1>1. HasTaken(t, w, Q, e)
  BY PhysicalTaken DEF IsPhysicalEffect
<1>2. /\ e \in w.pending /\ p \in DOMAIN w.physical /\ w.physical[p].status = "removing"
      /\ p \in PhysicalKey /\ O \in SUBSET DOMAIN w.breakpoints
  BY <1>1, PhysicalTyped DEF HasTaken
<1>3. BreakpointRemoved(w, e) =
        IF O = {} THEN [t EXCEPT !.physical = Without(t.physical, {p})]
        ELSE SchedulePhysicalInstall(t, p)
  BY <1>2 DEF BreakpointRemoved
<1>4. \A x : ~IsPhysicalEffect(x) => (x \in t.pending <=> x \in w.pending)
  BY DEF TakePending, IsState, States, StatesOver, IsPhysicalEffect
<1> HIDE DEF t
<1>5. IsState(t) /\ t.breakpoints = w.breakpoints /\ t.scripts = w.scripts
      /\ t.physical = w.physical
  BY <1>1 DEF HasTaken
<1>6. CASE O = {}
  <2> DEFINE v == [t EXCEPT !.physical = Without(t.physical, {p})]
  <2>1. HasDropped(v, t, {p})
    BY <1>5, KeyDropped
  <2> HIDE DEF v
  <2>2. Shifts(v, w)
    BY <1>4, <1>5, <2>1 DEF HasDropped, Shifts, SameKnowledge
  <2>3. \A q : IsInstalled(v, q) => IsInstalled(w, q)
    BY <1>5, <2>1 DEF HasDropped, IsInstalled
  <2>4. Quiet(v)
    BY <2>2, <2>3, ShiftsQuiet
  <2> QED BY <1>3, <1>6, <2>4 DEF v
<1>7. CASE O # {}
  <2> DEFINE y == [t EXCEPT !.physical[p].status = "installing"]
             u == SetBindings(y, O, p, "pendingInstall")
             i == InstallEffect(p)
             v == Emit(u, i)
  <2>1. SchedulePhysicalInstall(t, p) = v
    BY <1>5 DEF SchedulePhysicalInstall
  <2>2. HasKey(y, t, p, [owners |-> O, status |-> "installing"])
    <3>1. IsState(t) /\ p \in DOMAIN t.physical /\ t.physical[p].owners = O
          /\ O \in SUBSET DOMAIN t.breakpoints
      BY <1>2, <1>5
    <3> HIDE DEF O
    <3> QED BY <3>1, OneKey
  <2> HIDE DEF y
  <2>3. HasBindings(u, y, O, p, "pendingInstall")
    BY <1>2, <2>2, BindingsSet DEF HasKey, BindingStates
  <2> HIDE DEF u
  <2>4. i \in Effects /\ IsPhysicalEffect(i)
    BY <1>2, EffectKinds DEF InstallEffect, IsPhysicalEffect
  <2>5. HasEmitted(v, u, i)
    BY <2>3, <2>4, EmitIs DEF HasBindings
  <2> HIDE DEF v, i, O
  <2>6. /\ DOMAIN u.breakpoints = DOMAIN w.breakpoints /\ u.pending = t.pending
        /\ SameButBindings(u, t)
    BY <1>5, <2>2, <2>3, SameButBindingsTransitive DEF HasKey, HasBindings
  <2>7. ASSUME NEW c \in DOMAIN w.breakpoints
        PROVE  DOMAIN u.breakpoints[c].bindings = DOMAIN w.breakpoints[c].bindings
    <3>1. BoundAt(w, c, p)
      BY <1>2 DEF Consistent, Bound
    <3>2. /\ c \notin O => u.breakpoints[c] = w.breakpoints[c]
          /\ c \in O => DOMAIN u.breakpoints[c].bindings = DOMAIN w.breakpoints[c].bindings \cup {p}
      BY <1>5, <2>2, <2>3 DEF HasKey, HasBindings
    <3> QED BY <1>2, <3>1, <3>2 DEF BoundAt, O
  <2>8. Shifts(v, w)
    BY <1>4, <1>5, <2>4, <2>5, <2>6, <2>7
    DEF HasEmitted, Shifts, SameButBindings, SameSpecification, SameKnowledge
  <2>9. \A q : IsInstalled(v, q) => IsInstalled(w, q)
    BY <1>5, <2>2, <2>3, <2>5 DEF HasKey, HasBindings, HasEmitted, IsInstalled
  <2>10. Quiet(v)
    BY <2>8, <2>9, ShiftsQuiet
  <2> QED BY <1>3, <1>7, <2>1, <2>10 DEF O
<1> QED BY <1>6, <1>7

-----------------------------------------------------------------------------
(***************************************************************************)
(* Breakpoints set and removed.                                            *)
(***************************************************************************)

\* A breakpoint is left alone when another one gives up what it maps and owns.
LEMMA ReleasedLeaves ==
  ASSUME NEW w, NEW v, NEW y, v.scripts = w.scripts, GivesUp(v, w, y), Grows(v, w),
         NEW b, \A e \in y : e.kind = "map" /\ e.breakpoint = b
  PROVE  /\ SourcesAsked(w) => SourcesAsked(v)
         /\ \A c : c # b /\ v.breakpoints[c] = w.breakpoints[c] /\ Mapping(w, c) => Leaves(v, w, c)
<1>1. SameSources(v, w)
  BY DEF GivesUp, SameSources, IsPhysicalEffect
<1>2. ASSUME NEW c, c # b, v.breakpoints[c] = w.breakpoints[c], Mapping(w, c)
      PROVE  Leaves(v, w, c)
  <2>1. \A e \in w.breakpoints[c].mappings : ~IsPhysicalEffect(e) /\ e \notin y
    BY <1>2, MappingsAre DEF IsPhysicalEffect
  <2>2. Knows(v, w, c)
    BY <1>2, <2>1 DEF GivesUp, Knows, SameKnowledge, Advances
  <2> QED BY <1>2, <2>2 DEF Leaves, Grows, IsInstalled
<1> QED BY <1>1, <1>2, SourcesStay

\* Breakpoint b has gone, the others stay as they are.
LEMMA ReleaseLeaves ==
  ASSUME NEW w, IsState(w), NEW Q, Consistent(w, Q), Quiet(w), NEW b
  PROVE  LET r == ReleaseBreakpoint(w, b)
         IN /\ IsState(r) /\ r.scripts = w.scripts /\ r.breakpoints = w.breakpoints
            /\ SourcesAsked(r) /\ \A c \in DOMAIN w.breakpoints \ {b} : Reconciled(r, c)
<1> DEFINE r == ReleaseBreakpoint(w, b)
           y == IF b \in DOMAIN w.breakpoints THEN w.breakpoints[b].mappings ELSE {}
<1>1. /\ IsState(r) /\ r.scripts = w.scripts /\ r.breakpoints = w.breakpoints
      /\ GivesUp(r, w, y) /\ Grows(r, w)
  <2>1. /\ IsState(r) /\ r.breakpoints = w.breakpoints /\ r.scripts = w.scripts
        /\ DOMAIN r.physical = DOMAIN w.physical
        /\ \A q \in DOMAIN w.physical :
             \/ r.physical[q].status = w.physical[q].status
             \/ w.physical[q].status = "installed" /\ r.physical[q].status = "removing"
        /\ GivesUp(r, w, y)
    BY ReleaseBreakpointDisowns
  <2> HIDE DEF r, y
  <2> QED BY <2>1 DEF Grows
<1>2. \A e \in y : e.kind = "map" /\ e.breakpoint = b
  BY MappingsAre DEF Quiet, Reconciled
<1> HIDE DEF r, y
<1>3. SourcesAsked(r)
  BY <1>1, <1>2, ReleasedLeaves DEF Quiet
<1>4. ASSUME NEW c \in DOMAIN w.breakpoints \ {b} PROVE Reconciled(r, c)
  <2>1. Reconciled(w, c) /\ Mapping(w, c)
    BY DEF Quiet, Reconciled
  <2>2. Leaves(r, w, c)
    BY <1>1, <1>2, <2>1, ReleasedLeaves
  <2> QED BY <2>1, <2>2, LeavesReconciled
<1> QED BY <1>1, <1>3, <1>4 DEF r

\* v is w with other breakpoints only: one that is the same stays reconciled.
LEMMA OthersReconciled ==
  ASSUME NEW w, NEW v, v.scripts = w.scripts, v.pending = w.pending, v.physical = w.physical
  PROVE  /\ SourcesAsked(w) => SourcesAsked(v)
         /\ \A c : v.breakpoints[c] = w.breakpoints[c] /\ Reconciled(w, c) => Reconciled(v, c)
<1>1. SourcesAsked(w) => SourcesAsked(v)
  BY DEF SourcesAsked
<1>2. ASSUME NEW c, v.breakpoints[c] = w.breakpoints[c], Reconciled(w, c)
      PROVE  Reconciled(v, c)
  <2>1. Leaves(v, w, c)
    BY <1>2 DEF Leaves, Knows, SameKnowledge, Advances, IsInstalled
  <2> QED BY <1>2, <2>1, LeavesReconciled
<1> QED BY <1>1, <1>2

\* Removing a breakpoint keeps the others reconciled (RemoveBreakpoint).
LEMMA RemoveQuiet ==
  ASSUME NEW w, IsState(w), NEW Q, Consistent(w, Q), Quiet(w), NEW b
  PROVE  Quiet(RemoveBreakpoint(w, b))
<1> DEFINE r == ReleaseBreakpoint(w, b)
           x == Without(r.breakpoints, {b})
           v == RemoveBreakpoint(w, b)
<1>1. /\ IsState(r) /\ r.scripts = w.scripts /\ r.breakpoints = w.breakpoints
      /\ SourcesAsked(r) /\ \A c \in DOMAIN w.breakpoints \ {b} : Reconciled(r, c)
  BY ReleaseLeaves
<1>2. v = [r EXCEPT !.breakpoints = x]
  BY DEF RemoveBreakpoint
<1> HIDE DEF r
<1>3. DOMAIN x = DOMAIN w.breakpoints \ {b} /\ \A c \in DOMAIN x : x[c] = r.breakpoints[c]
  BY <1>1 DEF Without
<1> HIDE DEF x
<1>4. /\ v.breakpoints = x /\ v.scripts = r.scripts /\ v.pending = r.pending
      /\ v.physical = r.physical
  BY <1>1, <1>2 DEF IsState, States, StatesOver
<1> HIDE DEF v
<1>5. Quiet(v)
  <2>1. SourcesAsked(v)
    BY <1>1, <1>4, OthersReconciled
  <2>2. ASSUME NEW c \in DOMAIN v.breakpoints PROVE Reconciled(v, c)
    <3>1. v.breakpoints[c] = r.breakpoints[c] /\ Reconciled(r, c)
      BY <1>1, <1>3, <1>4
    <3> QED BY <1>4, <3>1, OthersReconciled
  <2> QED BY <2>1, <2>2 DEF Quiet
<1> QED BY <1>5 DEF v

\* A breakpoint that was set anew maps nothing yet (SetBreakpoint before its
\* reconciliation).
LEMMA ReplacedMaps ==
  ASSUME NEW w, IsState(w), NEW Q, Consistent(w, Q), Quiet(w), NEW b, NEW source, NEW condition
  PROVE  LET v == Replaced(w, b, source, condition)
         IN /\ DOMAIN v.breakpoints = DOMAIN w.breakpoints \cup {b}
            /\ SourcesAsked(v) /\ Mapping(v, b)
            /\ \A c \in DOMAIN w.breakpoints \ {b} : Reconciled(v, c)
<1> DEFINE g == IF b \in DOMAIN w.breakpoints THEN w.breakpoints[b].generation + 1 ELSE 1
           r == ReleaseBreakpoint(w, b)
           new == NewBreakpoint(g, source, condition)
           x == With(r.breakpoints, b, new)
           v == Replaced(w, b, source, condition)
<1>1. /\ IsState(r) /\ r.scripts = w.scripts /\ r.breakpoints = w.breakpoints
      /\ SourcesAsked(r) /\ \A c \in DOMAIN w.breakpoints \ {b} : Reconciled(r, c)
  BY ReleaseLeaves
<1>2. v = [r EXCEPT !.breakpoints = x]
  BY DEF Replaced
<1>3. new.mappings = {} /\ DOMAIN new.assessments = {}
  BY DEF NewBreakpoint
<1> HIDE DEF r, new
<1>4. /\ DOMAIN x = DOMAIN w.breakpoints \cup {b} /\ x[b] = new
      /\ \A c \in DOMAIN w.breakpoints \ {b} : x[c] = r.breakpoints[c]
  BY <1>1 DEF With
<1> HIDE DEF x
<1>5. /\ v.breakpoints = x /\ v.scripts = r.scripts /\ v.pending = r.pending
      /\ v.physical = r.physical
  BY <1>1, <1>2 DEF IsState, States, StatesOver
<1> HIDE DEF v
<1>6. SourcesAsked(v)
  BY <1>1, <1>5, OthersReconciled
<1>7. \A c \in DOMAIN w.breakpoints \ {b} : Reconciled(v, c)
  BY <1>1, <1>4, <1>5, OthersReconciled
<1>8. Mapping(v, b)
  BY <1>3, <1>4, <1>5 DEF Mapping
<1> QED BY <1>4, <1>5, <1>6, <1>7, <1>8 DEF v

\* Setting a breakpoint reconciles it, and all when a source is fetched again
\* (SetBreakpoint).
LEMMA SetQuiet ==
  ASSUME NEW w, IsState(w), NEW Q, Consistent(w, Q), NEW b \in Breakpoints,
         NEW source \in Urls, NEW condition \in Conditions, Quiet(w)
  PROVE  Quiet(SetBreakpoint(w, b, source, condition))
<1> DEFINE v == Replaced(w, b, source, condition)
           failed == {s \in DOMAIN w.scripts :
                        w.scripts[s].source = "failed" /\ MayExpose(s, source)}
           u == HydrateAll(v, failed, TRUE)
<1>1. /\ Prepares(v, w, Q) /\ b \in DOMAIN v.breakpoints /\ v.scripts = w.scripts
  BY ReplacedPrepares
<1>2. IsState(v) /\ Consistent(v, Q)
  BY <1>1 DEF Prepares
<1>3. SetBreakpoint(w, b, source, condition) =
        IF failed = {} THEN ReconcileBreakpoint(v, b) ELSE ReconcileAll(u)
  BY <1>2 DEF SetBreakpoint, Replaced, HydrateAll, InOrder, OneByOne
<1>4. /\ DOMAIN v.breakpoints = DOMAIN w.breakpoints \cup {b}
      /\ SourcesAsked(v) /\ Mapping(v, b)
      /\ \A c \in DOMAIN w.breakpoints \ {b} : Reconciled(v, c)
  BY ReplacedMaps
<1> HIDE DEF v
<1>5. Quiet(ReconcileBreakpoint(v, b))
  <2> DEFINE z == ReconcileBreakpoint(v, b)
  <2>1. Reconciles(z, v, Q, {b}) /\ Quiets(z, v, b)
    BY <1>1, <1>2, <1>4, ReconcileBreakpointReconciles, ReconcileBreakpointQuiets
  <2> HIDE DEF z
  <2>2. ASSUME NEW c \in DOMAIN v.breakpoints \ {b} PROVE Reconciled(z, c)
    <3>1. Reconciled(v, c) /\ Mapping(v, c)
      BY <1>4 DEF Reconciled
    <3>2. Leaves(z, v, c)
      BY <2>1, <3>1 DEF Quiets
    <3> QED BY <3>1, <3>2, LeavesReconciled
  <2>3. Quiet(z)
    BY <1>4, <2>1, <2>2 DEF Quiets, Quiet, Reconciles
  <2> QED BY <2>3 DEF z
<1>6. Quiet(ReconcileAll(u))
  <2>1. failed \in SUBSET DOMAIN v.scripts
    BY <1>1
  <2> HIDE DEF failed
  <2>2. HydratesTo(u, v, failed)
    BY <1>2, <2>1, HydrateAllHydrates
  <2>3. IsState(u) /\ Consistent(u, Q) /\ DOMAIN u.breakpoints = DOMAIN v.breakpoints
    BY <1>2, <2>2, AssessedIsState, AssessedConsistent DEF HydratesTo
  <2>4. SourcesAsked(u)
    BY <1>4, <2>2 DEF HydratesTo
  <2>5. ASSUME NEW c \in DOMAIN u.breakpoints PROVE Mapping(u, c)
    <3>1. Mapping(v, c)
      BY <1>4, <2>3 DEF Reconciled
    <3>2. Leaves(u, v, c)
      BY <1>2, <2>2, <2>3, HydratedLeaves
    <3> QED BY <3>1, <3>2, KnowsKeeps DEF Leaves
  <2> HIDE DEF u
  <2> QED BY <2>3, <2>4, <2>5, ReconcileAllQuiets
<1> QED BY <1>3, <1>5, <1>6

-----------------------------------------------------------------------------
(***************************************************************************)
(* A script is parsed: breakpoints forget its older version.               *)
(***************************************************************************)

\* What is forgotten of script s leaves the mappings of the others scheduled.
LEMMA ForgottenMaps ==
  ASSUME NEW w, IsState(w), NEW v, NEW s, NEW Q, ReleasedVersion(v, w, Q, s)
  PROVE  /\ SourcesAsked(w) => SourcesAsked(v)
         /\ \A b \in DOMAIN w.breakpoints : Mapping(w, b) =>
              /\ Mapping(v, b)
              /\ s \notin DOMAIN v.breakpoints[b].assessments
              /\ \A e \in v.breakpoints[b].mappings : e.script # s
<1>1. /\ v.scripts = w.scripts
      /\ \A b \in DOMAIN w.breakpoints :
           v.breakpoints[b] = Forgets(w.breakpoints[b], s, KeysOf(w, s))
      /\ \A e : e.kind # "frame" /\ ~IsPhysicalEffect(e) => (e \in v.pending <=> e \in w.pending)
  BY DEF ReleasedVersion, Forgotten
<1>2. SameSources(v, w)
  BY <1>1 DEF SameSources, IsPhysicalEffect
<1>3. SourcesAsked(w) => SourcesAsked(v)
  BY <1>1, <1>2, SourcesStay
<1>4. ASSUME NEW b \in DOMAIN w.breakpoints, Mapping(w, b)
      PROVE  /\ Mapping(v, b)
             /\ s \notin DOMAIN v.breakpoints[b].assessments
             /\ \A e \in v.breakpoints[b].mappings : e.script # s
  <2> DEFINE x == w.breakpoints[b]
             y == v.breakpoints[b]
  <2>1. x \in BreakpointOver(DOMAIN w.scripts)
    BY StateTyped
  <2>2. /\ y.generation = x.generation /\ y.mappings = {e \in x.mappings : e.script # s}
        /\ y.assessments = Without(x.assessments, {s})
    BY <1>1, <2>1 DEF Forgets, BreakpointOver
  <2>3. /\ DOMAIN y.assessments = DOMAIN x.assessments \ {s}
        /\ \A t \in DOMAIN x.assessments \ {s} : y.assessments[t] = x.assessments[t]
    BY <2>2 DEF Without
  <2>4. ASSUME NEW e \in y.mappings PROVE Scheduled(v, b, e)
    <3>1. Scheduled(w, b, e) /\ e.script # s /\ e.kind = "map"
      BY <1>4, <2>2, MappingsAre DEF Mapping
    <3> QED BY <1>1, <2>2, <2>3, <3>1 DEF Scheduled, IsPhysicalEffect
  <2>5. ASSUME NEW t \in DOMAIN y.assessments PROVE Timely(v, b, t)
    <3>1. Timely(w, b, t) /\ t # s
      BY <1>4, <2>3 DEF Mapping
    <3> DEFINE m == MapEffect(b, x.generation, t, x.assessments[t].version,
                              x.assessments[t].candidate)
    <3>2. m.script # s
      BY <3>1 DEF MapEffect
    <3>3. y.assessments[t] = x.assessments[t] /\ v.scripts[t] = w.scripts[t]
      BY <1>1, <2>3, <2>5
    <3>4. m \in x.mappings => m \in y.mappings
      BY <2>2, <3>2
    <3> HIDE DEF m, x, y
    <3>5. x.assessments[t].status = "mapping" => m \in y.mappings
      BY <3>1, <3>4 DEF Timely, m, x
    <3> QED BY <1>1, <2>2, <3>1, <3>3, <3>5 DEF Timely, m, x, y
  <2> QED BY <2>2, <2>3, <2>4, <2>5 DEF Mapping
<1> QED BY <1>3, <1>4

\* v is w but for script s, of which version n was parsed.
HasParsed(v, w, s, n) ==
  /\ v.breakpoints = w.breakpoints /\ v.physical = w.physical /\ v.pending = w.pending
  /\ DOMAIN v.scripts = DOMAIN w.scripts \cup {s}
  /\ v.scripts[s] = [version |-> n, source |-> "unresolved", captured |-> NoContent, view |-> {}]
  /\ \A t \in DOMAIN w.scripts \ {s} : v.scripts[t] = w.scripts[t]

\* The new version follows the release of the old one.
LEMMA NewVersionIs ==
  ASSUME NEW w, IsState(w), NEW Q, Consistent(w, Q), NEW s, NEW n
  PROVE  LET r == ReleaseScriptVersion(w, s)
         IN ReleasedVersion(r, w, Q, s) /\ HasParsed(NewVersion(w, s, n), r, s, n)
<1> DEFINE r == ReleaseScriptVersion(w, s)
           new == [version |-> n, source |-> "unresolved", captured |-> NoContent, view |-> {}]
           x == With(r.scripts, s, new)
           v == NewVersion(w, s, n)
<1>1. ReleasedVersion(r, w, Q, s)
  BY ReleaseScriptVersionReleases
<1>2. v = [r EXCEPT !.scripts = x]
  BY DEF NewVersion
<1> HIDE DEF r, new
<1>3. /\ DOMAIN x = DOMAIN r.scripts \cup {s} /\ x[s] = new
      /\ \A t \in DOMAIN r.scripts \ {s} : x[t] = r.scripts[t]
  BY DEF With
<1> HIDE DEF x
<1>4. /\ v.scripts = x /\ v.breakpoints = r.breakpoints /\ v.physical = r.physical
      /\ v.pending = r.pending
  BY <1>1, <1>2 DEF ReleasedVersion, IsState, States, StatesOver
<1> HIDE DEF v
<1>5. HasParsed(v, r, s, n)
  BY <1>3, <1>4 DEF HasParsed, new
<1> QED BY <1>1, <1>5 DEF r, v

\* After it nothing is left of the old version.
LEMMA NewVersionMaps ==
  ASSUME NEW w, IsState(w), NEW Q, Consistent(w, Q), Quiet(w), NEW s \in Scripts, NEW n \in Nat,
         s \in DOMAIN w.scripts => w.scripts[s].version < n
  PROVE  LET v == NewVersion(w, s, n)
         IN SourcesAsked(v) /\ \A b \in DOMAIN w.breakpoints : Mapping(v, b)
<1> DEFINE r == ReleaseScriptVersion(w, s)
           v == NewVersion(w, s, n)
<1>1. ReleasedVersion(r, w, Q, s) /\ HasParsed(v, r, s, n)
  BY NewVersionIs
<1> HIDE DEF r, v
<1>2. /\ SourcesAsked(r)
      /\ \A b \in DOMAIN w.breakpoints :
           /\ Mapping(r, b) /\ s \notin DOMAIN r.breakpoints[b].assessments
           /\ \A e \in r.breakpoints[b].mappings : e.script # s
  BY <1>1, ForgottenMaps DEF Quiet, Reconciled
<1>3. IsState(r) /\ r.scripts = w.scripts
  BY <1>1 DEF ReleasedVersion
<1>4. SourcesAsked(v)
  <2>1. ASSUME NEW e \in v.pending, e.kind \in {"fetch", "build"}
        PROVE  /\ e.script \in DOMAIN v.scripts /\ e.version <= v.scripts[e.script].version
               /\ e.version = v.scripts[e.script].version =>
                    v.scripts[e.script].source = IF e.kind = "fetch" THEN "pending" ELSE "loaded"
    <3>1. e \in r.pending /\ e \in Effects
      BY <1>1, <1>3, StateTyped DEF HasParsed
    <3>2. e.version \in Nat
      BY <2>1, <3>1 DEF Effects, MapEffects, SourceEffects, PhysicalEffects, FrameEffects, SessionEffects
    <3>3. /\ e.script \in DOMAIN r.scripts /\ e.version <= r.scripts[e.script].version
          /\ e.version = r.scripts[e.script].version =>
               r.scripts[e.script].source = IF e.kind = "fetch" THEN "pending" ELSE "loaded"
      BY <1>2, <2>1, <3>1 DEF SourcesAsked
    <3>4. CASE e.script = s
      <4>1. e.version < n
        <5>1. r.scripts[s].version \in Nat /\ r.scripts[s].version < n
          BY <1>3, <3>3, <3>4, StateTyped
        <5> QED BY <3>2, <3>3, <3>4, <5>1
      <4>2. v.scripts[s].version = n /\ s \in DOMAIN v.scripts
        BY <1>1 DEF HasParsed
      <4> QED BY <3>2, <3>4, <4>1, <4>2
    <3>5. CASE e.script # s
      BY <1>1, <3>3, <3>5 DEF HasParsed
    <3> QED BY <3>4, <3>5
  <2>2. ASSUME NEW t \in DOMAIN v.scripts
        PROVE  /\ v.scripts[t].source = "pending" => FetchEffect(t, v.scripts[t].version) \in v.pending
               /\ v.scripts[t].source = "loaded" => BuildEffect(t, v.scripts[t].version) \in v.pending
               /\ v.scripts[t].captured \in {NoContent, ScriptText[t]}
    <3>1. CASE t = s
      BY <1>1, <3>1 DEF HasParsed
    <3>2. CASE t # s
      BY <1>1, <1>2, <3>2 DEF HasParsed, SourcesAsked
    <3> QED BY <3>1, <3>2
  <2> QED BY <2>1, <2>2 DEF SourcesAsked
<1>5. ASSUME NEW b \in DOMAIN w.breakpoints PROVE Mapping(v, b)
  <2>1. /\ v.breakpoints[b] = r.breakpoints[b] /\ v.pending = r.pending
        /\ Mapping(r, b) /\ s \notin DOMAIN r.breakpoints[b].assessments
        /\ \A e \in r.breakpoints[b].mappings : e.script # s
        /\ \A t \in DOMAIN r.breakpoints[b].assessments : t # s
    BY <1>1, <1>2 DEF HasParsed
  <2>2. ASSUME NEW t \in DOMAIN r.breakpoints[b].assessments
        PROVE  t \in DOMAIN r.scripts /\ t \in DOMAIN v.scripts /\ v.scripts[t] = r.scripts[t]
    <3>1. Timely(r, b, t)
      BY <2>1 DEF Mapping
    <3> QED BY <1>1, <2>1, <3>1 DEF Timely, HasParsed
  <2>3. ASSUME NEW e \in v.breakpoints[b].mappings PROVE Scheduled(v, b, e)
    BY <2>1, <2>2 DEF Mapping, Scheduled
  <2>4. ASSUME NEW t \in DOMAIN v.breakpoints[b].assessments PROVE Timely(v, b, t)
    BY <2>1, <2>2 DEF Mapping, Timely
  <2> QED BY <2>3, <2>4 DEF Mapping
<1> QED BY <1>4, <1>5 DEF v

\* The release of a script that was never parsed changes nothing.
LEMMA NothingReleased ==
  ASSUME NEW w, IsState(w), NEW Q, NEW s, s \notin DOMAIN w.scripts, NEW r,
         ReleasedVersion(r, w, Q, s), NEW b \in DOMAIN w.breakpoints, Mapping(w, b)
  PROVE  Leaves(r, w, b)
<1> DEFINE x == w.breakpoints[b]
           y == r.breakpoints[b]
<1>1. x \in BreakpointOver(DOMAIN w.scripts)
  BY StateTyped
<1>2. KeysOf(w, s) = {}
  <2>1. \A p \in DOMAIN w.physical : p.script \in DOMAIN w.scripts
    BY PhysicalTyped DEF KeysOver
  <2> QED BY <2>1 DEF KeysOf
<1>3. y = Forgets(x, s, {})
  BY <1>2 DEF ReleasedVersion, Forgotten
<1>4. x.assessments \in Maps(DOMAIN w.scripts, AssessmentState)
      /\ x.bindings \in Maps(PhysicalKey, BindingStates)
  BY <1>1, BreakpointFields
<1>5. /\ y.generation = x.generation /\ y.source = x.source /\ y.condition = x.condition
      /\ y.index = x.index /\ y.friendly = x.friendly
      /\ y.mappings = {e \in x.mappings : e.script # s}
      /\ y.assessments = Without(x.assessments, {s})
      /\ y.bindings = Without(x.bindings, {})
  BY <1>1, <1>3 DEF Forgets, BreakpointOver
<1>6. y.assessments = x.assessments
  <2>1. DOMAIN x.assessments \subseteq DOMAIN w.scripts
        /\ x.assessments = [t \in DOMAIN x.assessments |-> x.assessments[t]]
    BY <1>4, MapsHave
  <2>2. DOMAIN x.assessments \ {s} = DOMAIN x.assessments
    BY <2>1
  <2> QED BY <1>5, <2>1, <2>2 DEF Without
<1>7. y.mappings = x.mappings
  <2>1. ASSUME NEW e \in x.mappings PROVE e.script # s
    <3>1. e.script \in DOMAIN x.assessments
      BY DEF Mapping, Scheduled
    <3> QED BY <1>4, <3>1, MapsHave
  <2> QED BY <1>5, <2>1
<1>8. DOMAIN y.bindings = DOMAIN x.bindings
  BY <1>5 DEF Without
<1>9. \A e \in x.mappings : e \in w.pending => e \in r.pending
  <2>1. \A e \in x.mappings : e.kind = "map"
    BY MappingsAre
  <2> QED BY <2>1 DEF ReleasedVersion, Forgotten, IsPhysicalEffect
<1>10. r.scripts = w.scripts /\ Grows(r, w)
  BY DEF ReleasedVersion
<1>11. Knows(r, w, b)
  BY <1>5, <1>6, <1>7, <1>9, <1>10 DEF Knows, Advances, SameKnowledge
<1>12. \A p \in DOMAIN x.bindings : IsInstalled(r, p) => IsInstalled(w, p)
  BY <1>10 DEF Grows, IsInstalled
<1> QED BY <1>8, <1>11, <1>12 DEF Leaves

\* A script parsed for the first time is not yet assessed by any breakpoint.
LEMMA NewVersionUnassessed ==
  ASSUME NEW w, IsState(w), NEW Q, Consistent(w, Q), Quiet(w), NEW s \in Scripts, NEW n \in Nat,
         s \notin DOMAIN w.scripts, NEW b \in DOMAIN w.breakpoints
  PROVE  Unassessed(NewVersion(w, s, n), b, s)
<1> DEFINE r == ReleaseScriptVersion(w, s)
           v == NewVersion(w, s, n)
           x == r.breakpoints[b]
<1>1. ReleasedVersion(r, w, Q, s) /\ HasParsed(v, r, s, n)
  BY NewVersionIs
<1>2. Mapping(v, b)
  BY NewVersionMaps
<1>3. r.scripts = w.scripts /\ IsState(r) /\ b \in DOMAIN r.breakpoints
  BY <1>1 DEF ReleasedVersion
<1> HIDE DEF r, v
<1>4. Reconciled(r, b)
  BY <1>1, NothingReleased, LeavesReconciled DEF Quiet, Reconciled
<1>5. /\ v.breakpoints[b] = x /\ v.physical = r.physical /\ v.pending = r.pending
      /\ DOMAIN v.scripts = DOMAIN r.scripts \cup {s} /\ s \notin DOMAIN r.scripts
      /\ v.scripts[s] = [version |-> n, source |-> "unresolved", captured |-> NoContent, view |-> {}]
      /\ \A t \in DOMAIN r.scripts : v.scripts[t] = r.scripts[t]
  BY <1>1, <1>3 DEF HasParsed
<1>6. x \in BreakpointOver(DOMAIN r.scripts)
  BY <1>3, StateTyped
<1>7. x.index \in IndexOver(DOMAIN r.scripts) /\ DOMAIN x.assessments \subseteq DOMAIN r.scripts
  BY <1>6, BreakpointFields, MapsHave
<1>8. /\ s \notin DOMAIN x.assessments /\ s \notin x.index.unresolved
      /\ OfScript(x.index.exact, s) = {} /\ OfScript(x.index.friendly, s) = {}
  BY <1>5, <1>7 DEF IndexOver, OfScript
<1>9. DOMAIN v.scripts \ {s} = DOMAIN r.scripts
  BY <1>5
<1>10. Judged(v, b, DOMAIN v.scripts \ {s})
  <2>1. Judged(r, b, DOMAIN r.scripts)
    BY <1>4 DEF Reconciled
  <2>2. ASSUME NEW t \in DOMAIN r.scripts
        PROVE  Indexed(v, b, t) /\ MatchedBy(v, b, t, Selection(x.index))
    <3>1. Indexed(r, b, t) /\ MatchedBy(r, b, t, Selection(x.index))
      BY <2>1 DEF Judged
    <3>2. v.scripts[t] = r.scripts[t]
      BY <1>5
    <3>3. Indexed(v, b, t)
      BY <1>5, <3>1, <3>2 DEF Indexed, Own
    <3>4. \A c : IsReusable(v, b, t, c) <=> IsReusable(r, b, t, c)
      BY <1>5, <3>2 DEF IsReusable
    <3>5. MatchedBy(v, b, t, Selection(x.index))
      BY <1>5, <3>1, <3>2, <3>4 DEF MatchedBy
    <3> QED BY <3>3, <3>5
  <2> QED BY <1>5, <1>9, <2>1, <2>2 DEF Judged
<1>11. \A t \in DOMAIN v.scripts \ {s} : v.scripts[t].source = "unresolved" => ~MayExpose(t, x.source)
  BY <1>4, <1>5, <1>9 DEF Reconciled, Wanted
<1>12. Desired(v, b) = Desired(r, b)
  <2>1. \A t \in DOMAIN x.assessments : t \in DOMAIN v.scripts /\ t \in DOMAIN r.scripts
             /\ v.scripts[t] = r.scripts[t]
    BY <1>5, <1>7
  <2> QED BY <1>5, <2>1 DEF Desired
<1>13. Placed(v, b)
  <2>1. \A p : IsInstalled(v, p) <=> IsInstalled(r, p)
    BY <1>5 DEF IsInstalled
  <2>2. Decided(v, b) <=> Decided(r, b)
    BY <1>5 DEF Decided
  <2> QED BY <1>4, <1>5, <1>12, <2>1, <2>2 DEF Placed, Reconciled
<1>14. IsUnbuilt(v.scripts[s]) /\ v.scripts[s].captured = NoContent
  BY <1>5 DEF IsUnbuilt
<1> QED BY <1>2, <1>5, <1>8, <1>10, <1>11, <1>13, <1>14 DEF Unassessed, v

\* A script that is parsed leaves every breakpoint reconciled (ScriptParsed).
LEMMA ScriptParsedQuiet ==
  ASSUME NEW w, IsState(w), NEW Q, Consistent(w, Q), Quiet(w), NEW s \in Scripts
  PROVE  Quiet(ScriptParsed(w, s))
<1> DEFINE again == s \in DOMAIN w.scripts
           n == IF again THEN w.scripts[s].version + 1 ELSE 1
           p == NewVersion(w, s, n)
           v == AssessAll(p, s, again, DOMAIN w.breakpoints)
           u == ScheduleSourceHydration(v, s, FALSE)
<1>1. n \in Nat /\ (again => w.scripts[s].version < n /\ n # w.scripts[s].version)
  BY StateTyped
<1>2. ScriptParsed(w, s) \in {u, v}
  BY DEF ScriptParsed, AssessAll, InOrder, OneByOne, ParsedOne, NewVersion
<1> HIDE DEF n
<1>3. /\ Prepares(p, w, Q) /\ s \in DOMAIN p.scripts /\ DOMAIN p.breakpoints = DOMAIN w.breakpoints
  BY <1>1, NewVersionPrepares
<1>4. SourcesAsked(p) /\ \A b \in DOMAIN w.breakpoints : Mapping(p, b)
  BY <1>1, NewVersionMaps
<1>5. ASSUME ~again, NEW b \in DOMAIN w.breakpoints PROVE Unassessed(p, b, s)
  BY <1>1, <1>5, NewVersionUnassessed
<1> HIDE DEF p
<1>6. IsState(p) /\ Consistent(p, Q)
  BY <1>3 DEF Prepares
<1>7. \A b \in DOMAIN p.breakpoints : Mapping(p, b) /\ (again \/ Unassessed(p, b, s))
  BY <1>3, <1>4, <1>5
<1> HIDE DEF again
<1>8. Quiet(v) /\ Reconciles(v, p, Q, DOMAIN p.breakpoints)
  BY <1>3, <1>4, <1>6, <1>7, AssessAllQuiets
<1> HIDE DEF v
<1>9. Quiet(u)
  BY <1>8, HydrationQuiet DEF Reconciles
<1> QED BY <1>2, <1>8, <1>9

-----------------------------------------------------------------------------
(***************************************************************************)
(* The steps of the driver keep the reducer quiet.                         *)
(***************************************************************************)

\* The effects an input leaves for the queue are no part of what is reconciled.
LEMMA EmptiedQuiet ==
  ASSUME NEW u, NEW v, IsState(v), v = [u EXCEPT !.out = <<>>], Quiet(u)
  PROVE  Quiet(v)
<1>1. {"scripts", "breakpoints", "physical", "pending"} \subseteq DOMAIN u
  <2>1. DOMAIN v = DOMAIN u
    OBVIOUS
  <2>2. {"scripts", "breakpoints", "physical", "pending"} \subseteq DOMAIN v
    <3>1. v \in States(v)
      BY DEF IsState
    <3> QED BY <3>1 DEF States, StatesOver
  <2> QED BY <2>1, <2>2
<1>2. /\ v.scripts = u.scripts /\ v.breakpoints = u.breakpoints /\ v.physical = u.physical
      /\ v.pending = u.pending
  BY <1>1
<1>3. Untouched(v, u)
  BY <1>2 DEF Untouched
<1> QED BY <1>3, UntouchedQuiet

\* Breakpoints that are set, put back or removed are reconciled.
LEMMA BatchQuiet ==
  ASSUME IInv, IInv', Quiet(state),
         ApplyNext \/ RollBackNext \/ \E b \in Breakpoints : RemoveBreakpointCommand(b)
  PROVE  Quiet(state')
<1>1. IsState(state') /\ IsState(state) /\ Consistent(state, InQueue(queue))
  BY StateReady DEF IInv, Sound
<1>2. ASSUME NEW spec \in bound.specs
      PROVE  Quiet(SetBreakpoint(state, spec.breakpoint, spec.source, spec.condition))
  <2>1. spec.breakpoint \in Breakpoints /\ spec.source \in Urls /\ spec.condition \in Conditions
    BY BoundTyped DEF IInv
  <2> QED BY <1>1, <2>1, SetQuiet
<1>3. \A b : Quiet(RemoveBreakpoint(state, b))
  BY <1>1, RemoveQuiet
<1>4. command \in CommandsOver(bound.specs)
  BY DEF IInv, TaskTyped
<1>5. CASE ApplyNext
  <2> DEFINE spec == Head(command.todo)
             u == SetBreakpoint(state, spec.breakpoint, spec.source, spec.condition)
  <2>1. spec \in bound.specs
    BY <1>4, <1>5 DEF ApplyNext, BatchOver, CommandsOver
  <2>2. Quiet(u)
    BY <1>2, <2>1
  <2>3. state' = [u EXCEPT !.out = <<>>]
    BY <1>5 DEF ApplyNext, Reduce
  <2> HIDE DEF u
  <2> QED BY <1>1, <2>2, <2>3, EmptiedQuiet
<1>6. CASE RollBackNext
  <2> DEFINE prior == Last(command.applied)
             removed == RemoveBreakpoint(state, prior.breakpoint)
             restored == SetBreakpoint(state, prior.breakpoint, prior.source, prior.condition)
  <2>1. prior \in Priors(bound.specs)
    <3>1. command.applied \in Seq(Priors(bound.specs)) /\ command.applied # <<>>
      BY <1>4, <1>6 DEF CommandsOver, RollBackNext
    <3> QED BY <3>1 DEF Last
  <2>2. Quiet(removed) /\ (prior.source # "none" => Quiet(restored))
    <3>1. prior.source # "none" => prior \in bound.specs
      BY <2>1 DEF Priors, NoSpec
    <3> HIDE DEF prior
    <3> QED BY <1>2, <1>3, <3>1
  <2>3. \/ state' = [removed EXCEPT !.out = <<>>]
        \/ prior.source # "none" /\ state' = [restored EXCEPT !.out = <<>>]
    <3>1. state' = [(IF prior.source = "none" THEN removed ELSE restored) EXCEPT !.out = <<>>]
      BY <1>6 DEF RollBackNext, Reduce
    <3> HIDE DEF prior, removed, restored
    <3> QED BY <3>1
  <2> HIDE DEF prior, removed, restored
  <2> QED BY <1>1, <2>2, <2>3, EmptiedQuiet
<1>7. ASSUME NEW b \in Breakpoints, RemoveBreakpointCommand(b) PROVE Quiet(state')
  <2>1. state' = [RemoveBreakpoint(state, b) EXCEPT !.out = <<>>]
    BY <1>7 DEF RemoveBreakpointCommand, Reduce
  <2> QED BY <1>1, <1>3, <2>1, EmptiedQuiet
<1> QED BY <1>5, <1>6, <1>7

\* The other commands leave what is reconciled as it is.
LEMMA CommandQuiet ==
  ASSUME IInv, IInv', Quiet(state),
         \/ \E s \in Scripts : RequestScriptSourceCommand(s)
         \/ ResumeCommand \/ ReleaseIfWaitingCommand
  PROVE  Quiet(state')
<1>1. IsState(state') /\ IsState(state)
  BY StateReady DEF IInv, Sound
<1> DEFINE asked(s) == RequestScriptSource(state, s)
           resumed == ResumeRequested(state, state.epoch)
           released == ReleaseIfWaiting(state)
<1>2. (\A s : Quiet(asked(s))) /\ Quiet(resumed) /\ Quiet(released)
  BY <1>1, HydrationQuiet, ExecutionUntouched, UntouchedQuiet DEF RequestScriptSource
<1>3. \/ \E s \in Scripts : state' = [asked(s) EXCEPT !.out = <<>>]
      \/ state' = [resumed EXCEPT !.out = <<>>]
      \/ state' = [released EXCEPT !.out = <<>>]
  BY DEF RequestScriptSourceCommand, ResumeCommand, ReleaseIfWaitingCommand, Reduce
<1> HIDE DEF asked, resumed, released
<1> QED BY <1>1, <1>2, <1>3, EmptiedQuiet

\* The browser's events leave every breakpoint reconciled.
LEMMA EventQuiet ==
  ASSUME IInv, IInv', Quiet(state), ProcessNextEvent
  PROVE  Quiet(state')
<1> DEFINE e == Head(browser.events)
<1>1. IsState(state') /\ IsState(state) /\ Consistent(state, InQueue(queue))
  BY StateReady DEF IInv, Sound
<1>2. Recorded(state, browser) /\ browser.events # <<>>
  BY DEF IInv, ProcessNextEvent
<1>3. state' = [InputOf(e) EXCEPT !.out = <<>>]
  BY DEF ProcessNextEvent, Reduce
<1>4. e \in EventTypes
  BY <1>2, EventExpected
<1>5. Quiet(InputOf(e))
  <2>1. CASE e.kind = "parsed"
    <3>1. e.script \in Scripts /\ InputOf(e) = ScriptParsed(state, e.script)
      BY <1>4, <2>1 DEF EventTypes, InputOf
    <3> QED BY <1>1, <3>1, ScriptParsedQuiet
  <2>2. CASE e.kind = "paused"
    <3>1. e.stack \in Seq(Scripts) /\ InputOf(e) = Paused(state, e.stack) /\ ~IsStopped(state)
      BY <1>2, <1>4, <2>2, EventExpected DEF EventTypes, InputOf
    <3> QED BY <1>1, <3>1, PausedQuiet
  <2>3. CASE e.kind = "resumed"
    <3>1. InputOf(e) = Resumed(state, state.epoch)
      BY <2>3 DEF InputOf
    <3> QED BY <1>1, <3>1, ExecutionUntouched, UntouchedQuiet
  <2>4. e.kind \in {"parsed", "paused", "resumed"}
    BY <1>4 DEF EventTypes
  <2> QED BY <2>1, <2>2, <2>3, <2>4
<1> QED BY <1>1, <1>3, <1>5, EmptiedQuiet

\* What completes leaves every breakpoint reconciled.
LEMMA CompletionQuiet ==
  ASSUME IInv', NEW u, Quiet(u), Complete(u)
  PROVE  Quiet(state')
<1>1. IsState(state') /\ state' = [u EXCEPT !.out = <<>>]
  BY DEF IInv, Sound, Complete
<1> QED BY <1>1, EmptiedQuiet

\* The completions of what is asked for a source.
LEMMA SourceQuiet ==
  ASSUME IInv, IInv', Quiet(state), InDrain,
         FetchScriptSource(Head(queue)) \/ BuildSourceView(Head(queue))
  PROVE  Quiet(state')
<1> DEFINE e == Head(queue)
           s == e.script
           content == ScriptText[s]
<1>1. e \in Effects /\ IsState(state) /\ Consistent(state, InQueue(Tail(queue)))
  BY DrainReady
<1>2. e.kind \in {"fetch", "build"} => Quiet(SourceFailed(state, e))
  <2> HIDE DEF e
  <2> QED BY <1>1, FailedQuiet
<1>3. e.kind = "fetch" => Quiet(ScriptSourceFetched(state, e, content))
  <2> SUFFICES ASSUME e.kind = "fetch" PROVE Quiet(ScriptSourceFetched(state, e, content))
    OBVIOUS
  <2>1. content \in Contents
    BY <1>1, DriverAssumption
       DEF Effects, MapEffects, SourceEffects, PhysicalEffects, FrameEffects, SessionEffects
  <2> HIDE DEF e
  <2> QED BY <1>1, <2>1, FetchedQuiet
<1>4. ASSUME e.kind = "build", NEW view \in ViewsOf(s)
      PROVE  Quiet(SourceViewBuilt(state, e, view))
  <2>1. CASE e \in state.pending /\ IsCurrentScript(state, e)
    <3>1. s \in DOMAIN state.scripts /\ s \in Scripts /\ state.scripts[s] \in ScriptState
      BY <1>1, <2>1, StateTyped DEF IsCurrentScript
    <3>2. [url |-> ScriptUrl[s], content |-> state.scripts[s].captured] \in AnyCandidate
      BY <3>1, ReducerAssumption DEF ScriptState, AnyCandidate
    <3>3. Views \subseteq SUBSET AnyCandidate
      BY DriverAssumption DEF Candidate, AnyCandidate
    <3>4. view \in SUBSET AnyCandidate
      <4>1. \/ view \in Views
            \/ view = {[url |-> ScriptUrl[s], content |-> state.scripts[s].captured]}
        BY <1>4 DEF ViewsOf
      <4> QED BY <3>2, <3>3, <4>1
    <3> QED BY <1>1, <1>4, <3>4, ViewBuiltQuiet
  <2>2. CASE ~(e \in state.pending /\ IsCurrentScript(state, e))
    <3>1. /\ SourceViewBuilt(state, e, view) = TakePending(state, e)
          /\ SourceViewBuilt(state, e, {}) = TakePending(state, e)
      BY <2>2 DEF SourceViewBuilt
    <3>2. Quiet(SourceViewBuilt(state, e, {}))
      <4>1. {} \in SUBSET AnyCandidate
        OBVIOUS
      <4> HIDE DEF e
      <4> QED BY <1>1, <1>4, <4>1, ViewBuiltQuiet
    <3> QED BY <3>1, <3>2
  <2> QED BY <2>1, <2>2
<1>5. \/ e.kind = "fetch" /\ Complete(ScriptSourceFetched(state, e, content))
      \/ e.kind \in {"fetch", "build"} /\ Complete(SourceFailed(state, e))
      \/ e.kind = "build" /\ \E view \in ViewsOf(s) : Complete(SourceViewBuilt(state, e, view))
  BY DEF FetchScriptSource, BuildSourceView, Succeeds
<1> HIDE DEF e
<1> QED BY <1>2, <1>3, <1>4, <1>5, CompletionQuiet

\* The completions of every other effect.
LEMMA OtherQuiet ==
  ASSUME IInv, IInv', Quiet(state), InDrain,
         \/ MapBreakpoint(Head(queue)) \/ MapFrame(Head(queue)) \/ InstallBreakpoint(Head(queue))
         \/ RemovePhysical(Head(queue)) \/ ResumeTarget(Head(queue))
         \/ RunIfWaitingForDebugger(Head(queue))
  PROVE  Quiet(state')
<1> DEFINE e == Head(queue)
           Q == InQueue(Tail(queue))
<1>1. /\ e \in Effects /\ IsState(state) /\ Consistent(state, Q) /\ state.out = <<>>
      /\ Consistent(state, Q \cup {e}) /\ (IsPhysicalEffect(e) => e \notin Q)
  BY DrainReady
<1>2. \/ e.kind = "map" /\ \E positions \in MappingResults : Complete(BreakpointMapped(state, e, positions))
      \/ e.kind = "frame" /\ (Complete(FrameMapped(state, e)) \/ Complete(FrameFailed(state, e)))
      \/ e.kind = "install" /\ Complete(BreakpointInstalled(state, e))
      \/ e.kind = "remove" /\ Complete(BreakpointRemoved(state, e))
      \/ e.kind \in {"resume", "release"} /\ Complete(CommandAccepted(state, e))
  BY DEF MapBreakpoint, MapFrame, InstallBreakpoint, RemovePhysical, ResumeTarget,
         RunIfWaitingForDebugger, Succeeds
<1> HIDE DEF e, Q
<1>3. ASSUME e.kind = "map", NEW positions \in MappingResults
      PROVE  Quiet(BreakpointMapped(state, e, positions))
  <2>1. positions \in SUBSET Positions /\ IsFiniteSet(positions)
    BY DriverAssumption
  <2> QED BY <1>1, <1>3, <2>1, MappedQuiet
<1>4. e.kind = "frame" => Quiet(FrameMapped(state, e)) /\ Quiet(FrameFailed(state, e))
  BY <1>1, FrameMappedUntouched, UntouchedQuiet
<1>5. e.kind = "install" => Quiet(BreakpointInstalled(state, e))
  BY <1>1, InstalledQuiet DEF IsPhysicalEffect
<1>6. e.kind = "remove" => Quiet(BreakpointRemoved(state, e))
  BY <1>1, RemovedQuiet DEF IsPhysicalEffect
<1>7. e.kind \in {"resume", "release"} => Quiet(CommandAccepted(state, e))
  BY <1>1, ExecutionUntouched, UntouchedQuiet
<1> QED BY <1>2, <1>3, <1>4, <1>5, <1>6, <1>7, CompletionQuiet

\* Every step leaves every breakpoint reconciled.
LEMMA NextQuiet ==
  ASSUME IInv, IInv', Quiet(state), [Next]_vars
  PROVE  Quiet(state')
<1>1. CASE state' = state
  BY <1>1
<1>2. CASE ApplyNext \/ RollBackNext \/ \E b \in Breakpoints : RemoveBreakpointCommand(b)
  BY <1>2, BatchQuiet
<1>3. CASE \/ \E s \in Scripts : RequestScriptSourceCommand(s)
           \/ ResumeCommand \/ ReleaseIfWaitingCommand
  BY <1>3, CommandQuiet
<1>4. CASE ProcessNextEvent
  BY <1>4, EventQuiet
<1>5. CASE ExecuteEffect
  <2>1. InDrain
    BY <1>5 DEF ExecuteEffect
  <2> QED BY <1>5, <2>1, SourceQuiet, OtherQuiet DEF ExecuteEffect
<1> QED
  BY <1>1, <1>2, <1>3, <1>4, <1>5
     DEF Next, BrowserNext, CommandNext, DrainNext, vars, BrowserAnnounces, BrowserPauses,
         BrowserResumes, SetBreakpoints, CommandEnds, Settles, EffectFails, DrainIsDropped, DrainEnds

\* Nothing is known of anything at first.
LEMMA InitQuiet ==
  ASSUME Init
  PROVE  Quiet(state)
<1>1. PICK waiting \in BOOLEAN : state = ConfiguredState(waiting)
  BY DEF Init
<1>2. state.scripts = <<>> /\ state.breakpoints = <<>> /\ state.pending = {}
  BY <1>1 DEF ConfiguredState
<1>3. DOMAIN <<>> = {}
  OBVIOUS
<1> QED BY <1>2, <1>3 DEF Quiet, SourcesAsked

\* Between any two steps every breakpoint is reconciled with what is known of the scripts.
THEOREM QuietInvariance == Spec => []Quiet(state)
<1>1. Init => Quiet(state)
  BY InitQuiet
<1>2. IInv /\ IInv' /\ Quiet(state) /\ [Next]_vars => Quiet(state)'
  BY NextQuiet
<1> QED BY <1>1, <1>2, Invariance, PTL DEF Spec

-----------------------------------------------------------------------------
(***************************************************************************)
(* At rest: with nothing pending, what is kept at every step decides every *)
(* assessment and leaves a reconciliation nothing to do.                   *)
(***************************************************************************)

\* With nothing pending no script is on its way, no mapping is waited for, and the index
\* of a breakpoint is that of all scripts.
LEMMA RestedIndex ==
  ASSUME NEW w, IsState(w), Quiet(w), w.pending = {}, NEW b \in DOMAIN w.breakpoints
  PROVE  /\ \A s \in DOMAIN w.scripts : ~IsInFlight(w.scripts[s])
         /\ w.breakpoints[b].mappings = {}
         /\ w.breakpoints[b].index = CandidateIndex(w, w.breakpoints[b].source)
         /\ w.breakpoints[b].index.unresolved = {}
<1> DEFINE bp == w.breakpoints[b]
           i == bp.index
           j == CandidateIndex(w, bp.source)
           D == DOMAIN w.scripts
<1>1. \A s \in D : ~IsInFlight(w.scripts[s])
  BY DEF Quiet, SourcesAsked, IsInFlight
<1>2. Mapping(w, b) /\ Judged(w, b, D) /\ Wanted(w, b)
  BY DEF Quiet, Reconciled
<1>3. bp.mappings = {}
  BY <1>2 DEF Mapping, Scheduled
<1>4. i \in IndexOver(D) /\ j \in IndexOver(D)
  BY StateTyped, BreakpointFields, CandidateIndexTyped
<1>5. ASSUME NEW s \in D
      PROVE  /\ OfScript(i.exact, s) = OfScript(j.exact, s)
             /\ OfScript(i.friendly, s) = OfScript(j.friendly, s)
             /\ s \in i.unresolved <=> s \in j.unresolved
             /\ s \notin j.unresolved
  <2> DEFINE own == Own(w, b, s)
  <2>1. /\ OfScript(j.exact, s) = own.exact /\ OfScript(j.friendly, s) = own.friendly
        /\ s \in j.unresolved <=> s \in own.unresolved
    BY CandidateIndexIs DEF Own
  <2>2. /\ OfScript(i.friendly, s) = own.friendly /\ OfScript(i.exact, s) \subseteq own.exact
        /\ s \in i.unresolved <=> s \in own.unresolved
        /\ own.exact \subseteq i.exact
    BY <1>1, <1>2 DEF Judged, Indexed
  <2>3. s \notin own.unresolved
    BY <1>1, <1>2 DEF Own, IndexScript, Wanted, IsUnbuilt, IsInFlight
  <2> HIDE DEF own, i, j
  <2>4. own.exact \subseteq OfScript(i.exact, s)
    BY <2>1, <2>2 DEF OfScript
  <2> QED BY <2>1, <2>2, <2>3, <2>4
<1> HIDE DEF i, j
<1>6. i.exact = j.exact
  <2>1. \A y \in i.exact \cup j.exact : y[1] \in D
    BY <1>4 DEF IndexOver
  <2>2. \A y : y \in i.exact <=> y \in j.exact
    BY <1>5, <2>1 DEF OfScript
  <2> QED BY <2>2
<1>7. i.friendly = j.friendly
  <2>1. \A y \in i.friendly \cup j.friendly : y[1] \in D
    BY <1>4 DEF IndexOver
  <2>2. \A y : y \in i.friendly <=> y \in j.friendly
    BY <1>5, <2>1 DEF OfScript
  <2> QED BY <2>2
<1>8. i.unresolved = {} /\ j.unresolved = {}
  BY <1>4, <1>5 DEF IndexOver
<1>9. i = j
  BY <1>4, <1>6, <1>7, <1>8 DEF IndexOver
<1> QED BY <1>1, <1>3, <1>8, <1>9 DEF i, j

\* What a breakpoint says of script s when nothing is pending: it has decided, or s could
\* not be built and matches by its own url.
RestsJudged(w, b, s) ==
  LET bp == w.breakpoints[b]
      x == Selection(bp.index)
  IN \/ /\ ~Chosen(x, s) /\ s \in DOMAIN bp.assessments
        /\ bp.assessments[s].status \notin {"waiting", "mapping"}
        /\ bp.assessments[s] =
             Assessment(w.scripts[s].version,
               IF s \in x.scripts THEN x.kind
               ELSE StatusWithoutCandidate(s, w.scripts[s], bp.source))
     \/ /\ Chosen(x, s) /\ IsReusable(w, b, s, CHOOSE c \in x.candidates : TRUE)
        /\ bp.assessments[s].status \notin {"waiting", "mapping"}
     \/ /\ Chosen(x, s) /\ w.scripts[s].source = "failed"
        /\ w.scripts[s].captured # NoContent /\ ScriptUrl[s] = bp.source

\* At rest every script is assessed by the selection of all of them.
LEMMA RestedJudged ==
  ASSUME NEW w, IsState(w), Quiet(w), w.pending = {}, NEW b \in DOMAIN w.breakpoints,
         NEW s \in DOMAIN w.scripts
  PROVE  RestsJudged(w, b, s)
<1> DEFINE bp == w.breakpoints[b]
           i == bp.index
           x == Selection(i)
           own == Own(w, b, s)
           script == w.scripts[s]
<1>1. /\ ~IsInFlight(script) /\ bp.mappings = {} /\ i.unresolved = {}
      /\ i = CandidateIndex(w, bp.source)
  BY RestedIndex
<1>2. Judged(w, b, DOMAIN w.scripts) /\ Wanted(w, b)
  BY DEF Quiet, Reconciled
<1>3. MatchedBy(w, b, s, x)
  BY <1>2 DEF Judged
<1>4. Selects(x, i)
  BY SelectionIs
<1>5. OfScript(i.exact, s) = own.exact /\ OfScript(i.friendly, s) = own.friendly
  BY <1>1, CandidateIndexIs DEF Own
<1>6. script.source \in {"unresolved", "resolved", "failed"}
  <2>1. script \in ScriptState
    BY StateTyped
  <2> QED BY <1>1, <2>1 DEF ScriptState, IsInFlight
<1>7. CASE ~Chosen(x, s)
  <2> DEFINE k == IF s \in x.scripts THEN x.kind ELSE StatusWithoutCandidate(s, script, bp.source)
  <2>1. s \in DOMAIN bp.assessments /\ bp.assessments[s] = Assessment(script.version, k)
    BY <1>1, <1>3, <1>7 DEF MatchedBy
  <2>2. x.kind \notin {"waiting", "mapping"}
    BY <1>1, <1>4 DEF Selects
  <2>3. StatusWithoutCandidate(s, script, bp.source) \notin {"waiting", "mapping"}
    BY <1>1, <1>2, <1>6 DEF StatusWithoutCandidate, IsUnbuilt, Wanted
  <2>4. k \notin {"waiting", "mapping"}
    BY <2>2, <2>3
  <2> HIDE DEF k
  <2>5. bp.assessments[s].status \notin {"waiting", "mapping"}
    BY <2>1, <2>4 DEF Assessment
  <2> QED BY <1>7, <2>1, <2>5 DEF RestsJudged, k
<1>8. CASE Chosen(x, s) /\ script.source = "resolved"
  <2>1. IsReusable(w, b, s, CHOOSE c \in x.candidates : TRUE)
    BY <1>1, <1>3, <1>8 DEF MatchedBy
  <2>2. bp.assessments[s].status \notin {"waiting", "mapping"}
    BY <1>1, <2>1 DEF IsReusable
  <2> QED BY <1>8, <2>1, <2>2 DEF RestsJudged
<1>9. CASE Chosen(x, s) /\ script.source # "resolved"
  <2>1. PICK y \in i.exact \cup i.friendly : y[1] = s
    <3>1. x.scripts = {y[1] : y \in IF i.exact = {} THEN i.friendly ELSE i.exact}
      BY <1>4, <1>9 DEF Selects, Chosen
    <3> QED BY <1>9, <3>1 DEF Chosen
  <2>2. own.friendly = {}
    BY <1>9 DEF Own, IndexScript
  <2>3. y \in own.exact
    BY <1>5, <2>1, <2>2 DEF OfScript
  <2>4. script.captured # NoContent /\ ScriptUrl[s] = bp.source
    BY <1>9, <2>3 DEF Own, IndexScript
  <2>5. script.source = "failed"
    BY <1>2, <1>6, <1>9, <2>4 DEF Wanted, MayExpose
  <2> QED BY <1>9, <2>4, <2>5 DEF RestsJudged
<1> QED BY <1>7, <1>8, <1>9

\* With nothing pending every binding is installed, and once all is decided a breakpoint
\* is bound exactly where it belongs.
LEMMA RestedBindings ==
  ASSUME NEW w, IsState(w), Quiet(w), NEW Q, Consistent(w, Q), w.pending = {},
         NEW b \in DOMAIN w.breakpoints
  PROVE  /\ Desired(w, b) \subseteq DOMAIN w.breakpoints[b].bindings
         /\ \A p \in Desired(w, b) : IsInstalled(w, p)
         /\ Decided(w, b) => DOMAIN w.breakpoints[b].bindings = Desired(w, b)
<1> DEFINE bindings == w.breakpoints[b].bindings
<1>1. Placed(w, b) /\ w.breakpoints[b].index.unresolved = {}
  BY RestedIndex DEF Quiet, Reconciled
<1>2. ASSUME NEW p \in DOMAIN bindings PROVE IsInstalled(w, p)
  <2>1. p \in PhysicalKey
    <3>1. bindings \in Maps(PhysicalKey, BindingStates)
      BY StateTyped, BreakpointFields
    <3> QED BY <3>1, MapsHave
  <2>2. p \in DOMAIN w.physical
    BY <2>1 DEF Consistent, Bound, BoundAt
  <2>3. w.physical[p].status \in {"installing", "installed", "removing"}
    BY <2>2, PhysicalTyped
  <2>4. AskedAt(w, p)
    BY <2>2 DEF Consistent, Asked
  <2> QED BY <2>2, <2>3, <2>4 DEF AskedAt, IsInstalled
<1> QED BY <1>1, <1>2 DEF Placed

\* QuietIsDecided: process_source_view, apply_selection and reconcile_physical_bindings
\* leave nothing undecided but what failed to be built.
THEOREM RestDecides == Spec => []QuietIsDecided
<1>1. IInv /\ Quiet(state) => QuietIsDecided
  <2> SUFFICES ASSUME IInv, Quiet(state), AtRest, NEW b \in DOMAIN state.breakpoints
               PROVE  LET bp == state.breakpoints[b]
                          undecided == {s \in DOMAIN bp.assessments : IsUndecided(b, s)}
                          unassessed == DOMAIN state.scripts \ DOMAIN bp.assessments
                      IN /\ DOMAIN bp.assessments \subseteq DOMAIN state.scripts
                         /\ \A s \in undecided \cup unassessed :
                                /\ state.scripts[s].source = "failed"
                                /\ state.scripts[s].captured # NoContent
                                /\ ScriptUrl[s] = bp.source
                         /\ Desired(state, b) \subseteq DOMAIN bp.bindings
                         /\ undecided = {} => DOMAIN bp.bindings = Desired(state, b)
    BY DEF QuietIsDecided
  <2> DEFINE bp == state.breakpoints[b]
             undecided == {s \in DOMAIN bp.assessments : IsUndecided(b, s)}
             unassessed == DOMAIN state.scripts \ DOMAIN bp.assessments
  <2>1. IsState(state) /\ Consistent(state, InQueue(queue)) /\ state.pending = {}
    BY StateReady DEF AtRest
  <2>2. DOMAIN bp.assessments \subseteq DOMAIN state.scripts
    <3>1. bp.assessments \in Maps(DOMAIN state.scripts, AssessmentState)
      BY <2>1, StateTyped, BreakpointFields
    <3> QED BY <3>1, MapsHave
  <2>3. ASSUME NEW s \in undecided \cup unassessed
        PROVE  /\ state.scripts[s].source = "failed" /\ state.scripts[s].captured # NoContent
               /\ ScriptUrl[s] = bp.source
    <3>1. s \in DOMAIN state.scripts
      BY <2>2
    <3>2. RestsJudged(state, b, s)
      BY <2>1, <3>1, RestedJudged
    <3>3. ~(s \in DOMAIN bp.assessments /\ bp.assessments[s].status \notin {"waiting", "mapping"})
      BY DEF IsUndecided
    <3> QED BY <3>2, <3>3 DEF RestsJudged, IsReusable
  <2>4. undecided = {} => Decided(state, b)
    BY DEF Decided, IsUndecided
  <2>5. /\ Desired(state, b) \subseteq DOMAIN bp.bindings
        /\ undecided = {} => DOMAIN bp.bindings = Desired(state, b)
    BY <2>1, <2>4, RestedBindings
  <2> QED BY <2>2, <2>3, <2>5
<1> QED BY <1>1, Invariance, QuietInvariance, PTL

\* Writing what a breakpoint already has changes nothing.
LEMMA SameBreakpointWritten ==
  ASSUME NEW w, IsState(w), NEW b \in DOMAIN w.breakpoints
  PROVE  [w EXCEPT !.breakpoints = [w.breakpoints EXCEPT ![b] = w.breakpoints[b]]] = w
<1>1. w \in States(w) /\ w.breakpoints \in [DOMAIN w.breakpoints -> BreakpointOver(DOMAIN w.scripts)]
  BY StateFields DEF IsState, States
<1> DEFINE f == [w.breakpoints EXCEPT ![b] = w.breakpoints[b]]
<1>2. f = w.breakpoints
  BY <1>1
<1> HIDE DEF f
<1>3. [w EXCEPT !.breakpoints = w.breakpoints] = w
  BY <1>1 DEF States, StatesOver
<1> QED BY <1>2, <1>3 DEF f

\* The index of a rested breakpoint is written as it is.
LEMMA RestedIndexWritten ==
  ASSUME NEW w, IsState(w), NEW b \in DOMAIN w.breakpoints,
         w.breakpoints[b].friendly = Selection(w.breakpoints[b].index).friendly
  PROVE  WithIndex(w, b, w.breakpoints[b].index) = w
<1> DEFINE x == w.breakpoints[b]
           i == x.index
           g == Selection(i).friendly
           y == [[x EXCEPT !.index = i] EXCEPT !.friendly = g]
<1>1. x \in BreakpointOver(DOMAIN w.scripts)
  BY StateTyped
<1>2. y = x
  <2>1. g = x.friendly
    OBVIOUS
  <2> HIDE DEF g
  <2> QED BY <1>1, <2>1 DEF BreakpointOver
<1>3. WithIndex(w, b, i) = [w EXCEPT !.breakpoints = [w.breakpoints EXCEPT ![b] = y]]
  <2>1. w \in States(w) /\ w.breakpoints \in [DOMAIN w.breakpoints -> BreakpointOver(DOMAIN w.scripts)]
    BY StateFields DEF IsState, States
  <2> HIDE DEF g, i
  <2> QED BY <2>1 DEF WithIndex, States, StatesOver, g
<1> HIDE DEF y
<1> QED BY <1>2, <1>3, SameBreakpointWritten

\* An assessment of a rested breakpoint is written as it is.
LEMMA SameAssessmentWritten ==
  ASSUME NEW w, IsState(w), NEW b \in DOMAIN w.breakpoints,
         NEW s \in DOMAIN w.breakpoints[b].assessments
  PROVE  SetAssessment(w, b, s, w.breakpoints[b].assessments[s]) = w
<1> DEFINE x == w.breakpoints[b]
           f == x.assessments
           g == With(f, s, f[s])
           y == [x EXCEPT !.assessments = g]
<1>1. x \in BreakpointOver(DOMAIN w.scripts) /\ f = [t \in DOMAIN f |-> f[t]]
  BY StateTyped, BreakpointFields, MapsHave
<1>2. g = f
  <2>1. DOMAIN f \cup {s} = DOMAIN f
    OBVIOUS
  <2> HIDE DEF f
  <2> QED BY <1>1, <2>1 DEF With
<1>3. y = x
  <2> HIDE DEF g
  <2> QED BY <1>1, <1>2 DEF BreakpointOver
<1>4. SetAssessment(w, b, s, f[s]) = [w EXCEPT !.breakpoints = [w.breakpoints EXCEPT ![b] = y]]
  <2>1. w \in States(w) /\ w.breakpoints \in [DOMAIN w.breakpoints -> BreakpointOver(DOMAIN w.scripts)]
    BY StateFields DEF IsState, States
  <2> QED BY <2>1 DEF SetAssessment, States, StatesOver
<1> HIDE DEF y
<1> QED BY <1>3, <1>4, SameBreakpointWritten

\* With no mapping asked for there is none to cancel.
LEMMA NothingCancelled ==
  ASSUME NEW w, IsState(w), NEW b \in DOMAIN w.breakpoints, w.breakpoints[b].mappings = {}, NEW s
  PROVE  CancelBreakpointMapping(w, b, s) = w
<1> DEFINE x == w.breakpoints[b]
           y == [x EXCEPT !.mappings = {}]
<1>1. x \in BreakpointOver(DOMAIN w.scripts)
  BY StateTyped
<1>2. y = x
  BY <1>1 DEF BreakpointOver
<1>3. CancelBreakpointMapping(w, b, s) =
        [[w EXCEPT !.pending = w.pending] EXCEPT !.breakpoints = [w.breakpoints EXCEPT ![b] = y]]
  <2>1. w \in States(w) /\ w.breakpoints \in [DOMAIN w.breakpoints -> BreakpointOver(DOMAIN w.scripts)]
    BY StateFields DEF IsState, States
  <2>2. {e \in x.mappings : e.script = s} = {} /\ w.pending \ {} = w.pending
        /\ x.mappings \ {} = {}
    OBVIOUS
  <2> QED BY <2>1, <2>2 DEF CancelBreakpointMapping, States, StatesOver
<1>4. [w EXCEPT !.pending = w.pending] = w
  <2>1. w \in States(w)
    BY DEF IsState
  <2> QED BY <2>1 DEF States, StatesOver
<1> HIDE DEF y
<1> QED BY <1>2, <1>3, <1>4, SameBreakpointWritten

\* Applying the selection of a rested breakpoint again changes nothing.
LEMMA RestedApplied ==
  ASSUME NEW w, IsState(w), Quiet(w), w.pending = {}, NEW b \in DOMAIN w.breakpoints,
         NEW s \in DOMAIN w.scripts
  PROVE  ApplySelection(w, b, s, Selection(w.breakpoints[b].index)) = w
<1> DEFINE bp == w.breakpoints[b]
           x == Selection(bp.index)
           c == CHOOSE c \in x.candidates : TRUE
           k == IF s \in x.scripts THEN x.kind ELSE StatusWithoutCandidate(s, w.scripts[s], bp.source)
<1>1. RestsJudged(w, b, s) /\ bp.mappings = {}
  BY RestedJudged, RestedIndex
<1>2. Selects(x, bp.index)
  BY SelectionIs
<1>3. x.kind = "none" => x.scripts = {}
  BY <1>2 DEF Selects
<1>4. CancelBreakpointMapping(w, b, s) = w
  BY <1>1, NothingCancelled
<1> HIDE DEF x, c
<1>5. CASE /\ ~Chosen(x, s) /\ s \in DOMAIN bp.assessments
           /\ bp.assessments[s] = Assessment(w.scripts[s].version, k)
  <2>1. ApplySelection(w, b, s, x) = ReplaceAssessment(w, b, s, k)
    BY <1>3, <1>5 DEF ApplySelection, Chosen
  <2>2. ReplaceAssessment(w, b, s, k) = SetAssessment(w, b, s, bp.assessments[s])
    BY <1>4, <1>5 DEF ReplaceAssessment
  <2> QED BY <1>5, <2>1, <2>2, SameAssessmentWritten DEF x
<1>6. CASE Chosen(x, s) /\ (IsReusable(w, b, s, c) \/ w.scripts[s].source = "failed")
  <2>1. ApplySelection(w, b, s, x) = EnsureMapping(w, b, s, c)
    BY <1>6 DEF ApplySelection, Chosen, c
  <2>2. w.scripts[s].source = "failed" => ScheduleMapping(w, b, s, c) = w
    BY DEF ScheduleMapping
  <2>3. EnsureMapping(w, b, s, c) = w
    BY <1>4, <1>6, <2>2 DEF EnsureMapping
  <2> QED BY <2>1, <2>3 DEF x
<1> QED BY <1>1, <1>5, <1>6 DEF RestsJudged, x, c

\* A loop over no keys visits none.
LEMMA NothingBound ==
  ASSUME NEW w, NEW b
  PROVE  BindAll(w, b, {}) = w /\ ReleaseAll(w, b, {}) = w
<1> DEFINE bind(g) == [T \in SUBSET {} |->
                IF T = {} THEN w ELSE BindPhysical(g[T \ {LastKey(T)}], b, LastKey(T))]
           release(g) == [T \in SUBSET {} |->
                IF T = {} THEN w ELSE ReleasePhysicalBinding(g[T \ {LastKey(T)}], b, LastKey(T))]
           f == [T \in SUBSET {} |-> w]
           extended == CHOOSE g : g = bind(g)
           released == CHOOSE g : g = release(g)
<1>1. \A T \in SUBSET {} : T = {}
  OBVIOUS
<1>2. f = bind(f) /\ f = release(f)
  BY <1>1
<1>3. extended = bind(extended) /\ released = release(released)
  <2> HIDE DEF f, bind, release
  <2> QED BY <1>2
<1>4. BindAll(w, b, {}) = extended[{}] /\ ReleaseAll(w, b, {}) = released[{}]
  BY DEF BindAll, ReleaseAll, OverKeys, OneByOne
<1> HIDE DEF extended, released
<1>5. extended[{}] = w /\ released[{}] = w
  BY <1>3
<1> QED BY <1>4, <1>5

\* The full reconciliation of a rested breakpoint finds everything as it is.
LEMMA RestedReconciled ==
  ASSUME NEW w, IsState(w), Quiet(w), NEW Q, Consistent(w, Q), w.pending = {},
         NEW b \in DOMAIN w.breakpoints
  PROVE  ReconcileBreakpoint(w, b) = w
<1> DEFINE D == DOMAIN w.scripts
           source == w.breakpoints[b].source
           index == CandidateIndex(w, source)
           hydrate == {s \in D : w.scripts[s].source = "unresolved" /\ MayExpose(s, source)}
           x == Selection(index)
           u == ApplyAll(WithIndex(w, b, index), b, x, D)
           t == HydrateAll(u, hydrate, TRUE)
<1>1. ReconcileBreakpoint(w, b) = ReconcilePhysicalBindings(t, b)
  BY DEF ReconcileBreakpoint, ApplyAll, HydrateAll, InOrder, OneByOne
<1>2. w.breakpoints[b].index = index /\ w.breakpoints[b].index.unresolved = {}
  BY RestedIndex
<1>3. hydrate = {} /\ w.breakpoints[b].friendly = Selection(w.breakpoints[b].index).friendly
  BY DEF Quiet, Reconciled, Wanted, Judged
<1>4. WithIndex(w, b, index) = w
  BY <1>2, <1>3, RestedIndexWritten
<1>5. D \in SUBSET Scripts /\ IsFiniteSet(D)
  BY StateTyped
<1> HIDE DEF D, index, x, hydrate
<1>6. ApplyAll(w, b, x, D) = w
  <2> DEFINE W == [T \in SUBSET D |-> {w}]
  <2>1. w \in W[{}]
    OBVIOUS
  <2>2. \A T \in SUBSET D : \A s \in T : \A v \in W[T \ {s}] : ApplySelection(v, b, s, x) \in W[T]
    BY <1>2, RestedApplied DEF D, x
  <2>3. W[D] = {w}
    OBVIOUS
  <2> HIDE DEF W
  <2>4. ApplyAll(w, b, x, D) \in W[D]
    BY <1>5, <2>1, <2>2, ApplyAllStays
  <2> QED BY <2>3, <2>4
<1>7. HydrateAll(w, {}, TRUE) = w
  <2> DEFINE W == [T \in SUBSET {} |-> {w}]
  <2>1. w \in W[{}] /\ W[{}] = {w}
    OBVIOUS
  <2>2. \A T \in SUBSET {} : \A s \in T : \A v \in W[T \ {s}] : ScheduleSourceHydration(v, s, TRUE) \in W[T]
    OBVIOUS
  <2>3. {} \in SUBSET Scripts /\ IsFiniteSet({})
    BY FS_EmptySet
  <2> HIDE DEF W
  <2>4. HydrateAll(w, {}, TRUE) \in W[{}]
    BY <2>1, <2>2, <2>3, HydrateAllStays
  <2> QED BY <2>1, <2>4
<1>8. t = w
  BY <1>3, <1>4, <1>6, <1>7
<1> HIDE DEF t
<1>9. ReconcilePhysicalBindings(w, b) = w
  <2> DEFINE desired == Desired(w, b)
             bindings == w.breakpoints[b].bindings
             missing == desired \ DOMAIN bindings
             extended == BindAll(w, b, missing)
             stale == DOMAIN extended.breakpoints[b].bindings \ desired
             released == ReleaseAll(extended, b, stale)
  <2>1. ReconcilePhysicalBindings(w, b) = IF MayReleaseStale(extended, b) THEN released ELSE extended
    BY DEF ReconcilePhysicalBindings, BindAll, ReleaseAll, OverKeys, OneByOne
  <2>2. desired \subseteq DOMAIN bindings /\ (Decided(w, b) => DOMAIN bindings = desired)
    BY RestedBindings
  <2> HIDE DEF desired
  <2>3. missing = {}
    BY <2>2
  <2>4. extended = w
    BY <2>3, NothingBound
  <2>5. MayReleaseStale(w, b) => Decided(w, b)
    BY DEF MayReleaseStale, Decided
  <2> HIDE DEF extended
  <2>6. Decided(w, b) => stale = {}
    BY <2>2, <2>4
  <2> HIDE DEF stale
  <2>7. Decided(w, b) => released = w
    BY <2>4, <2>6, NothingBound
  <2> QED BY <2>1, <2>4, <2>5, <2>7
<1> QED BY <1>1, <1>8, <1>9

\* QuietIsReconciled: what reconcile_built_script, apply_parsed_script and the
\* completions come to is what reconcile_breakpoint would make of it.
THEOREM RestIsReconciled == Spec => []QuietIsReconciled
<1>1. IInv /\ Quiet(state) => QuietIsReconciled
  <2> SUFFICES ASSUME IInv, Quiet(state), AtRest, NEW b \in DOMAIN state.breakpoints
               PROVE  ReconcileBreakpoint(state, b) = state
    BY DEF QuietIsReconciled
  <2>1. IsState(state) /\ Consistent(state, InQueue(queue)) /\ state.pending = {}
    BY StateReady DEF AtRest
  <2> QED BY <2>1, RestedReconciled
<1> QED BY <1>1, Invariance, QuietInvariance, PTL
=============================================================================
