------------------------ MODULE DebuggerDriverProofs ------------------------
(***************************************************************************)
(* Theorems about DebuggerDriver and the reducer it drives, checked by     *)
(* TLAPS.                                                                  *)
(*                                                                         *)
(* The reducer is a pure function, so most of this module is about states  *)
(* and not about steps: what an operator of DebuggerReducer does to the    *)
(* state v it is given is a relation between its result and v.  From the   *)
(* inside out:                                                             *)
(*                                                                         *)
(*   Assessed    it leaves the physical breakpoints alone;                 *)
(*   Rebinds     it changes bindings, owners and what is asked for them;   *)
(*   Reconciles  it reconciles breakpoints: each one keeps something it    *)
(*               holds or belongs nowhere;                                 *)
(*   Follows, Answers                                                      *)
(*               it is an input, or completes a physical effect.           *)
(*                                                                         *)
(* Throughout, a state is Consistent with the effects Q that are still to  *)
(* be carried out: bindings and owners agree, a physical breakpoint on its *)
(* way to be installed or removed has its effect pending, and the effects  *)
(* in Q and the ones emitted are about breakpoints on that way, each once. *)
(* The loops of the reducer are over finite sets in a fixed order; what    *)
(* they keep is proved from the table of their intermediate states.        *)
(***************************************************************************)
EXTENDS DebuggerDriver, FiniteSetTheorems, WellFoundedInduction, TLAPS
-----------------------------------------------------------------------------
(***************************************************************************)
(* Loops.  A loop of the reducer has a table, and keeps what each of its     *)
(* steps keeps.                                                            *)
(***************************************************************************)
\* Induction over the subsets of a finite set: what holds of a set whenever it
\* holds of the sets one element smaller, holds of all.
LEMMA SubsetInduction ==
  ASSUME NEW S, IsFiniteSet(S), NEW A,
         \A T \in SUBSET S : (\A k \in T : T \ {k} \in A) => T \in A
  PROVE  \A T \in SUBSET S : T \in A
<1> DEFINE sizes == {Cardinality(T) : T \in (SUBSET S) \ A}
<1>1. \A T \in SUBSET S : IsFiniteSet(T) /\ Cardinality(T) \in Nat
  BY FS_Subset, FS_CardinalityType
<1> SUFFICES ASSUME sizes # {}
             PROVE  FALSE
  OBVIOUS
<1>2. sizes \subseteq Nat
  BY <1>1
<1>3. PICK n \in sizes : \A m \in sizes : ~(<<m, n>> \in OpToRel(<, Nat))
  <2> HIDE DEF sizes
  <2> QED BY <1>2, NatLessThanWellFounded, WFMin
<1>4. PICK T \in SUBSET S : T \notin A /\ n = Cardinality(T)
  OBVIOUS
<1>5. PICK k \in T : T \ {k} \notin A
  BY <1>4
<1>6. Cardinality(T \ {k}) = n - 1
  BY <1>1, <1>4, <1>5, FS_RemoveElement
<1>7. n - 1 \in sizes /\ n \in Nat /\ n - 1 \in Nat
  BY <1>2, <1>4, <1>5, <1>6
<1>8. <<n - 1, n>> \in OpToRel(<, Nat)
  BY <1>7 DEF OpToRel
<1> QED BY <1>3, <1>7, <1>8

\* f is the table of a loop over the keys S that starts at w, visits last[T] as
\* the last key of T, and takes state v to step[k][v] at key k.
IsTable(f, S, w, last, step) ==
  f = [T \in SUBSET S |->
         IF T = {} THEN w ELSE step[last[T]][f[T \ {last[T]}]]]

\* Two tables of one loop agree on the sets both are about.
LEMMA TablesAgree ==
  ASSUME NEW S, IsFiniteSet(S), NEW last,
         \A T \in (SUBSET S) \ {{}} : last[T] \in T, NEW w, NEW step,
         NEW T1 \in SUBSET S, NEW T2 \in SUBSET S, NEW f, NEW g,
         IsTable(f, T1, w, last, step), IsTable(g, T2, w, last, step)
  PROVE  \A T \in SUBSET (T1 \cap T2) : f[T] = g[T]
<1> DEFINE R == T1 \cap T2
           A == {T \in SUBSET R : f[T] = g[T]}
<1>1. IsFiniteSet(R)
  BY FS_Subset
<1>2. ASSUME NEW T \in SUBSET R, \A k \in T : T \ {k} \in A
      PROVE  T \in A
  <2>1. CASE T = {}
    BY <2>1 DEF IsTable
  <2>2. CASE T # {}
    <3>1. last[T] \in T
      BY <2>2
    <3>2. f[T \ {last[T]}] = g[T \ {last[T]}]
      BY <1>2, <3>1
    <3>3. f[T] = step[last[T]][f[T \ {last[T]}]] /\ g[T] = step[last[T]][g[T \ {last[T]}]]
      BY <2>2 DEF IsTable
    <3> QED BY <3>2, <3>3
  <2> QED BY <2>1, <2>2
<1>3. \A T \in SUBSET R : T \in A
  <2> HIDE DEF R, A
  <2> QED BY <1>1, <1>2, SubsetInduction
<1> QED BY <1>3

\* Every loop over a finite set has a table.
LEMMA TableExists ==
  ASSUME NEW S, IsFiniteSet(S), NEW last,
         \A T \in (SUBSET S) \ {{}} : last[T] \in T, NEW w, NEW step
  PROVE  \E f : IsTable(f, S, w, last, step)
<1> DEFINE table(T) == CHOOSE f : IsTable(f, T, w, last, step)
           has(T) == \E f : IsTable(f, T, w, last, step)
           A == {T \in SUBSET S : has(T)}
<1>1. ASSUME NEW T \in SUBSET S, has(T)
      PROVE  IsTable(table(T), T, w, last, step)
  BY <1>1
<1>2. ASSUME NEW T \in SUBSET S, \A k \in T : T \ {k} \in A
      PROVE  has(T)
  <2> DEFINE before(X) == CHOOSE k \in T : k \notin X
             part(X) == IF X = T THEN IF T = {} THEN w
                             ELSE step[last[T]][table(T \ {last[T]})[T \ {last[T]}]]
                        ELSE table(T \ {before(X)})[X]
             f == [X \in SUBSET T |-> part(X)]
  <2>1. ASSUME NEW k \in T
        PROVE  IsTable(table(T \ {k}), T \ {k}, w, last, step)
    BY <1>1, <1>2
  <2>2. ASSUME NEW X \in SUBSET T, X # T, NEW k \in T, k \notin X
        PROVE  f[X] = table(T \ {k})[X]
    <3>1. before(X) \in T /\ before(X) \notin X
      BY <2>2
    <3>2. X \in SUBSET ((T \ {k}) \cap (T \ {before(X)}))
      BY <2>2, <3>1
    <3>3. /\ IsTable(table(T \ {k}), T \ {k}, w, last, step)
          /\ IsTable(table(T \ {before(X)}), T \ {before(X)}, w, last, step)
      BY <2>1, <2>2, <3>1
    <3>4. f[X] = table(T \ {before(X)})[X]
      BY <2>2
    <3>5. T \ {k} \in SUBSET S /\ T \ {before(X)} \in SUBSET S
      OBVIOUS
    <3> HIDE DEF table, before, f, part
    <3>6. table(T \ {k})[X] = table(T \ {before(X)})[X]
      BY <3>2, <3>3, <3>5, TablesAgree
    <3> QED BY <3>4, <3>6
  <2>3. ASSUME NEW X \in SUBSET T
        PROVE  f[X] = IF X = {} THEN w ELSE step[last[X]][f[X \ {last[X]}]]
    <3>1. CASE X = {} /\ T = {}
      BY <3>1
    <3>2. CASE X = T /\ T # {}
      <4>1. last[T] \in T
        BY <3>2
      <4>2. f[T \ {last[T]}] = table(T \ {last[T]})[T \ {last[T]}]
        <5>1. T \ {last[T]} \in SUBSET T /\ T \ {last[T]} # T
          BY <4>1
        <5> HIDE DEF f, table
        <5> QED BY <2>2, <4>1, <5>1
      <4>3. f[T] = step[last[T]][table(T \ {last[T]})[T \ {last[T]}]]
        BY <3>2
      <4> HIDE DEF f, table
      <4> QED BY <3>2, <4>2, <4>3
    <3>3. CASE X # T
      <4>1. PICK k \in T : k \notin X
        BY <3>3
      <4>2. f[X] = table(T \ {k})[X]
        <5> HIDE DEF f, table
        <5> QED BY <2>2, <3>3, <4>1
      <4>3. table(T \ {k})[X]
              = IF X = {} THEN w ELSE step[last[X]][table(T \ {k})[X \ {last[X]}]]
        <5>1. X \in SUBSET (T \ {k})
          BY <4>1
        <5>2. IsTable(table(T \ {k}), T \ {k}, w, last, step)
          BY <2>1, <4>1
        <5> DEFINE t == table(T \ {k})
        <5>3. IsTable(t, T \ {k}, w, last, step)
          BY <5>2
        <5> HIDE DEF t
        <5>4. t[X] = IF X = {} THEN w ELSE step[last[X]][t[X \ {last[X]}]]
          BY <5>1, <5>3 DEF IsTable
        <5> QED BY <5>4 DEF t
      <4>4. X # {} => f[X \ {last[X]}] = table(T \ {k})[X \ {last[X]}]
        <5>1. X \ {last[X]} \in SUBSET T /\ X \ {last[X]} # T /\ k \notin X \ {last[X]}
          BY <4>1
        <5> HIDE DEF f, table
        <5> QED BY <2>2, <4>1, <5>1
      <4> HIDE DEF f, table
      <4> QED BY <4>2, <4>3, <4>4
    <3> QED BY <3>1, <3>2, <3>3
  <2>4. IsTable(f, T, w, last, step)
    <3>1. f = [X \in SUBSET T |-> f[X]]
      OBVIOUS
    <3> HIDE DEF f
    <3> QED BY <2>3, <3>1 DEF IsTable
  <2> HIDE DEF f
  <2> QED BY <2>4
<1>3. \A T \in SUBSET S : T \in A
  <2>1. \A T \in SUBSET S : (\A k \in T : T \ {k} \in A) => T \in A
    BY <1>2
  <2> HIDE DEF A
  <2> QED BY <2>1, SubsetInduction
<1> QED BY <1>3

\* A loop keeps what each of its steps keeps: if every step takes the states
\* W[T \ {k}] to the states W[T], k being the last key of T, then the loop has a
\* table, and its values are in W.
LEMMA LoopStays ==
  ASSUME NEW S, IsFiniteSet(S), NEW last,
         \A T \in (SUBSET S) \ {{}} : last[T] \in T,
         NEW W, NEW w \in W[{}], NEW step,
         \A T \in (SUBSET S) \ {{}} : \A v \in W[T \ {last[T]}] : step[last[T]][v] \in W[T]
  PROVE  \E f : IsTable(f, S, w, last, step) /\ \A T \in SUBSET S : f[T] \in W[T]
<1>1. PICK f : IsTable(f, S, w, last, step)
  BY TableExists
<1>2. \A T \in SUBSET S : f[T] = IF T = {} THEN w ELSE step[last[T]][f[T \ {last[T]}]]
  BY <1>1 DEF IsTable
<1> DEFINE A == {T \in SUBSET S : f[T] \in W[T]}
<1>3. ASSUME NEW T \in SUBSET S, \A k \in T : T \ {k} \in A
      PROVE  T \in A
  <2>1. CASE T = {}
    BY <1>2, <2>1
  <2>2. CASE T # {}
    <3>1. last[T] \in T
      BY <2>2
    <3>2. f[T \ {last[T]}] \in W[T \ {last[T]}]
      BY <1>3, <3>1
    <3>3. f[T] = step[last[T]][f[T \ {last[T]}]]
      BY <1>2, <2>2
    <3> QED BY <2>2, <3>2, <3>3
  <2> QED BY <2>1, <2>2
<1>4. \A T \in SUBSET S : T \in A
  <2> HIDE DEF A
  <2> QED BY <1>3, SubsetInduction
<1> QED BY <1>1, <1>4

\* What holds of a loop's first state and passes from state to state holds of
\* its last.
LEMMA LoopEnds ==
  ASSUME NEW S, IsFiniteSet(S), NEW last,
         \A T \in (SUBSET S) \ {{}} : last[T] \in T,
         NEW W, NEW g, g[{}] \in W[{}],
         \A T \in (SUBSET S) \ {{}} : g[T \ {last[T]}] \in W[T \ {last[T]}] => g[T] \in W[T]
  PROVE  g[S] \in W[S]
<1> DEFINE A == {T \in SUBSET S : g[T] \in W[T]}
<1>1. ASSUME NEW T \in SUBSET S, \A k \in T : T \ {k} \in A
      PROVE  T \in A
  <2>1. CASE T # {}
    BY <1>1, <2>1
  <2> QED BY <2>1
<1>2. \A T \in SUBSET S : T \in A
  <2> HIDE DEF A
  <2> QED BY <1>1, SubsetInduction
<1> QED BY <1>2

\* A finite set of numbers has a greatest one.
LEMMA GreatestExists ==
  ASSUME NEW S \in SUBSET Nat, IsFiniteSet(S)
  PROVE  \A T \in (SUBSET S) \ {{}} : Greatest(T) \in T
<1> DEFINE A == {T \in SUBSET S : T # {} => \E k \in T : \A l \in T : l <= k}
<1>1. ASSUME NEW T \in SUBSET S, \A k \in T : T \ {k} \in A
      PROVE  T \in A
  <2>1. ASSUME NEW k \in T, T \ {k} = {}
        PROVE  \A l \in T : l <= k
    BY <2>1
  <2>2. ASSUME NEW k \in T, T \ {k} # {}
        PROVE  \E m \in T : \A l \in T : l <= m
    <3>1. PICK m \in T \ {k} : \A l \in T \ {k} : l <= m
      BY <1>1, <2>2
    <3>2. k \in Nat /\ m \in Nat
      OBVIOUS
    <3>3. CASE k <= m
      BY <3>1, <3>3
    <3>4. CASE m <= k
      <4>1. ASSUME NEW l \in T PROVE l <= k
        BY <3>1, <3>2, <3>4
      <4> QED BY <4>1
    <3> QED BY <3>2, <3>3, <3>4
  <2> QED BY <2>1, <2>2
<1>2. \A T \in SUBSET S : T \in A
  <2> HIDE DEF A
  <2> QED BY <1>1, SubsetInduction
<1> QED BY <1>2 DEF Greatest

\* Keys of physical breakpoints are ordered.
LEMMA KeysAreOrdered ==
  ASSUME NEW p \in PhysicalKey, NEW q \in PhysicalKey, NEW r \in PhysicalKey
  PROVE  /\ p = q \/ Precedes(p, q) \/ Precedes(q, p)
         /\ Precedes(p, q) /\ Precedes(q, r) => Precedes(p, r)
<1>1. /\ p.script \in Nat /\ p.version \in Nat /\ p.position \in Nat /\ p.condition \in Nat
      /\ q.script \in Nat /\ q.version \in Nat /\ q.position \in Nat /\ q.condition \in Nat
      /\ r.script \in Nat /\ r.version \in Nat /\ r.position \in Nat /\ r.condition \in Nat
  BY ReducerAssumption DEF PhysicalKey
<1>2. \A k \in PhysicalKey :
         k = [script |-> k.script, version |-> k.version,
              position |-> k.position, condition |-> k.condition]
  BY DEF PhysicalKey
<1>3. p.script = q.script /\ p.version = q.version /\ p.position = q.position
         /\ p.condition = q.condition => p = q
  BY <1>2
<1> QED BY <1>1, <1>3 DEF Precedes

\* A finite set of keys has a last one.
LEMMA LastKeyExists ==
  ASSUME NEW S \in SUBSET PhysicalKey, IsFiniteSet(S)
  PROVE  \A T \in (SUBSET S) \ {{}} : LastKey(T) \in T
<1> DEFINE A == {T \in SUBSET S : T # {} => \E k \in T : \A l \in T \ {k} : Precedes(l, k)}
<1>1. ASSUME NEW T \in SUBSET S, \A k \in T : T \ {k} \in A
      PROVE  T \in A
  <2>1. ASSUME NEW k \in T, T \ {k} = {}
        PROVE  \A l \in T \ {k} : Precedes(l, k)
    BY <2>1
  <2>2. ASSUME NEW k \in T, T \ {k} # {}
        PROVE  \E m \in T : \A l \in T \ {m} : Precedes(l, m)
    <3>1. PICK m \in T \ {k} : \A l \in (T \ {k}) \ {m} : Precedes(l, m)
      BY <1>1, <2>2
    <3>2. CASE Precedes(k, m)
      BY <3>1, <3>2
    <3>3. CASE Precedes(m, k)
      <4>1. ASSUME NEW l \in T \ {k} PROVE Precedes(l, k)
        BY <3>1, <3>3, KeysAreOrdered
      <4> QED BY <4>1
    <3> QED BY <3>2, <3>3, KeysAreOrdered
  <2> QED BY <2>1, <2>2
<1>2. \A T \in SUBSET S : T \in A
  <2> HIDE DEF A
  <2> QED BY <1>1, SubsetInduction
<1> QED BY <1>2 DEF LastKey

-----------------------------------------------------------------------------
(***************************************************************************)
(* The types of the reducer's state.                                       *)
(***************************************************************************)
\* Finite maps: functions from a finite set of keys.
Maps(A, B) == UNION {[D -> B] : D \in {D \in SUBSET A : IsFiniteSet(D)}}

AnyCandidate == [url : Urls, content : Contents \cup {NoContent}]

ScriptState ==
  [version : Nat, source : {"unresolved", "pending", "loaded", "resolved", "failed"},
   captured : Contents \cup {NoContent}, view : SUBSET AnyCandidate]

AssessmentState ==
  [version : Nat,
   status : {"waiting", "mapping", "applicable", "unmapped",
             "failed", "notFound", "ambiguous"},
   candidate : AnyCandidate \cup {NoCandidate},
   positions : {P \in SUBSET Positions : IsFiniteSet(P)}]

IndexOver(D) ==
  [exact : SUBSET (D \X AnyCandidate), friendly : SUBSET (D \X AnyCandidate),
   unresolved : SUBSET D]

MapEffects ==
  [kind : {"map"}, breakpoint : Breakpoints, generation : Nat, script : Scripts,
   version : Nat, candidate : AnyCandidate]

SourceEffects == [kind : {"fetch", "build"}, script : Scripts, version : Nat]

PhysicalEffects == [kind : {"install", "remove"}, physical : PhysicalKey]

FrameEffects == [kind : {"frame"}, epoch : Nat, index : Nat]

SessionEffects == [kind : {"resume"}, epoch : Nat] \cup [kind : {"release"}]

Effects ==
  MapEffects \cup SourceEffects \cup PhysicalEffects \cup FrameEffects \cup SessionEffects

BindingStates == {"pendingInstall", "installed", "waitingForRemoval"}

BreakpointOver(D) ==
  [generation : Nat, source : Urls, condition : Conditions, index : IndexOver(D),
   friendly : BOOLEAN, mappings : SUBSET MapEffects,
   assessments : Maps(D, AssessmentState), bindings : Maps(PhysicalKey, BindingStates)]

PhysicalOver(B) ==
  [owners : SUBSET B, status : {"installing", "installed", "removing"}]

\* The keys in scripts D.
KeysOver(D) == {p \in PhysicalKey : p.script \in D}

\* The states over scripts D and breakpoints B.
StatesOver(D, B) ==
  [phase : {"running", "paused", "resuming"}, epoch : Nat, nextEpoch : Nat,
   pause : {NoPause} \cup Pause, waiting : BOOLEAN,
   scripts : [D -> ScriptState], breakpoints : [B -> BreakpointOver(D)],
   physical : Maps(KeysOver(D), PhysicalOver(B)),
   pending : SUBSET Effects, out : Seq(Effects)]

KeySets == {D \in SUBSET Scripts : IsFiniteSet(D)}

BreakpointSets == {B \in SUBSET Breakpoints : IsFiniteSet(B)}

\* Finite maps.
LEMMA MapsHave ==
  ASSUME NEW A, NEW B, NEW f \in Maps(A, B)
  PROVE  /\ f = [k \in DOMAIN f |-> f[k]]
         /\ DOMAIN f \subseteq A /\ IsFiniteSet(DOMAIN f)
         /\ \A k \in DOMAIN f : f[k] \in B
BY DEF Maps

\* A function over a finite set of keys is a map.
LEMMA MapsAre ==
  ASSUME NEW A, NEW B, NEW D \in SUBSET A, IsFiniteSet(D), NEW f \in [D -> B]
  PROVE  f \in Maps(A, B) /\ DOMAIN f = D
BY DEF Maps

\* A map with one entry more, or with another value for a key, is a map (With).
LEMMA MapsWith ==
  ASSUME NEW A, NEW B, NEW f \in Maps(A, B), NEW k \in A, NEW v \in B
  PROVE  With(f, k, v) \in Maps(A, B)
<1>1. DOMAIN f \subseteq A /\ IsFiniteSet(DOMAIN f) /\ \A l \in DOMAIN f : f[l] \in B
  BY MapsHave
<1>2. IsFiniteSet(DOMAIN f \cup {k})
  BY <1>1, FS_AddElement
<1>3. With(f, k, v) \in [DOMAIN f \cup {k} -> B]
  BY <1>1 DEF With
<1> QED BY <1>1, <1>2, <1>3, MapsAre

\* A map without some keys is a map (Without).
LEMMA MapsWithout ==
  ASSUME NEW A, NEW B, NEW f \in Maps(A, B), NEW K
  PROVE  Without(f, K) \in Maps(A, B)
<1>1. DOMAIN f \subseteq A /\ IsFiniteSet(DOMAIN f) /\ \A l \in DOMAIN f : f[l] \in B
  BY MapsHave
<1>2. IsFiniteSet(DOMAIN f \ K)
  BY <1>1, FS_Subset
<1>3. Without(f, K) \in [DOMAIN f \ K -> B]
  BY <1>1 DEF Without
<1> QED BY <1>1, <1>2, <1>3, MapsAre

\* A map over fewer keys is one over more keys.
LEMMA MapsGrow ==
  ASSUME NEW A, NEW C \in SUBSET A, NEW B, NEW f \in Maps(C, B)
  PROVE  f \in Maps(A, B)
BY DEF Maps

\* The empty sequence, the initial value of every map, is a map.
LEMMA MapsEmpty ==
  ASSUME NEW A, NEW B
  PROVE  <<>> \in Maps(A, B) /\ DOMAIN <<>> = {}
<1>1. IsFiniteSet({}) /\ {} \in SUBSET A
  BY FS_EmptySet
<1>2. <<>> \in [{} -> B]
  OBVIOUS
<1>3. <<>> \in Maps(A, B)
  BY <1>1, <1>2, MapsAre
<1> QED BY <1>3

-----------------------------------------------------------------------------
(***************************************************************************)
(* What leaves the physical breakpoints alone: sources, indexes,           *)
(* assessments and mappings.                                               *)
(***************************************************************************)
IsPhysicalEffect(e) == e.kind \in {"install", "remove"}

\* The effects of v are those of w and others that are not about physical
\* breakpoints, and what is pending for physical breakpoints stays so.
LeavesPhysical(v, w) ==
  /\ v.physical = w.physical
  /\ \A e \in w.pending : IsPhysicalEffect(e) => e \in v.pending
  /\ Len(w.out) <= Len(v.out)
  /\ \A i \in DOMAIN w.out : v.out[i] = w.out[i]
  /\ \A i \in (DOMAIN v.out) \ (DOMAIN w.out) : ~IsPhysicalEffect(v.out[i])

SameSession(v, w) ==
  /\ v.phase = w.phase /\ v.epoch = w.epoch /\ v.nextEpoch = w.nextEpoch
  /\ v.waiting = w.waiting
  /\ v.pause = NoPause <=> w.pause = NoPause
  /\ w.pause # NoPause => v.pause.epoch = w.pause.epoch

SameVersions(v, w) ==
  \A s \in DOMAIN w.scripts : v.scripts[s].version = w.scripts[s].version

SameSpecification(v, w, b) ==
  /\ v.breakpoints[b].generation = w.breakpoints[b].generation
  /\ v.breakpoints[b].source = w.breakpoints[b].source
  /\ v.breakpoints[b].condition = w.breakpoints[b].condition

Assesses(v, w, T) ==
  /\ LeavesPhysical(v, w) /\ SameSession(v, w) /\ SameVersions(v, w)
  /\ \A b \in DOMAIN w.breakpoints :
         /\ SameSpecification(v, w, b)
         /\ v.breakpoints[b].bindings = w.breakpoints[b].bindings
         /\ b \notin T => v.breakpoints[b] = w.breakpoints[b]

States(w) == StatesOver(DOMAIN w.scripts, DOMAIN w.breakpoints)

IsState(w) ==
  /\ DOMAIN w.scripts \in KeySets /\ DOMAIN w.breakpoints \in BreakpointSets
  /\ w \in States(w)

Assessed(w, T) == {v \in States(w) : Assesses(v, w, T)}

\* What the fields of a reducer state are.
LEMMA StateFields ==
  ASSUME NEW D, NEW B, NEW w \in StatesOver(D, B)
  PROVE  /\ DOMAIN w.scripts = D /\ DOMAIN w.breakpoints = B
         /\ w.phase \in {"running", "paused", "resuming"}
         /\ w.epoch \in Nat /\ w.nextEpoch \in Nat
         /\ w.pause \in {NoPause} \cup Pause
         /\ w.waiting \in BOOLEAN
         /\ w.scripts \in [D -> ScriptState]
         /\ w.breakpoints \in [B -> BreakpointOver(D)]
         /\ w.physical \in Maps(KeysOver(D), PhysicalOver(B))
         /\ w.pending \in SUBSET Effects
         /\ w.out \in Seq(Effects)
BY DEF StatesOver

\* Doing nothing is a step that leaves the physical breakpoints alone.
LEMMA AssessedReflexive ==
  ASSUME NEW w, IsState(w), NEW T
  PROVE  w \in Assessed(w, T)
BY StateFields DEF Assessed, Assesses, LeavesPhysical, SameSession, SameVersions,
   SameSpecification, IsState, States

\* A step that leaves the physical breakpoints alone leads to a state.
LEMMA AssessedIsState ==
  ASSUME NEW w, IsState(w), NEW T, NEW v \in Assessed(w, T)
  PROVE  /\ IsState(v) /\ States(v) = States(w)
         /\ DOMAIN v.scripts = DOMAIN w.scripts /\ DOMAIN v.breakpoints = DOMAIN w.breakpoints
BY StateFields DEF Assessed, IsState, States

\* Two such steps in a row are one such step.
LEMMA AssessedTransitive ==
  ASSUME NEW w, IsState(w), NEW T, NEW v \in Assessed(w, T), NEW R \in SUBSET T,
         NEW u \in Assessed(v, R)
  PROVE  u \in Assessed(w, T)
<1>1. /\ v \in States(w) /\ u \in States(w) /\ Assesses(v, w, T) /\ Assesses(u, v, R)
      /\ DOMAIN v.scripts = DOMAIN w.scripts /\ DOMAIN v.breakpoints = DOMAIN w.breakpoints
  BY AssessedIsState DEF Assessed
<1>2. w.out \in Seq(Effects) /\ v.out \in Seq(Effects) /\ u.out \in Seq(Effects)
  BY <1>1, StateFields DEF States, IsState
<1>3. LeavesPhysical(u, w)
  BY <1>1, <1>2 DEF Assesses, LeavesPhysical
<1>4. SameSession(u, w) /\ SameVersions(u, w)
  BY <1>1 DEF Assesses, SameSession, SameVersions
<1>5. ASSUME NEW b \in DOMAIN w.breakpoints
      PROVE  /\ SameSpecification(u, w, b)
             /\ u.breakpoints[b].bindings = w.breakpoints[b].bindings
             /\ b \notin T => u.breakpoints[b] = w.breakpoints[b]
  BY <1>1 DEF Assesses, SameSpecification
<1>6. Assesses(u, w, T)
  BY <1>3, <1>4, <1>5 DEF Assesses
<1> QED BY <1>1, <1>6 DEF Assessed

\* The effects the reducer makes are effects, and which of them are physical.
LEMMA EffectKinds ==
  /\ \A s \in Scripts, v \in Nat :
        /\ FetchEffect(s, v) \in Effects /\ BuildEffect(s, v) \in Effects
        /\ ~IsPhysicalEffect(FetchEffect(s, v)) /\ ~IsPhysicalEffect(BuildEffect(s, v))
  /\ \A b \in Breakpoints, g \in Nat, s \in Scripts, v \in Nat, c \in AnyCandidate :
        MapEffect(b, g, s, v, c) \in MapEffects
  /\ \A e \in MapEffects : e \in Effects /\ ~IsPhysicalEffect(e)
  /\ \A p \in PhysicalKey : InstallEffect(p) \in Effects /\ RemoveEffect(p) \in Effects
  /\ \A n, i \in Nat : FrameEffect(n, i) \in Effects /\ ~IsPhysicalEffect(FrameEffect(n, i))
  /\ \A n \in Nat : ResumeEffect(n) \in Effects /\ ~IsPhysicalEffect(ResumeEffect(n))
  /\ ReleaseEffect \in Effects /\ ~IsPhysicalEffect(ReleaseEffect)
<1>1. \A s \in Scripts, v \in Nat :
        FetchEffect(s, v) \in SourceEffects /\ BuildEffect(s, v) \in SourceEffects
  BY DEF FetchEffect, BuildEffect, SourceEffects
<1>2. \A b \in Breakpoints, g \in Nat, s \in Scripts, v \in Nat, c \in AnyCandidate :
        MapEffect(b, g, s, v, c) \in MapEffects
  BY DEF MapEffect, MapEffects
<1>3. \A p \in PhysicalKey :
        InstallEffect(p) \in PhysicalEffects /\ RemoveEffect(p) \in PhysicalEffects
  BY DEF InstallEffect, RemoveEffect, PhysicalEffects
<1>4. \A n, i \in Nat : FrameEffect(n, i) \in FrameEffects
  BY DEF FrameEffect, FrameEffects
<1>5. \A n \in Nat : ResumeEffect(n) \in SessionEffects
  BY DEF ResumeEffect, SessionEffects
<1>6. ReleaseEffect \in SessionEffects
  BY DEF ReleaseEffect, SessionEffects
<1>7. \A e \in MapEffects : ~IsPhysicalEffect(e)
  BY DEF IsPhysicalEffect, MapEffects
<1>8. /\ \A s \in Scripts, v \in Nat :
           ~IsPhysicalEffect(FetchEffect(s, v)) /\ ~IsPhysicalEffect(BuildEffect(s, v))
      /\ \A n, i \in Nat : ~IsPhysicalEffect(FrameEffect(n, i))
      /\ \A n \in Nat : ~IsPhysicalEffect(ResumeEffect(n))
      /\ ~IsPhysicalEffect(ReleaseEffect)
  BY DEF IsPhysicalEffect, FetchEffect, BuildEffect, FrameEffect, ResumeEffect, ReleaseEffect
<1> QED BY <1>1, <1>2, <1>3, <1>4, <1>5, <1>6, <1>7, <1>8 DEF Effects

\* A state stays one when a field is set to a value of its type.
LEMMA EffectsSet ==
  ASSUME NEW D, NEW B, NEW w \in StatesOver(D, B),
         NEW x \in SUBSET Effects, NEW y \in Seq(Effects)
  PROVE  /\ [w EXCEPT !.pending = x, !.out = y] \in StatesOver(D, B)
         /\ [w EXCEPT !.pending = x] \in StatesOver(D, B)
<1>1. [w EXCEPT !.pending = x, !.out = y] \in StatesOver(D, B)
  BY DEF StatesOver
<1>2. [w EXCEPT !.pending = x] \in StatesOver(D, B)
  BY DEF StatesOver
<1> QED BY <1>1, <1>2

\* A state with other physical breakpoints is a state.
LEMMA PhysicalSet ==
  ASSUME NEW D, NEW B, NEW w \in StatesOver(D, B), NEW x \in Maps(KeysOver(D), PhysicalOver(B))
  PROVE  [w EXCEPT !.physical = x] \in StatesOver(D, B)
BY DEF StatesOver

\* A state with other breakpoints is a state.
LEMMA BreakpointsSet ==
  ASSUME NEW D, NEW B, NEW w \in StatesOver(D, B), NEW x \in [B -> BreakpointOver(D)]
  PROVE  [w EXCEPT !.breakpoints = x] \in StatesOver(D, B)
BY DEF StatesOver

\* A state with other scripts is a state.
LEMMA ScriptsSet ==
  ASSUME NEW D, NEW B, NEW w \in StatesOver(D, B), NEW x \in [D -> ScriptState]
  PROVE  [w EXCEPT !.scripts = x] \in StatesOver(D, B)
BY DEF StatesOver

\* An effect that is not about a physical breakpoint is emitted.
LEMMA EmitAssesses ==
  ASSUME NEW w, IsState(w), NEW e \in Effects, ~IsPhysicalEffect(e)
  PROVE  Emit(w, e) \in Assessed(w, {})
<1>1. w.out \in Seq(Effects) /\ w.pending \in SUBSET Effects
  BY StateFields DEF IsState, States
<1>2. Emit(w, e) \in States(w)
  <2>1. w.pending \cup {e} \in SUBSET Effects /\ Append(w.out, e) \in Seq(Effects)
    BY <1>1
  <2> QED BY <2>1, EffectsSet DEF IsState, States, Emit
<1>3. Emit(w, e).pending = w.pending \cup {e} /\ Emit(w, e).out = Append(w.out, e)
  BY DEF IsState, States, StatesOver, Emit
<1>4. LeavesPhysical(Emit(w, e), w)
  <2>1. Emit(w, e).physical = w.physical
    BY DEF IsState, States, StatesOver, Emit
  <2> QED BY <1>1, <1>3, <2>1 DEF LeavesPhysical
<1>5. SameSession(Emit(w, e), w) /\ SameVersions(Emit(w, e), w)
  BY DEF SameSession, SameVersions, IsState, States, StatesOver, Emit
<1>6. Emit(w, e).breakpoints = w.breakpoints
  BY DEF IsState, States, StatesOver, Emit
<1> QED BY <1>2, <1>4, <1>5, <1>6 DEF Assessed, Assesses, SameSpecification

\* The source of a script that was not fetched is scheduled to be fetched.
LEMMA HydrationAssesses ==
  ASSUME NEW w, IsState(w), NEW s \in Scripts, NEW retryFailed \in BOOLEAN
  PROVE  ScheduleSourceHydration(w, s, retryFailed) \in Assessed(w, {})
<1>1. CASE /\ s \in DOMAIN w.scripts
           /\ \/ w.scripts[s].source = "unresolved"
              \/ w.scripts[s].source = "failed" /\ retryFailed
  <2> DEFINE x == [w.scripts EXCEPT ![s].source = "pending"]
             v == [w EXCEPT !.scripts[s].source = "pending"]
             e == FetchEffect(s, w.scripts[s].version)
  <2>1. w.scripts \in [DOMAIN w.scripts -> ScriptState]
    BY StateFields DEF IsState, States
  <2>2. /\ x \in [DOMAIN w.scripts -> ScriptState]
        /\ \A k \in DOMAIN w.scripts : x[k].version = w.scripts[k].version
    BY <1>1, <2>1 DEF ScriptState
  <2>3. v = [w EXCEPT !.scripts = x]
    BY DEF IsState, States, StatesOver
  <2>4. v \in States(w)
    BY <2>2, <2>3, ScriptsSet DEF IsState, States
  <2>5. /\ v.scripts = x /\ v.out = w.out /\ v.pending = w.pending /\ v.physical = w.physical
        /\ v.breakpoints = w.breakpoints /\ v.phase = w.phase /\ v.epoch = w.epoch
        /\ v.nextEpoch = w.nextEpoch /\ v.pause = w.pause /\ v.waiting = w.waiting
    BY DEF IsState, States, StatesOver
  <2>6. v \in Assessed(w, {})
    <3>1. w.out \in Seq(Effects)
      BY StateFields DEF IsState, States
    <3>2. LeavesPhysical(v, w)
      BY <2>5, <3>1 DEF LeavesPhysical
    <3>3. SameSession(v, w) /\ SameVersions(v, w)
      BY <2>2, <2>5 DEF SameSession, SameVersions
    <3> HIDE DEF v, x
    <3> QED BY <2>4, <2>5, <3>2, <3>3 DEF Assessed, Assesses, SameSpecification
  <2>7. IsState(v)
    BY <2>6, AssessedIsState
  <2>8. e \in Effects /\ ~IsPhysicalEffect(e)
    BY <1>1, <2>1, EffectKinds DEF ScriptState
  <2>9. Emit(v, e) \in Assessed(v, {})
    BY <2>7, <2>8, EmitAssesses
  <2>10. ScheduleSourceHydration(w, s, retryFailed) = Emit(v, e)
    BY <1>1 DEF ScheduleSourceHydration
  <2> QED BY <2>6, <2>9, <2>10, AssessedTransitive
<1>2. CASE ~(/\ s \in DOMAIN w.scripts
             /\ \/ w.scripts[s].source = "unresolved"
                \/ w.scripts[s].source = "failed" /\ retryFailed)
  BY <1>2, AssessedReflexive DEF ScheduleSourceHydration
<1> QED BY <1>1, <1>2

\* What the fields of a breakpoint are.
LEMMA BreakpointFields ==
  ASSUME NEW D, NEW x \in BreakpointOver(D)
  PROVE  /\ x.generation \in Nat /\ x.source \in Urls /\ x.condition \in Conditions
         /\ x.index \in IndexOver(D) /\ x.friendly \in BOOLEAN
         /\ x.mappings \in SUBSET MapEffects
         /\ x.assessments \in Maps(D, AssessmentState)
         /\ x.bindings \in Maps(PhysicalKey, BindingStates)
BY DEF BreakpointOver

\* A breakpoint with other assessments is a breakpoint.
LEMMA AssessmentsSet ==
  ASSUME NEW D, NEW x \in BreakpointOver(D), NEW y \in Maps(D, AssessmentState)
  PROVE  [x EXCEPT !.assessments = y] \in BreakpointOver(D)
BY DEF BreakpointOver

\* A breakpoint with other mappings is a breakpoint.
LEMMA MappingsSet ==
  ASSUME NEW D, NEW x \in BreakpointOver(D), NEW y \in SUBSET MapEffects
  PROVE  [x EXCEPT !.mappings = y] \in BreakpointOver(D)
BY DEF BreakpointOver

\* A breakpoint with another index is a breakpoint.
LEMMA IndexSet ==
  ASSUME NEW D, NEW x \in BreakpointOver(D), NEW i \in IndexOver(D), NEW f \in BOOLEAN
  PROVE  [x EXCEPT !.index = i, !.friendly = f] \in BreakpointOver(D)
BY DEF BreakpointOver

\* v is w but for what breakpoint b says of its scripts, and for effects that are
\* not about physical breakpoints and no longer pending.
LEMMA BreakpointAssessed ==
  ASSUME NEW w, IsState(w), NEW b \in DOMAIN w.breakpoints,
         NEW x \in BreakpointOver(DOMAIN w.scripts),
         x.generation = w.breakpoints[b].generation, x.source = w.breakpoints[b].source,
         x.condition = w.breakpoints[b].condition, x.bindings = w.breakpoints[b].bindings,
         NEW y \in SUBSET Effects, \A e \in w.pending : IsPhysicalEffect(e) => e \in y
  PROVE  [w EXCEPT !.pending = y, !.breakpoints[b] = x] \in Assessed(w, {b})
<1> DEFINE z == [w.breakpoints EXCEPT ![b] = x]
           u == [w EXCEPT !.pending = y]
           v == [w EXCEPT !.pending = y, !.breakpoints[b] = x]
<1>1. w.breakpoints \in [DOMAIN w.breakpoints -> BreakpointOver(DOMAIN w.scripts)]
      /\ w.out \in Seq(Effects)
  BY StateFields DEF IsState, States
<1>2. z \in [DOMAIN w.breakpoints -> BreakpointOver(DOMAIN w.scripts)]
  BY <1>1
<1>3. u \in States(w) /\ u.breakpoints = w.breakpoints
  <2>1. u \in States(w)
    BY EffectsSet, <1>1 DEF IsState, States
  <2> QED BY <2>1 DEF IsState, States, StatesOver
<1>4. v = [u EXCEPT !.breakpoints = z]
  BY <1>3 DEF IsState, States, StatesOver
<1>5. v \in States(w)
  BY <1>2, <1>3, <1>4, BreakpointsSet DEF States
<1>6. /\ v.breakpoints = z /\ v.pending = y /\ v.scripts = w.scripts /\ v.out = w.out
      /\ v.physical = w.physical /\ v.phase = w.phase /\ v.epoch = w.epoch
      /\ v.nextEpoch = w.nextEpoch /\ v.pause = w.pause /\ v.waiting = w.waiting
  BY DEF IsState, States, StatesOver
<1>7. z[b] = x /\ \A c \in DOMAIN w.breakpoints : c # b => z[c] = w.breakpoints[c]
  BY <1>1
<1> HIDE DEF v, z
<1>8. LeavesPhysical(v, w)
  BY <1>1, <1>6 DEF LeavesPhysical
<1>9. SameSession(v, w) /\ SameVersions(v, w)
  BY <1>6 DEF SameSession, SameVersions
<1>10. ASSUME NEW c \in DOMAIN w.breakpoints
       PROVE  /\ SameSpecification(v, w, c)
              /\ v.breakpoints[c].bindings = w.breakpoints[c].bindings
              /\ c \notin {b} => v.breakpoints[c] = w.breakpoints[c]
  BY <1>6, <1>7 DEF SameSpecification
<1>11. v \in Assessed(w, {b})
  BY <1>5, <1>8, <1>9, <1>10 DEF Assessed, Assesses
<1> QED BY <1>11 DEF v

\* Setting an assessment leaves the physical breakpoints alone (SetAssessment).
LEMMA SetAssessmentAssesses ==
  ASSUME NEW w, IsState(w), NEW b \in DOMAIN w.breakpoints,
         NEW s \in DOMAIN w.scripts, NEW a \in AssessmentState
  PROVE  SetAssessment(w, b, s, a) \in Assessed(w, {b})
<1> DEFINE x == [w.breakpoints[b] EXCEPT !.assessments = With(@, s, a)]
           D == DOMAIN w.scripts
<1>1. w.breakpoints[b] \in BreakpointOver(D) /\ w.pending \in SUBSET Effects
  BY StateFields DEF IsState, States
<1>2. With(w.breakpoints[b].assessments, s, a) \in Maps(D, AssessmentState)
  BY <1>1, BreakpointFields, MapsWith
<1>3. x \in BreakpointOver(D)
  BY <1>1, <1>2, AssessmentsSet
<1>4. /\ x.generation = w.breakpoints[b].generation /\ x.source = w.breakpoints[b].source
      /\ x.condition = w.breakpoints[b].condition /\ x.bindings = w.breakpoints[b].bindings
  BY <1>1 DEF BreakpointOver
<1>5. [w EXCEPT !.pending = w.pending, !.breakpoints[b] = x] \in Assessed(w, {b})
  <2> HIDE DEF x
  <2> QED BY <1>1, <1>3, <1>4, BreakpointAssessed
<1>6. [w EXCEPT !.pending = w.pending, !.breakpoints[b] = x] = SetAssessment(w, b, s, a)
  BY DEF SetAssessment, IsState, States, StatesOver
<1> QED BY <1>5, <1>6

\* Cancelling a mapping leaves the physical breakpoints alone
\* (CancelBreakpointMapping).
LEMMA CancelAssesses ==
  ASSUME NEW w, IsState(w), NEW b \in DOMAIN w.breakpoints, NEW s
  PROVE  CancelBreakpointMapping(w, b, s) \in Assessed(w, {b})
<1> DEFINE cancelled == {e \in w.breakpoints[b].mappings : e.script = s}
           x == [w.breakpoints[b] EXCEPT !.mappings = @ \ cancelled]
           y == w.pending \ cancelled
           D == DOMAIN w.scripts
<1>1. w.breakpoints[b] \in BreakpointOver(D) /\ w.pending \in SUBSET Effects
  BY StateFields DEF IsState, States
<1>2. w.breakpoints[b].mappings \in SUBSET MapEffects
  BY <1>1, BreakpointFields
<1>3. x \in BreakpointOver(D)
  BY <1>1, <1>2, MappingsSet
<1>4. /\ x.generation = w.breakpoints[b].generation /\ x.source = w.breakpoints[b].source
      /\ x.condition = w.breakpoints[b].condition /\ x.bindings = w.breakpoints[b].bindings
  BY <1>1 DEF BreakpointOver
<1>5. y \in SUBSET Effects /\ \A e \in w.pending : IsPhysicalEffect(e) => e \in y
  BY <1>1, <1>2, EffectKinds
<1>6. [w EXCEPT !.pending = y, !.breakpoints[b] = x] \in Assessed(w, {b})
  <2> HIDE DEF x, y
  <2> QED BY <1>3, <1>4, <1>5, BreakpointAssessed
<1>7. [w EXCEPT !.pending = y, !.breakpoints[b] = x] = CancelBreakpointMapping(w, b, s)
  BY DEF CancelBreakpointMapping, IsState, States, StatesOver
<1> QED BY <1>6, <1>7

\* The assessments the reducer makes are assessments.
LEMMA AssessmentTyped ==
  ASSUME NEW v \in Nat,
         NEW k \in {"waiting", "mapping", "applicable", "unmapped",
                    "failed", "notFound", "ambiguous"}
  PROVE  /\ Assessment(v, k) \in AssessmentState
         /\ \A c \in AnyCandidate \cup {NoCandidate}, P \in SUBSET Positions :
              /\ [Assessment(v, k) EXCEPT !.candidate = c] \in AssessmentState
              /\ IsFiniteSet(P) =>
                   [Assessment(v, k) EXCEPT !.candidate = c, !.positions = P] \in AssessmentState
<1>1. IsFiniteSet({})
  BY FS_EmptySet
<1> QED BY <1>1 DEF Assessment, AssessmentState

\* Replacing an assessment leaves the physical breakpoints alone (ReplaceAssessment).
LEMMA ReplaceAssesses ==
  ASSUME NEW w, IsState(w), NEW b \in DOMAIN w.breakpoints, NEW s \in DOMAIN w.scripts,
         NEW k \in {"waiting", "mapping", "applicable", "unmapped",
                    "failed", "notFound", "ambiguous"}
  PROVE  ReplaceAssessment(w, b, s, k) \in Assessed(w, {b})
<1> DEFINE v == CancelBreakpointMapping(w, b, s)
           a == Assessment(w.scripts[s].version, k)
<1>1. v \in Assessed(w, {b})
  BY CancelAssesses
<1>2. IsState(v) /\ b \in DOMAIN v.breakpoints /\ s \in DOMAIN v.scripts
  BY <1>1, AssessedIsState
<1>3. a \in AssessmentState
  <2>1. w.scripts[s].version \in Nat
    BY StateFields DEF IsState, States, ScriptState
  <2> QED BY <2>1, AssessmentTyped
<1>4. SetAssessment(v, b, s, a) \in Assessed(v, {b})
  <2> HIDE DEF v, a
  <2> QED BY <1>2, <1>3, SetAssessmentAssesses
<1>5. SetAssessment(v, b, s, a) \in Assessed(w, {b})
  <2> HIDE DEF v, a
  <2> QED BY <1>1, <1>4, AssessedTransitive
<1> QED BY <1>5 DEF ReplaceAssessment

Kinds == {"none", "ambiguous", "waiting", "unique"}

IsSelection(D, x) ==
  /\ x.kind \in Kinds /\ x.candidates \in SUBSET AnyCandidate
  /\ x.scripts \in SUBSET D /\ x.friendly \in BOOLEAN
  /\ x.kind = "unique" => x.candidates # {}

\* What the scripts, breakpoints and effects of a state are.
LEMMA StateTyped ==
  ASSUME NEW w, IsState(w)
  PROVE  /\ DOMAIN w.scripts \subseteq Scripts /\ IsFiniteSet(DOMAIN w.scripts)
         /\ DOMAIN w.breakpoints \subseteq Breakpoints /\ IsFiniteSet(DOMAIN w.breakpoints)
         /\ \A s \in DOMAIN w.scripts :
               /\ w.scripts[s] \in ScriptState
               /\ w.scripts[s].version \in Nat /\ w.scripts[s].view \in SUBSET AnyCandidate
               /\ w.scripts[s].captured \in Contents \cup {NoContent}
         /\ \A b \in DOMAIN w.breakpoints :
               /\ w.breakpoints[b] \in BreakpointOver(DOMAIN w.scripts)
               /\ w.breakpoints[b].source \in Urls
               /\ w.breakpoints[b].index \in IndexOver(DOMAIN w.scripts)
         /\ w.pending \in SUBSET Effects /\ w.out \in Seq(Effects)
BY StateFields, BreakpointFields DEF IsState, States, KeySets, BreakpointSets, ScriptState

\* Selection returns a selection: a unique one has a candidate.
LEMMA SelectionTyped ==
  ASSUME NEW D, NEW i \in IndexOver(D)
  PROVE  IsSelection(D, Selection(i))
<1> DEFINE friendly == i.exact = {}
           bucket == IF friendly THEN i.friendly ELSE i.exact
           candidates == {x[2] : x \in bucket}
           scripts == {x[1] : x \in bucket}
<1>1. /\ bucket \in SUBSET (D \X AnyCandidate)
      /\ i.unresolved \in SUBSET D
      /\ friendly \in BOOLEAN
  BY DEF IndexOver
<1>2. candidates \in SUBSET AnyCandidate /\ scripts \in SUBSET D
  BY <1>1
<1> HIDE DEF candidates, scripts
<1>3. Selection(i) =
    CASE candidates = {} ->
              [kind |-> "none", candidates |-> {}, scripts |-> {}, friendly |-> FALSE]
         [] Cardinality(candidates) > 1 ->
              [kind |-> "ambiguous", candidates |-> candidates, scripts |-> scripts,
               friendly |-> FALSE]
         [] Cardinality(candidates) = 1 /\ friendly /\ i.unresolved # {} ->
              [kind |-> "waiting", candidates |-> {},
               scripts |-> scripts \cup i.unresolved, friendly |-> FALSE]
         [] OTHER ->
              [kind |-> "unique", candidates |-> candidates, scripts |-> scripts,
               friendly |-> friendly]
  BY DEF Selection, candidates, scripts
<1> HIDE DEF bucket, friendly
<1>4. ASSUME NEW x, x \in {[kind |-> "none", candidates |-> {}, scripts |-> {}, friendly |-> FALSE],
              [kind |-> "ambiguous", candidates |-> candidates, scripts |-> scripts,
               friendly |-> FALSE],
              [kind |-> "waiting", candidates |-> {},
               scripts |-> scripts \cup i.unresolved, friendly |-> FALSE]}
      PROVE IsSelection(D, x)
  <2>1. CASE x = [kind |-> "none", candidates |-> {}, scripts |-> {}, friendly |-> FALSE]
    BY <2>1 DEF IsSelection, Kinds
  <2>2. CASE x = [kind |-> "ambiguous", candidates |-> candidates, scripts |-> scripts,
               friendly |-> FALSE]
    BY <1>2, <2>2 DEF IsSelection, Kinds
  <2>3. CASE x = [kind |-> "waiting", candidates |-> {},
               scripts |-> scripts \cup i.unresolved, friendly |-> FALSE]
    BY <1>1, <1>2, <2>3 DEF IsSelection, Kinds
  <2> QED BY <1>4, <2>1, <2>2, <2>3
<1>5. candidates # {} =>
       IsSelection(D, [kind |-> "unique", candidates |-> candidates, scripts |-> scripts,
               friendly |-> friendly])
  BY <1>1, <1>2 DEF IsSelection, Kinds
<1>6. CASE candidates = {}
  BY <1>3, <1>4, <1>6
<1>7. CASE candidates # {} /\ Cardinality(candidates) > 1
  <2>1. Selection(i) \in {[kind |-> "ambiguous", candidates |-> candidates, scripts |-> scripts,
               friendly |-> FALSE], [kind |-> "waiting", candidates |-> {},
               scripts |-> scripts \cup i.unresolved, friendly |-> FALSE]}
    BY <1>3, <1>7
  <2> QED BY <2>1, <1>4
<1>8. CASE candidates # {} /\ ~(Cardinality(candidates) > 1)
           /\ Cardinality(candidates) = 1 /\ friendly /\ i.unresolved # {}
  BY <1>3, <1>4, <1>8
<1>9. CASE candidates # {} /\ ~(Cardinality(candidates) > 1)
           /\ ~(Cardinality(candidates) = 1 /\ friendly /\ i.unresolved # {})
  BY <1>3, <1>5, <1>9
<1> QED BY <1>6, <1>7, <1>8, <1>9

\* What a script contributes to an index is an index (IndexScript).
LEMMA IndexScriptTyped ==
  ASSUME NEW D \in SUBSET Scripts, NEW s \in D, NEW script \in ScriptState, NEW source
  PROVE  IndexScript(source, s, script) \in IndexOver(D)
<1> DEFINE own == {[url |-> ScriptUrl[s], content |-> c] : c \in {script.captured} \ {NoContent}}
           view == IF script.source = "resolved" THEN script.view ELSE {}
<1>1. own \in SUBSET AnyCandidate /\ view \in SUBSET AnyCandidate
  BY ReducerAssumption DEF AnyCandidate, ScriptState
<1> HIDE DEF own, view
<1> DEFINE exact == {<<s, c>> : c \in {c \in own \cup view : c.url = source}}
           friendly == {<<s, c>> : c \in {c \in view :
                          c.url # source /\ <<c.url, source>> \in FriendlyPairs}}
           unresolved == {x \in {s} : IsUnbuilt(script) /\ MayExpose(s, source)}
<1>2. IndexScript(source, s, script) =
        [exact |-> exact, friendly |-> friendly, unresolved |-> unresolved]
  BY DEF IndexScript, own, view
<1>3. /\ exact \in SUBSET (D \X AnyCandidate) /\ friendly \in SUBSET (D \X AnyCandidate)
      /\ unresolved \in SUBSET D
  <2>1. \A c \in own \cup view : <<s, c>> \in D \X AnyCandidate
    BY <1>1
  <2>2. exact \in SUBSET (D \X AnyCandidate)
    BY <2>1
  <2>3. friendly \in SUBSET (D \X AnyCandidate)
    BY <2>1
  <2> QED BY <2>2, <2>3
<1> HIDE DEF exact, friendly, unresolved
<1> QED BY <1>2, <1>3 DEF IndexOver

\* The index over all scripts is an index (CandidateIndex).
LEMMA CandidateIndexTyped ==
  ASSUME NEW w, IsState(w), NEW source
  PROVE  CandidateIndex(w, source) \in IndexOver(DOMAIN w.scripts)
<1> DEFINE D == DOMAIN w.scripts
           of(s) == IndexScript(source, s, w.scripts[s])
<1>1. \A s \in D : /\ of(s).exact \in SUBSET (D \X AnyCandidate)
                   /\ of(s).friendly \in SUBSET (D \X AnyCandidate)
                   /\ of(s).unresolved \in SUBSET D
  <2> SUFFICES ASSUME NEW s \in D PROVE /\ of(s).exact \in SUBSET (D \X AnyCandidate)
                   /\ of(s).friendly \in SUBSET (D \X AnyCandidate)
                   /\ of(s).unresolved \in SUBSET D
    OBVIOUS
  <2>1. of(s) \in IndexOver(D)
    BY StateTyped, IndexScriptTyped
  <2> HIDE DEF of
  <2> QED BY <2>1 DEF IndexOver
<1>2. CandidateIndex(w, source) = [exact |-> UNION {of(s).exact : s \in D},
        friendly |-> UNION {of(s).friendly : s \in D},
        unresolved |-> UNION {of(s).unresolved : s \in D}]
  BY DEF CandidateIndex
<1> HIDE DEF of
<1>3. /\ UNION {of(s).exact : s \in D} \in SUBSET (D \X AnyCandidate)
      /\ UNION {of(s).friendly : s \in D} \in SUBSET (D \X AnyCandidate)
      /\ UNION {of(s).unresolved : s \in D} \in SUBSET D
  BY <1>1
<1> QED BY <1>2, <1>3 DEF IndexOver

\* The index brought up to date is an index (IndexWithBuilt).
LEMMA IndexWithBuiltTyped ==
  ASSUME NEW w, IsState(w), NEW b \in DOMAIN w.breakpoints, NEW s \in DOMAIN w.scripts
  PROVE  IndexWithBuilt(w, b, s) \in IndexOver(DOMAIN w.scripts)
<1> DEFINE new == IndexScript(w.breakpoints[b].source, s, w.scripts[s])
           old == w.breakpoints[b].index
           D == DOMAIN w.scripts
<1>1. new \in IndexOver(D) /\ old \in IndexOver(D)
  BY StateTyped, IndexScriptTyped
<1>2. IndexWithBuilt(w, b, s) =
       [exact |-> old.exact \cup new.exact, friendly |-> old.friendly \cup new.friendly,
        unresolved |-> (old.unresolved \ {s}) \cup new.unresolved]
  BY DEF IndexWithBuilt
<1> HIDE DEF new, old
<1> QED BY <1>1, <1>2 DEF IndexOver

\* Setting the index leaves the physical breakpoints alone (WithIndex).
LEMMA WithIndexAssesses ==
  ASSUME NEW w, IsState(w), NEW b \in DOMAIN w.breakpoints,
         NEW i \in IndexOver(DOMAIN w.scripts)
  PROVE  WithIndex(w, b, i) \in Assessed(w, {b})
<1> DEFINE f == Selection(i).friendly
           x == [w.breakpoints[b] EXCEPT !.index = i, !.friendly = f]
           D == DOMAIN w.scripts
<1>1. w.breakpoints[b] \in BreakpointOver(D) /\ w.pending \in SUBSET Effects
  BY StateTyped
<1>2. f \in BOOLEAN
  BY SelectionTyped DEF IsSelection
<1> HIDE DEF f
<1>3. x \in BreakpointOver(D)
  BY <1>1, <1>2, IndexSet
<1>4. /\ x.generation = w.breakpoints[b].generation /\ x.source = w.breakpoints[b].source
      /\ x.condition = w.breakpoints[b].condition /\ x.bindings = w.breakpoints[b].bindings
  BY <1>1 DEF BreakpointOver
<1>5. [w EXCEPT !.pending = w.pending, !.breakpoints[b] = x] \in Assessed(w, {b})
  <2> HIDE DEF x
  <2> QED BY <1>1, <1>3, <1>4, BreakpointAssessed
<1>6. [w EXCEPT !.pending = w.pending, !.breakpoints[b] = x] = WithIndex(w, b, i)
  <2>1. WithIndex(w, b, i) = [w EXCEPT !.breakpoints[b].index = i, !.breakpoints[b].friendly = f]
    BY DEF WithIndex, f
  <2> QED BY <2>1 DEF IsState, States, StatesOver
<1> QED BY <1>5, <1>6

\* Scheduling a mapping leaves the physical breakpoints alone (ScheduleMapping).
LEMMA ScheduleMappingAssesses ==
  ASSUME NEW w, IsState(w), NEW b \in DOMAIN w.breakpoints, NEW s \in DOMAIN w.scripts,
         NEW c \in AnyCandidate
  PROVE  ScheduleMapping(w, b, s, c) \in Assessed(w, {b})
<1> DEFINE bp == w.breakpoints[b]
           e == MapEffect(b, bp.generation, s, w.scripts[s].version, c)
           x == [bp EXCEPT !.mappings = @ \cup {e}]
           v == [w EXCEPT !.breakpoints[b].mappings = @ \cup {e}]
           a == [Assessment(e.version, "mapping") EXCEPT !.candidate = c]
           u == SetAssessment(v, b, s, a)
           D == DOMAIN w.scripts
<1>1. /\ bp \in BreakpointOver(D) /\ w.pending \in SUBSET Effects
      /\ s \in Scripts /\ b \in Breakpoints /\ w.scripts[s].version \in Nat
  BY StateTyped
<1>2. e \in MapEffects /\ e.version = w.scripts[s].version /\ e \in Effects /\ ~IsPhysicalEffect(e)
  <2>1. e \in MapEffects
    BY <1>1, EffectKinds, BreakpointFields
  <2> QED BY <2>1, EffectKinds DEF MapEffect
<1> HIDE DEF e
<1>3. x \in BreakpointOver(D)
  <2>1. bp.mappings \cup {e} \in SUBSET MapEffects
    BY <1>1, <1>2, BreakpointFields
  <2> QED BY <1>1, <2>1, MappingsSet
<1>4. /\ x.generation = bp.generation /\ x.source = bp.source
      /\ x.condition = bp.condition /\ x.bindings = bp.bindings
  BY <1>1 DEF BreakpointOver
<1>5. [w EXCEPT !.pending = w.pending, !.breakpoints[b] = x] \in Assessed(w, {b})
  <2> HIDE DEF x
  <2> QED BY <1>1, <1>3, <1>4, BreakpointAssessed
<1>6. v = [w EXCEPT !.pending = w.pending, !.breakpoints[b] = x]
  BY DEF IsState, States, StatesOver
<1>7. v \in Assessed(w, {b})
  BY <1>5, <1>6
<1>8. IsState(v) /\ b \in DOMAIN v.breakpoints /\ s \in DOMAIN v.scripts
  BY <1>7, AssessedIsState
<1>9. a \in AssessmentState
  BY <1>1, <1>2, AssessmentTyped
<1>10. u \in Assessed(v, {b})
  <2> HIDE DEF v, a
  <2> QED BY <1>8, <1>9, SetAssessmentAssesses
<1>11. u \in Assessed(w, {b}) /\ IsState(u)
  <2> HIDE DEF u, v
  <2> QED BY <1>7, <1>8, <1>10, AssessedTransitive, AssessedIsState
<1>12. Emit(u, e) \in Assessed(w, {b})
  <2>1. Emit(u, e) \in Assessed(u, {})
    <3> HIDE DEF u
    <3> QED BY <1>2, <1>11, EmitAssesses
  <2> HIDE DEF u
  <2> QED BY <1>11, <2>1, AssessedTransitive
<1>13. ScheduleMapping(w, b, s, c) \in {w, Emit(u, e)}
  BY DEF ScheduleMapping, e
<1> QED BY <1>12, <1>13, AssessedReflexive

\* Ensuring a mapping leaves the physical breakpoints alone (EnsureMapping).
LEMMA EnsureMappingAssesses ==
  ASSUME NEW w, IsState(w), NEW b \in DOMAIN w.breakpoints, NEW s \in DOMAIN w.scripts,
         NEW c \in AnyCandidate
  PROVE  EnsureMapping(w, b, s, c) \in Assessed(w, {b})
<1> DEFINE v == CancelBreakpointMapping(w, b, s)
<1>1. v \in Assessed(w, {b})
  BY CancelAssesses
<1>2. IsState(v) /\ b \in DOMAIN v.breakpoints /\ s \in DOMAIN v.scripts
  BY <1>1, AssessedIsState
<1>3. ScheduleMapping(v, b, s, c) \in Assessed(w, {b})
  <2> HIDE DEF v
  <2>1. ScheduleMapping(v, b, s, c) \in Assessed(v, {b})
    BY <1>2, ScheduleMappingAssesses
  <2> QED BY <1>1, <2>1, AssessedTransitive
<1> QED BY <1>3, AssessedReflexive DEF EnsureMapping

\* Assessing one script leaves the physical breakpoints alone (ApplySelection).
LEMMA ApplySelectionAssesses ==
  ASSUME NEW w, IsState(w), NEW b \in DOMAIN w.breakpoints, NEW s \in DOMAIN w.scripts,
         NEW x, IsSelection(DOMAIN w.scripts, x)
  PROVE  ApplySelection(w, b, s, x) \in Assessed(w, {b})
<1> DEFINE k == StatusWithoutCandidate(s, w.scripts[s], w.breakpoints[b].source)
           c == CHOOSE c \in x.candidates : TRUE
<1>1. k \in {"failed", "waiting", "notFound"}
  BY DEF StatusWithoutCandidate
<1>2. CASE s \notin x.scripts \/ x.kind = "none"
  <2>1. ReplaceAssessment(w, b, s, k) \in Assessed(w, {b})
    <3> HIDE DEF k
    <3> QED BY <1>1, ReplaceAssesses
  <2> QED BY <1>2, <2>1 DEF ApplySelection
<1>3. CASE s \in x.scripts /\ x.kind = "unique"
  <2>1. c \in AnyCandidate
    BY <1>3 DEF IsSelection
  <2>2. EnsureMapping(w, b, s, c) \in Assessed(w, {b})
    <3> HIDE DEF c
    <3> QED BY <2>1, EnsureMappingAssesses
  <2> QED BY <1>3, <2>2 DEF ApplySelection
<1>4. CASE s \in x.scripts /\ x.kind \in {"ambiguous", "waiting"}
  <2>1. ReplaceAssessment(w, b, s, x.kind) \in Assessed(w, {b})
    BY <1>4, ReplaceAssesses
  <2> QED BY <1>4, <2>1 DEF ApplySelection
<1> QED BY <1>2, <1>3, <1>4 DEF IsSelection, Kinds

-----------------------------------------------------------------------------
(***************************************************************************)
(* Physical breakpoints, their owners and bindings, and the effects owed   *)
(* for them.                                                               *)
(***************************************************************************)
\* What bind and release operations leave alone.
SameButBindings(v, w) ==
  /\ v.phase = w.phase /\ v.epoch = w.epoch /\ v.nextEpoch = w.nextEpoch
  /\ v.pause = w.pause /\ v.waiting = w.waiting /\ v.scripts = w.scripts
  /\ \A b \in DOMAIN w.breakpoints :
        /\ SameSpecification(v, w, b)
        /\ v.breakpoints[b].index = w.breakpoints[b].index
        /\ v.breakpoints[b].friendly = w.breakpoints[b].friendly
        /\ v.breakpoints[b].mappings = w.breakpoints[b].mappings
        /\ v.breakpoints[b].assessments = w.breakpoints[b].assessments

\* Breakpoint b is bound at p exactly if it owns p, and shows its status.
BoundAt(w, b, p) ==
  LET bindings == w.breakpoints[b].bindings
  IN /\ p \in DOMAIN bindings <=> (p \in DOMAIN w.physical /\ b \in w.physical[p].owners)
     /\ p \in DOMAIN bindings => bindings[p] = BindingFor(w.physical[p].status)

\* What is being installed or removed was asked for, what is installed is owned.
AskedAt(w, p) ==
  /\ w.physical[p].status = "installing" => InstallEffect(p) \in w.pending
  /\ w.physical[p].status = "removing" => RemoveEffect(p) \in w.pending
  /\ w.physical[p].status = "installed" => w.physical[p].owners # {}

\* An effect about a physical breakpoint is the one its status asks for.
Fits(w, e) ==
  /\ e.physical \in DOMAIN w.physical /\ e \in w.pending
  /\ w.physical[e.physical].status = IF e.kind = "install" THEN "installing" ELSE "removing"

\* The effects Q still to be carried out and the ones emitted fit, and none is
\* there twice.
Owed(w, Q) ==
  /\ \A e \in Q : IsPhysicalEffect(e) => Fits(w, e)
  /\ \A i \in DOMAIN w.out : IsPhysicalEffect(w.out[i]) =>
        /\ Fits(w, w.out[i]) /\ w.out[i] \notin Q
        /\ \A j \in DOMAIN w.out : w.out[j] = w.out[i] => j = i

Bound(w) == \A b \in DOMAIN w.breakpoints, p \in PhysicalKey : BoundAt(w, b, p)

Asked(w) == \A p \in DOMAIN w.physical : AskedAt(w, p)

Consistent(w, Q) == Bound(w) /\ Asked(w) /\ Owed(w, Q)

\* What the physical breakpoints and the bindings of a state are.
LEMMA PhysicalTyped ==
  ASSUME NEW w, IsState(w)
  PROVE  /\ DOMAIN w.physical \subseteq KeysOver(DOMAIN w.scripts)
         /\ DOMAIN w.physical \subseteq PhysicalKey /\ IsFiniteSet(DOMAIN w.physical)
         /\ w.physical = [p \in DOMAIN w.physical |-> w.physical[p]]
         /\ \A p \in DOMAIN w.physical :
               /\ w.physical[p] \in PhysicalOver(DOMAIN w.breakpoints)
               /\ w.physical[p].owners \in SUBSET DOMAIN w.breakpoints
               /\ w.physical[p].status \in {"installing", "installed", "removing"}
               /\ w.physical[p] = [owners |-> w.physical[p].owners, status |-> w.physical[p].status]
         /\ \A b \in DOMAIN w.breakpoints :
               /\ w.breakpoints[b].bindings \in Maps(PhysicalKey, BindingStates)
               /\ DOMAIN w.breakpoints[b].bindings \subseteq PhysicalKey
               /\ IsFiniteSet(DOMAIN w.breakpoints[b].bindings)
<1>1. w.physical \in Maps(KeysOver(DOMAIN w.scripts), PhysicalOver(DOMAIN w.breakpoints))
  BY StateFields DEF IsState, States
<1>2. /\ DOMAIN w.physical \subseteq KeysOver(DOMAIN w.scripts)
      /\ DOMAIN w.physical \subseteq PhysicalKey /\ IsFiniteSet(DOMAIN w.physical)
      /\ w.physical = [p \in DOMAIN w.physical |-> w.physical[p]]
      /\ \A p \in DOMAIN w.physical : w.physical[p] \in PhysicalOver(DOMAIN w.breakpoints)
  BY <1>1, MapsHave DEF KeysOver
<1>3. \A x \in PhysicalOver(DOMAIN w.breakpoints) :
         /\ x.owners \in SUBSET DOMAIN w.breakpoints
         /\ x.status \in {"installing", "installed", "removing"}
         /\ x = [owners |-> x.owners, status |-> x.status]
  BY DEF PhysicalOver
<1>4. ASSUME NEW b \in DOMAIN w.breakpoints
      PROVE /\ w.breakpoints[b].bindings \in Maps(PhysicalKey, BindingStates)
            /\ DOMAIN w.breakpoints[b].bindings \subseteq PhysicalKey
            /\ IsFiniteSet(DOMAIN w.breakpoints[b].bindings)
  <2>1. w.breakpoints[b].bindings \in Maps(PhysicalKey, BindingStates)
    BY StateTyped, BreakpointFields
  <2> QED BY <2>1, MapsHave
<1> QED BY <1>2, <1>3, <1>4

\* v is w with key p of the physical breakpoints set to x.
HasKey(v, w, p, x) ==
  /\ IsState(v) /\ States(v) = States(w)
  /\ v.breakpoints = w.breakpoints /\ v.pending = w.pending /\ v.out = w.out
  /\ SameButBindings(v, w)
  /\ DOMAIN v.physical = DOMAIN w.physical \cup {p} /\ v.physical[p] = x
  /\ \A q \in DOMAIN w.physical : q # p => v.physical[q] = w.physical[q]

\* v is w with the breakpoints `owners` bound at p.
HasBindings(v, w, owners, p, k) ==
  /\ IsState(v) /\ States(v) = States(w)
  /\ DOMAIN v.breakpoints = DOMAIN w.breakpoints
  /\ v.physical = w.physical /\ v.pending = w.pending /\ v.out = w.out
  /\ SameButBindings(v, w)
  /\ \A b \in DOMAIN w.breakpoints \ owners : v.breakpoints[b] = w.breakpoints[b]
  /\ \A b \in DOMAIN w.breakpoints \cap owners :
       LET now == v.breakpoints[b].bindings
           before == w.breakpoints[b].bindings
       IN /\ DOMAIN now = DOMAIN before \cup {p} /\ now[p] = k
          /\ \A q \in DOMAIN before : q # p => now[q] = before[q]

\* One key of the map of physical breakpoints is set.
LEMMA KeySet ==
  ASSUME NEW w, IsState(w), NEW p \in KeysOver(DOMAIN w.scripts),
         NEW x \in PhysicalOver(DOMAIN w.breakpoints),
         NEW v, v = [w EXCEPT !.physical = With(w.physical, p, x)]
  PROVE  HasKey(v, w, p, x)
<1> DEFINE f == w.physical
           R == PhysicalOver(DOMAIN w.breakpoints)
           D == DOMAIN w.scripts
           y == With(f, p, x)
<1>1. f \in Maps(KeysOver(D), R) /\ x \in R
  BY StateFields DEF IsState, States
<1>2. /\ y \in Maps(KeysOver(D), R)
      /\ DOMAIN y = DOMAIN f \cup {p} /\ y[p] = x
      /\ \A q \in DOMAIN f : q # p => y[q] = f[q]
  <2> HIDE DEF f, R
  <2>1. y \in Maps(KeysOver(D), R)
    BY <1>1, MapsWith
  <2> QED BY <2>1 DEF With
<1>7. v = [w EXCEPT !.physical = y]
  BY DEF IsState, States, StatesOver
<1> HIDE DEF y
<1>3. v \in States(w)
  BY <1>2, <1>7, PhysicalSet DEF IsState, States
<1>4. /\ v.physical = y /\ v.breakpoints = w.breakpoints /\ v.scripts = w.scripts
      /\ v.pending = w.pending /\ v.out = w.out /\ v.phase = w.phase /\ v.epoch = w.epoch
      /\ v.nextEpoch = w.nextEpoch /\ v.pause = w.pause /\ v.waiting = w.waiting
  BY <1>7 DEF IsState, States, StatesOver
<1>5. IsState(v) /\ States(v) = States(w)
  BY <1>3, <1>4 DEF IsState, States
<1>6. SameButBindings(v, w)
  BY <1>4 DEF SameButBindings, SameSpecification
<1> QED BY <1>2, <1>4, <1>5, <1>6 DEF HasKey

\* The breakpoints `owners` are bound at p.
LEMMA BindingsSet ==
  ASSUME NEW w, IsState(w), NEW owners, NEW p \in PhysicalKey, NEW k \in BindingStates,
         NEW v, v = SetBindings(w, owners, p, k)
  PROVE  HasBindings(v, w, owners, p, k)
<1> DEFINE B == DOMAIN w.breakpoints
           D == DOMAIN w.scripts
           set(x) == [x EXCEPT !.bindings = With(@, p, k)]
           y == [b \in B |-> IF b \in owners THEN set(w.breakpoints[b]) ELSE w.breakpoints[b]]
<1>1. ASSUME NEW b \in B
      PROVE  LET x == w.breakpoints[b]
             IN /\ set(x) \in BreakpointOver(D)
                /\ set(x).generation = x.generation /\ set(x).source = x.source
                /\ set(x).condition = x.condition /\ set(x).index = x.index
                /\ set(x).friendly = x.friendly /\ set(x).mappings = x.mappings
                /\ set(x).assessments = x.assessments
                /\ DOMAIN set(x).bindings = DOMAIN x.bindings \cup {p}
                /\ set(x).bindings[p] = k
                /\ \A q \in DOMAIN x.bindings : q # p => set(x).bindings[q] = x.bindings[q]
  <2> DEFINE x == w.breakpoints[b]
             f == x.bindings
             z == With(f, p, k)
  <2>1. x \in BreakpointOver(D) /\ f \in Maps(PhysicalKey, BindingStates)
    BY StateTyped, PhysicalTyped
  <2>2. /\ z \in Maps(PhysicalKey, BindingStates)
        /\ DOMAIN z = DOMAIN f \cup {p} /\ z[p] = k
        /\ \A q \in DOMAIN f : q # p => z[q] = f[q]
    <3> HIDE DEF f
    <3>1. z \in Maps(PhysicalKey, BindingStates)
      BY <2>1, MapsWith
    <3> QED BY <3>1 DEF With
  <2>3. set(x) = [x EXCEPT !.bindings = z]
    BY <2>1 DEF BreakpointOver
  <2> HIDE DEF z, x
  <2>4. [x EXCEPT !.bindings = z] \in BreakpointOver(D)
    BY <2>1, <2>2 DEF BreakpointOver
  <2>5. LET u == [x EXCEPT !.bindings = z]
        IN /\ u.generation = x.generation /\ u.source = x.source
           /\ u.condition = x.condition /\ u.index = x.index
           /\ u.friendly = x.friendly /\ u.mappings = x.mappings
           /\ u.assessments = x.assessments /\ u.bindings = z
    BY <2>1 DEF BreakpointOver
  <2>6. set(x).bindings = z
    BY <2>3, <2>5
  <2> HIDE DEF set
  <2> QED BY <2>2, <2>3, <2>4, <2>5, <2>6 DEF x
<1>5. v = [w EXCEPT !.breakpoints = y]
  BY DEF SetBindings
<1> HIDE DEF set
<1>2. y \in [B -> BreakpointOver(D)]
  BY <1>1, StateTyped
<1>3. v \in States(w)
  <2> HIDE DEF y
  <2> QED BY <1>2, <1>5, BreakpointsSet DEF IsState, States
<1>4. /\ v.breakpoints = y /\ v.physical = w.physical /\ v.scripts = w.scripts
      /\ v.pending = w.pending /\ v.out = w.out /\ v.phase = w.phase /\ v.epoch = w.epoch
      /\ v.nextEpoch = w.nextEpoch /\ v.pause = w.pause /\ v.waiting = w.waiting
  BY <1>5 DEF IsState, States, StatesOver
<1>6. IsState(v) /\ States(v) = States(w) /\ DOMAIN v.breakpoints = B
  BY <1>3, <1>4 DEF IsState, States
<1>7. SameButBindings(v, w)
  <2> SUFFICES ASSUME NEW b \in B
               PROVE  /\ SameSpecification(v, w, b)
                      /\ v.breakpoints[b].index = w.breakpoints[b].index
                      /\ v.breakpoints[b].friendly = w.breakpoints[b].friendly
                      /\ v.breakpoints[b].mappings = w.breakpoints[b].mappings
                      /\ v.breakpoints[b].assessments = w.breakpoints[b].assessments
    BY <1>4 DEF SameButBindings
  <2> QED BY <1>1, <1>4 DEF SameSpecification
<1>8. /\ \A b \in B \ owners : v.breakpoints[b] = w.breakpoints[b]
      /\ \A b \in B \cap owners : v.breakpoints[b] = set(w.breakpoints[b])
  BY <1>4
<1> HIDE DEF y
<1> QED BY <1>1, <1>4, <1>6, <1>7, <1>8 DEF HasBindings

Holds(w, b, p) ==
  /\ p \in DOMAIN w.physical
  /\ b \in w.physical[p].owners /\ w.physical[p].status = "installed"

\* Neither the effects Q nor the ones emitted are about p.
NoEffectOn(w, Q, p) ==
  /\ \A e \in Q : IsPhysicalEffect(e) => e.physical # p
  /\ \A i \in DOMAIN w.out : IsPhysicalEffect(w.out[i]) => w.out[i].physical # p

\* No effect that is owed is about an installed or an unknown breakpoint.
LEMMA NoEffectsOn ==
  ASSUME NEW w, NEW Q, Owed(w, Q), NEW p,
         p \in DOMAIN w.physical => w.physical[p].status = "installed"
  PROVE  NoEffectOn(w, Q, p)
<1>1. ASSUME NEW e, Fits(w, e) PROVE e.physical # p
  BY <1>1 DEF Fits
<1> QED BY <1>1 DEF NoEffectOn, Owed

\* The effects that are owed stay owed while the keys they are about keep their
\* status.
LEMMA OwedStays ==
  ASSUME NEW w, NEW v, NEW Q, Owed(w, Q), v.out = w.out, w.pending \subseteq v.pending,
         NEW p, NoEffectOn(w, Q, p),
         \A q \in DOMAIN w.physical : q # p =>
            q \in DOMAIN v.physical /\ v.physical[q].status = w.physical[q].status
  PROVE  Owed(v, Q) /\ NoEffectOn(v, Q, p)
<1>1. ASSUME NEW e, Fits(w, e), e.physical # p PROVE Fits(v, e)
  BY <1>1 DEF Fits
<1>2. \A e \in Q : IsPhysicalEffect(e) => Fits(v, e)
  BY <1>1 DEF Owed, NoEffectOn
<1>3. ASSUME NEW i \in DOMAIN v.out, IsPhysicalEffect(v.out[i])
      PROVE /\ Fits(v, v.out[i]) /\ v.out[i] \notin Q
            /\ \A j \in DOMAIN v.out : v.out[j] = v.out[i] => j = i
  BY <1>1, <1>3 DEF Owed, NoEffectOn
<1> QED BY <1>2, <1>3 DEF Owed, NoEffectOn

\* The effects that are owed stay owed while no key changes its status.
LEMMA OwedKept ==
  ASSUME NEW w, NEW v, NEW Q, Owed(w, Q), v.out = w.out, w.pending \subseteq v.pending,
         \A q \in DOMAIN w.physical :
            q \in DOMAIN v.physical /\ v.physical[q].status = w.physical[q].status
  PROVE  Owed(v, Q)
<1>1. ASSUME NEW e, Fits(w, e) PROVE Fits(v, e)
  BY <1>1 DEF Fits
<1>2. \A e \in Q : IsPhysicalEffect(e) => Fits(v, e)
  BY <1>1 DEF Owed
<1>3. ASSUME NEW i \in DOMAIN v.out, IsPhysicalEffect(v.out[i])
      PROVE /\ Fits(v, v.out[i]) /\ v.out[i] \notin Q
            /\ \A j \in DOMAIN v.out : v.out[j] = v.out[i] => j = i
  BY <1>1, <1>3 DEF Owed
<1> QED BY <1>2, <1>3 DEF Owed

\* v is w with effect e emitted.
HasEmitted(v, w, e) ==
  /\ IsState(v) /\ States(v) = States(w)
  /\ v.breakpoints = w.breakpoints /\ v.physical = w.physical
  /\ SameButBindings(v, w)
  /\ v.pending = w.pending \cup {e} /\ v.out = Append(w.out, e)

\* What emitting an effect changes (Emit).
LEMMA EmitIs ==
  ASSUME NEW w, IsState(w), NEW e \in Effects
  PROVE  HasEmitted(Emit(w, e), w, e)
<1> DEFINE v == Emit(w, e)
<1>1. w.pending \cup {e} \in SUBSET Effects /\ Append(w.out, e) \in Seq(Effects)
  BY StateTyped
<1>2. v \in States(w)
  BY <1>1, EffectsSet DEF IsState, States, Emit
<1>3. /\ v.physical = w.physical /\ v.breakpoints = w.breakpoints /\ v.scripts = w.scripts
      /\ v.phase = w.phase /\ v.epoch = w.epoch
      /\ v.nextEpoch = w.nextEpoch /\ v.pause = w.pause /\ v.waiting = w.waiting
      /\ v.pending = w.pending \cup {e} /\ v.out = Append(w.out, e)
  BY DEF IsState, States, StatesOver, Emit
<1> HIDE DEF v
<1>4. IsState(v) /\ States(v) = States(w)
  BY <1>2, <1>3 DEF IsState, States
<1>5. SameButBindings(v, w)
  BY <1>3 DEF SameButBindings, SameSpecification
<1> QED BY <1>3, <1>4, <1>5 DEF v, HasEmitted

\* An effect that fits and is about a key no other effect is about may be
\* emitted.
LEMMA OwedEmits ==
  ASSUME NEW w, IsState(w), NEW Q, Owed(w, Q), NEW e \in Effects,
         NoEffectOn(w, Q, e.physical), IsPhysicalEffect(e),
         e.physical \in DOMAIN w.physical,
         w.physical[e.physical].status = IF e.kind = "install" THEN "installing" ELSE "removing"
  PROVE  Owed(Emit(w, e), Q)
<1> DEFINE v == Emit(w, e)
<1>1. /\ v.physical = w.physical /\ v.pending = w.pending \cup {e}
      /\ v.out = Append(w.out, e) /\ w.out \in Seq(Effects)
  BY EmitIs, StateTyped DEF HasEmitted
<1> HIDE DEF v
<1>2. /\ DOMAIN v.out = DOMAIN w.out \cup {Len(w.out) + 1}
      /\ Len(w.out) + 1 \notin DOMAIN w.out
      /\ v.out[Len(w.out) + 1] = e
      /\ \A i \in DOMAIN w.out : v.out[i] = w.out[i]
  BY <1>1
<1>3. ASSUME NEW f, Fits(w, f) PROVE Fits(v, f)
  BY <1>1, <1>3 DEF Fits
<1>4. Fits(v, e)
  BY <1>1 DEF Fits
<1>5. \A f \in Q : IsPhysicalEffect(f) => Fits(v, f)
  BY <1>3 DEF Owed
<1>6. ASSUME NEW i \in DOMAIN v.out, IsPhysicalEffect(v.out[i])
      PROVE /\ Fits(v, v.out[i]) /\ v.out[i] \notin Q
            /\ \A j \in DOMAIN v.out : v.out[j] = v.out[i] => j = i
  <2>1. CASE i = Len(w.out) + 1
    <3>1. v.out[i] = e
      BY <1>2, <2>1
    <3>2. e \notin Q
      BY DEF NoEffectOn
    <3>3. ASSUME NEW j \in DOMAIN w.out PROVE w.out[j] # e
      BY DEF NoEffectOn
    <3> QED BY <1>2, <1>4, <2>1, <3>1, <3>2, <3>3
  <2>2. CASE i \in DOMAIN w.out
    <3>1. v.out[i] = w.out[i]
      BY <1>2, <2>2
    <3>2. w.out[i] # e
      BY <1>6, <2>2, <3>1 DEF NoEffectOn
    <3>3. Fits(v, v.out[i]) /\ v.out[i] \notin Q
      BY <1>3, <1>6, <2>2, <3>1 DEF Owed
    <3>4. ASSUME NEW j \in DOMAIN v.out, v.out[j] = v.out[i] PROVE j = i
      <4>1. j \in DOMAIN w.out /\ w.out[j] = w.out[i]
        BY <1>2, <3>1, <3>2, <3>4
      <4> QED BY <1>6, <2>2, <3>1, <4>1 DEF Owed
    <3> QED BY <3>3, <3>4
  <2> QED BY <1>2, <2>1, <2>2
<1>7. Owed(v, Q)
  BY <1>5, <1>6 DEF Owed
<1> QED BY <1>7 DEF v

\* What is pending in v and not in w is about physical breakpoints.
AddsPhysical(v, w) == \A e \in v.pending : IsPhysicalEffect(e) \/ e \in w.pending

\* The breakpoints other than b are bound where they were.
OthersBound(v, w, b) ==
  \A c \in DOMAIN w.breakpoints \ {b} :
     DOMAIN v.breakpoints[c].bindings = DOMAIN w.breakpoints[c].bindings

\* What binding and releasing may do to the physical breakpoints.
Rebinds(v, w, Q) ==
  /\ IsState(v) /\ States(v) = States(w)
  /\ DOMAIN v.breakpoints = DOMAIN w.breakpoints
  /\ SameButBindings(v, w) /\ Consistent(v, Q)
  /\ w.pending \subseteq v.pending /\ AddsPhysical(v, w)
  /\ DOMAIN w.physical \subseteq DOMAIN v.physical
  /\ \A p \in DOMAIN v.physical : v.physical[p].status = "installed" =>
        p \in DOMAIN w.physical /\ w.physical[p].status = "installed"

\* Two steps that change bindings only are one such step.
LEMMA SameButBindingsTransitive ==
  ASSUME NEW w, NEW v, NEW u, SameButBindings(v, w), SameButBindings(u, v),
         DOMAIN v.breakpoints = DOMAIN w.breakpoints
  PROVE  SameButBindings(u, w)
BY DEF SameButBindings, SameSpecification

\* Two steps that rebind are one such step.
LEMMA RebindsTransitive ==
  ASSUME NEW w, NEW v, NEW u, NEW Q, Rebinds(v, w, Q), Rebinds(u, v, Q)
  PROVE  Rebinds(u, w, Q)
<1>1. SameButBindings(u, w)
  BY SameButBindingsTransitive DEF Rebinds
<1>2. AddsPhysical(u, w)
  BY DEF Rebinds, AddsPhysical
<1> QED BY <1>1, <1>2 DEF Rebinds

\* Doing nothing rebinds nothing.
LEMMA RebindsReflexive ==
  ASSUME NEW w, NEW Q, IsState(w), Consistent(w, Q)
  PROVE  Rebinds(w, w, Q)
BY DEF Rebinds, SameButBindings, SameSpecification, AddsPhysical

\* The binding that shows a status (BindingFor).
LEMMA BindingForTyped ==
  /\ BindingFor("installing") = "pendingInstall" /\ BindingFor("installed") = "installed"
  /\ BindingFor("removing") = "waitingForRemoval"
  /\ \A k \in {"installing", "installed", "removing"} : BindingFor(k) \in BindingStates
BY DEF BindingFor, BindingStates

\* A breakpoint that is bound owns the key, and nobody loses what it has.
LEMMA BindPhysicalBinds ==
  ASSUME NEW w, IsState(w), NEW Q, Consistent(w, Q), NEW b \in DOMAIN w.breakpoints,
         NEW p \in KeysOver(DOMAIN w.scripts)
  PROVE  LET v == BindPhysical(w, b, p)
         IN /\ Rebinds(v, w, Q)
            /\ p \in DOMAIN v.breakpoints[b].bindings /\ OthersBound(v, w, b)
            /\ \A c \in DOMAIN w.breakpoints :
                 DOMAIN w.breakpoints[c].bindings \subseteq DOMAIN v.breakpoints[c].bindings
            /\ \A c \in DOMAIN w.breakpoints, q \in PhysicalKey : Holds(w, c, q) => Holds(v, c, q)
<1>1. CASE p \in DOMAIN w.physical
  <2> DEFINE k == w.physical[p].status
             x == [owners |-> w.physical[p].owners \cup {b}, status |-> k]
             u == [w EXCEPT !.physical = With(@, p, x)]
             v == SetBindings(u, {b}, p, BindingFor(k))
  <2>1. /\ w.physical[p].owners \in SUBSET DOMAIN w.breakpoints
        /\ k \in {"installing", "installed", "removing"}
    BY <1>1, PhysicalTyped
  <2>2. x \in PhysicalOver(DOMAIN w.breakpoints) /\ x.status = k
        /\ x.owners = w.physical[p].owners \cup {b}
    BY <2>1 DEF PhysicalOver
  <2> HIDE DEF x
  <2>3. HasKey(u, w, p, x)
    BY <2>2, KeySet
  <2>4. u = [w EXCEPT !.physical[p].owners = @ \cup {b}]
    <3>1. w.physical = [q \in DOMAIN w.physical |-> w.physical[q]]
          /\ w.physical[p] = [owners |-> w.physical[p].owners, status |-> k]
      BY <1>1, PhysicalTyped
    <3>2. With(w.physical, p, x) = [w.physical EXCEPT ![p].owners = @ \cup {b}]
      BY <1>1, <3>1 DEF With, x
    <3> QED BY <3>2 DEF IsState, States, StatesOver
  <2>5. BindPhysical(w, b, p) = v
    BY <1>1, <2>1, <2>4 DEF BindPhysical
  <2> HIDE DEF u
  <2>6. BindingFor(k) \in BindingStates
    BY <2>1, BindingForTyped
  <2> HIDE DEF k
  <2>7. HasBindings(v, u, {b}, p, BindingFor(k))
    BY <2>3, <2>6, BindingsSet DEF HasKey, KeysOver
  <2> HIDE DEF v
  <2>8. SameButBindings(v, w)
    BY <2>3, <2>7, SameButBindingsTransitive DEF HasKey, HasBindings, HasEmitted
  <2>9. Bound(v)
    <3> SUFFICES ASSUME NEW c \in DOMAIN w.breakpoints, NEW q \in PhysicalKey
                 PROVE  BoundAt(v, c, q)
      BY <2>3, <2>7 DEF Bound, HasKey, HasBindings, HasEmitted
    <3>1. BoundAt(w, c, q)
      BY DEF Consistent, Bound
    <3>2. CASE q # p
      BY <2>3, <2>7, <3>1, <3>2 DEF BoundAt, HasKey, HasBindings, HasEmitted
    <3>3. CASE q = p /\ c # b
      BY <1>1, <2>2, <2>3, <2>7, <3>1, <3>3 DEF BoundAt, k, HasKey, HasBindings, HasEmitted
    <3>4. CASE q = p /\ c = b
      BY <1>1, <2>2, <2>3, <2>7, <3>4 DEF BoundAt, HasKey, HasBindings, HasEmitted
    <3> QED BY <3>2, <3>3, <3>4
  <2>10. Asked(v)
    <3> SUFFICES ASSUME NEW q \in DOMAIN v.physical PROVE AskedAt(v, q)
      BY DEF Asked
    <3>1. q \in DOMAIN w.physical /\ AskedAt(w, q)
      BY <1>1, <2>3, <2>7 DEF Consistent, Asked, HasKey, HasBindings, HasEmitted
    <3>2. CASE q # p
      BY <2>3, <2>7, <3>1, <3>2 DEF AskedAt, HasKey, HasBindings, HasEmitted
    <3>3. CASE q = p
      BY <2>2, <2>3, <2>7, <3>1, <3>3 DEF AskedAt, k, HasKey, HasBindings, HasEmitted
    <3> QED BY <3>2, <3>3
  <2>11. Owed(v, Q)
    <3>1. \A q \in DOMAIN w.physical :
            q \in DOMAIN v.physical /\ v.physical[q].status = w.physical[q].status
      BY <2>2, <2>3, <2>7 DEF k, HasKey, HasBindings, HasEmitted
    <3>2. v.out = w.out /\ w.pending \subseteq v.pending /\ Owed(w, Q)
      BY <2>3, <2>7 DEF Consistent, HasKey, HasBindings, HasEmitted
    <3> QED BY <3>1, <3>2, OwedKept
  <2>12. Rebinds(v, w, Q)
    <3>1. \A q \in DOMAIN v.physical : v.physical[q].status = "installed" =>
             q \in DOMAIN w.physical /\ w.physical[q].status = "installed"
      BY <1>1, <2>2, <2>3, <2>7 DEF k, HasKey, HasBindings, HasEmitted
    <3> QED BY <2>3, <2>7, <2>8, <2>9, <2>10, <2>11, <3>1
               DEF Rebinds, Consistent, HasKey, HasBindings, HasEmitted, AddsPhysical
  <2>13. \A c \in DOMAIN w.breakpoints, q \in PhysicalKey : Holds(w, c, q) => Holds(v, c, q)
    BY <2>2, <2>3, <2>7 DEF Holds, k, HasKey, HasBindings, HasEmitted
  <2>14. /\ p \in DOMAIN v.breakpoints[b].bindings /\ OthersBound(v, w, b)
         /\ \A c \in DOMAIN w.breakpoints :
              DOMAIN w.breakpoints[c].bindings \subseteq DOMAIN v.breakpoints[c].bindings
    BY <2>3, <2>7 DEF HasKey, HasBindings, HasEmitted, OthersBound
  <2> QED BY <2>5, <2>12, <2>13, <2>14
<1>2. CASE p \notin DOMAIN w.physical
  <2> DEFINE x == [owners |-> {b}, status |-> "installing"]
             u == [w EXCEPT !.physical = With(@, p, x)]
             t == SetBindings(u, {b}, p, "pendingInstall")
             e == InstallEffect(p)
             v == Emit(t, e)
  <2>2. x \in PhysicalOver(DOMAIN w.breakpoints) /\ x.status = "installing" /\ x.owners = {b}
    BY DEF PhysicalOver
  <2> HIDE DEF x
  <2>3. HasKey(u, w, p, x)
    BY <2>2, KeySet
  <2>4. u = [u EXCEPT !.physical[p].status = "installing"] /\ u.physical[p].owners = {b}
    <3>1. [u.physical EXCEPT ![p].status = "installing"] = u.physical
      <4>1. [x EXCEPT !.status = "installing"] = x
        BY DEF x
      <4>2. u.physical = [q \in DOMAIN u.physical |-> u.physical[q]]
        BY <2>3, PhysicalTyped DEF HasKey, HasBindings, HasEmitted
      <4> HIDE DEF u
      <4> QED BY <2>3, <4>1, <4>2 DEF HasKey, HasBindings, HasEmitted
    <3> HIDE DEF u
    <3> QED BY <2>2, <2>3, <3>1
               DEF IsState, States, StatesOver, HasKey, HasBindings, HasEmitted
  <2>5. BindPhysical(w, b, p) = v
    <3>1. BindPhysical(w, b, p) = SchedulePhysicalInstall(u, p)
      BY <1>2 DEF BindPhysical, x
    <3> HIDE DEF u
    <3> QED BY <2>4, <3>1 DEF SchedulePhysicalInstall
  <2> HIDE DEF u
  <2>6. HasBindings(t, u, {b}, p, "pendingInstall")
    BY <2>3, BindingsSet, BindingForTyped DEF HasKey, KeysOver
  <2> HIDE DEF t
  <2>7. e \in Effects /\ IsPhysicalEffect(e) /\ e.physical = p /\ e.kind = "install"
    BY EffectKinds DEF InstallEffect, IsPhysicalEffect, KeysOver
  <2>8. HasEmitted(v, t, e)
    BY <2>6, <2>7, EmitIs DEF HasBindings
  <2>9. Owed(v, Q)
    <3>1. NoEffectOn(w, Q, p)
      BY <1>2, NoEffectsOn DEF Consistent
    <3>2. Owed(t, Q) /\ NoEffectOn(t, Q, p)
      <4>1. /\ t.out = w.out /\ w.pending \subseteq t.pending /\ Owed(w, Q)
            /\ \A q \in DOMAIN w.physical : q # p =>
                 q \in DOMAIN t.physical /\ t.physical[q].status = w.physical[q].status
        BY <2>3, <2>6 DEF Consistent, HasKey, HasBindings, HasEmitted
      <4> QED BY <3>1, <4>1, OwedStays
    <3> QED BY <2>2, <2>3, <2>6, <2>7, <3>2, OwedEmits DEF HasKey, HasBindings, HasEmitted
  <2> HIDE DEF e, v
  <2>10. SameButBindings(v, w)
    BY <2>3, <2>6, <2>8, SameButBindingsTransitive DEF HasKey, HasBindings, HasEmitted
  <2>11. Bound(v)
    <3> SUFFICES ASSUME NEW c \in DOMAIN w.breakpoints, NEW q \in PhysicalKey
                 PROVE  BoundAt(v, c, q)
      BY <2>3, <2>6, <2>8 DEF Bound, HasKey, HasBindings, HasEmitted
    <3>1. BoundAt(w, c, q)
      BY DEF Consistent, Bound
    <3>2. CASE q # p
      BY <2>3, <2>6, <2>8, <3>1, <3>2 DEF BoundAt, HasKey, HasBindings, HasEmitted
    <3>3. CASE q = p /\ c # b
      BY <1>2, <2>2, <2>3, <2>6, <2>8, <3>1, <3>3 DEF BoundAt, HasKey, HasBindings, HasEmitted
    <3>4. CASE q = p /\ c = b
      BY <1>2, <2>2, <2>3, <2>6, <2>8, <3>4, BindingForTyped
         DEF BoundAt, HasKey, HasBindings, HasEmitted
    <3> QED BY <3>2, <3>3, <3>4
  <2>12. Asked(v)
    <3> SUFFICES ASSUME NEW q \in DOMAIN v.physical PROVE AskedAt(v, q)
      BY DEF Asked
    <3>2. CASE q # p
      <4>1. q \in DOMAIN w.physical /\ AskedAt(w, q)
        BY <2>3, <2>6, <2>8, <3>2 DEF Consistent, Asked, HasKey, HasBindings, HasEmitted
      <4> QED BY <2>3, <2>6, <2>8, <3>2, <4>1 DEF AskedAt, HasKey, HasBindings, HasEmitted
    <3>3. CASE q = p
      BY <2>2, <2>3, <2>6, <2>8, <3>3 DEF AskedAt, e, HasKey, HasBindings, HasEmitted
    <3> QED BY <3>2, <3>3
  <2>13. Rebinds(v, w, Q)
    <3>1. \A q \in DOMAIN v.physical : v.physical[q].status = "installed" =>
             q \in DOMAIN w.physical /\ w.physical[q].status = "installed"
      BY <2>2, <2>3, <2>6, <2>8 DEF HasKey, HasBindings, HasEmitted
    <3>2. /\ w.pending \subseteq v.pending /\ AddsPhysical(v, w)
          /\ DOMAIN w.physical \subseteq DOMAIN v.physical
      BY <2>3, <2>6, <2>7, <2>8 DEF HasKey, HasBindings, HasEmitted, AddsPhysical
    <3> QED BY <2>3, <2>6, <2>8, <2>9, <2>10, <2>11, <2>12, <3>1, <3>2
               DEF Rebinds, Consistent, HasKey, HasBindings, HasEmitted
  <2>14. \A c \in DOMAIN w.breakpoints, q \in PhysicalKey : Holds(w, c, q) => Holds(v, c, q)
    BY <1>2, <2>3, <2>6, <2>8 DEF Holds, HasKey, HasBindings, HasEmitted
  <2>15. /\ p \in DOMAIN v.breakpoints[b].bindings /\ OthersBound(v, w, b)
         /\ \A c \in DOMAIN w.breakpoints :
              DOMAIN w.breakpoints[c].bindings \subseteq DOMAIN v.breakpoints[c].bindings
    BY <2>3, <2>6, <2>8 DEF HasKey, HasBindings, HasEmitted, OthersBound
  <2> QED BY <2>5, <2>13, <2>14, <2>15
<1> QED BY <1>1, <1>2

\* v is w with O the owners of physical breakpoint p, and with the browser asked
\* to remove p if it is installed and has no owner left.
HasOwners(v, w, p, O, Q) ==
  /\ IsState(v) /\ States(v) = States(w)
  /\ v.breakpoints = w.breakpoints /\ SameButBindings(v, w)
  /\ w.pending \subseteq v.pending /\ AddsPhysical(v, w) /\ Asked(v) /\ Owed(v, Q)
  /\ DOMAIN v.physical = DOMAIN w.physical
  /\ v.physical[p].owners = O
  /\ \/ v.physical[p].status = w.physical[p].status
     \/ O = {} /\ w.physical[p].status = "installed" /\ v.physical[p].status = "removing"
  /\ \A q \in DOMAIN w.physical : q # p => v.physical[q] = w.physical[q]

\* A field of one key of the map of physical breakpoints is set.
LEMMA OneKey ==
  ASSUME NEW w, IsState(w), NEW p \in DOMAIN w.physical,
         NEW O \in SUBSET DOMAIN w.breakpoints,
         NEW k \in {"installing", "installed", "removing"}
  PROVE  /\ HasKey([w EXCEPT !.physical[p].owners = O], w, p,
                   [owners |-> O, status |-> w.physical[p].status])
         /\ HasKey([w EXCEPT !.physical[p].status = k], w, p,
                   [owners |-> w.physical[p].owners, status |-> k])
<1> DEFINE x == [owners |-> O, status |-> w.physical[p].status]
           y == [owners |-> w.physical[p].owners, status |-> k]
           f == w.physical
<1>1. /\ w.physical = [q \in DOMAIN w.physical |-> w.physical[q]]
      /\ w.physical[p] = [owners |-> w.physical[p].owners, status |-> w.physical[p].status]
      /\ w.physical[p].owners \in SUBSET DOMAIN w.breakpoints
      /\ w.physical[p].status \in {"installing", "installed", "removing"}
      /\ p \in KeysOver(DOMAIN w.scripts)
  BY PhysicalTyped
<1>2. x \in PhysicalOver(DOMAIN w.breakpoints) /\ y \in PhysicalOver(DOMAIN w.breakpoints)
  BY <1>1 DEF PhysicalOver
<1>3. With(w.physical, p, x) = [w.physical EXCEPT ![p].owners = O]
  BY <1>1 DEF With
<1>4. With(w.physical, p, y) = [w.physical EXCEPT ![p].status = k]
  BY <1>1 DEF With
<1>5. [w EXCEPT !.physical[p].owners = O] = [w EXCEPT !.physical = With(w.physical, p, x)]
  BY <1>3 DEF IsState, States, StatesOver
<1>6. [w EXCEPT !.physical[p].status = k] = [w EXCEPT !.physical = With(w.physical, p, y)]
  BY <1>4 DEF IsState, States, StatesOver
<1> HIDE DEF x, y
<1>7. HasKey([w EXCEPT !.physical = With(w.physical, p, x)], w, p, x)
  BY <1>1, <1>2, KeySet
<1>8. HasKey([w EXCEPT !.physical = With(w.physical, p, y)], w, p, y)
  BY <1>1, <1>2, KeySet
<1> QED BY <1>5, <1>6, <1>7, <1>8 DEF x, y

\* What scheduling a removal changes (SchedulePhysicalRemoval).
LEMMA RemovalIs ==
  ASSUME NEW w, IsState(w), NEW p \in DOMAIN w.physical, NEW Q, Owed(w, Q),
         NoEffectOn(w, Q, p)
  PROVE  LET v == SchedulePhysicalRemoval(w, p)
         IN /\ IsState(v) /\ States(v) = States(w)
            /\ v.breakpoints = w.breakpoints /\ SameButBindings(v, w)
            /\ v.pending = w.pending \cup {RemoveEffect(p)} /\ Owed(v, Q)
            /\ DOMAIN v.physical = DOMAIN w.physical
            /\ v.physical[p].owners = w.physical[p].owners
            /\ v.physical[p].status = "removing"
            /\ \A q \in DOMAIN w.physical : q # p => v.physical[q] = w.physical[q]
<1> DEFINE u == [w EXCEPT !.physical[p].status = "removing"]
           x == [owners |-> w.physical[p].owners, status |-> "removing"]
           e == RemoveEffect(p)
           v == Emit(u, e)
<1>1. HasKey(u, w, p, x)
  <2>1. w.physical[p].owners \in SUBSET DOMAIN w.breakpoints
    BY PhysicalTyped
  <2> QED BY <2>1, OneKey
<1>2. x.owners = w.physical[p].owners /\ x.status = "removing"
  OBVIOUS
<1> HIDE DEF u, x
<1>3. p \in PhysicalKey
  BY PhysicalTyped
<1>4. e \in Effects /\ IsPhysicalEffect(e) /\ e.physical = p /\ e.kind = "remove"
  BY <1>3, EffectKinds DEF RemoveEffect, IsPhysicalEffect
<1>5. HasEmitted(v, u, e)
  BY <1>1, <1>4, EmitIs DEF HasKey
<1>6. Owed(v, Q)
  <2>1. Owed(u, Q) /\ NoEffectOn(u, Q, p)
    <3>1. /\ u.out = w.out /\ w.pending \subseteq u.pending
          /\ \A q \in DOMAIN w.physical : q # p =>
               q \in DOMAIN u.physical /\ u.physical[q].status = w.physical[q].status
      BY <1>1 DEF HasKey
    <3> QED BY <3>1, OwedStays
  <2> QED BY <1>1, <1>2, <1>4, <2>1, OwedEmits DEF HasKey
<1>7. SchedulePhysicalRemoval(w, p) = v
  BY DEF SchedulePhysicalRemoval, u
<1> HIDE DEF v, e
<1>8. SameButBindings(v, w)
  BY <1>1, <1>5, SameButBindingsTransitive DEF HasKey, HasEmitted
<1>9. /\ v.pending = w.pending \cup {e} /\ IsState(v) /\ States(v) = States(w)
      /\ v.breakpoints = w.breakpoints
      /\ DOMAIN v.physical = DOMAIN w.physical
      /\ v.physical[p].owners = w.physical[p].owners
      /\ v.physical[p].status = "removing"
      /\ \A q \in DOMAIN w.physical : q # p => v.physical[q] = w.physical[q]
  BY <1>1, <1>2, <1>5 DEF HasKey, HasEmitted
<1> QED BY <1>6, <1>7, <1>8, <1>9 DEF e

\* What becomes of a physical breakpoint that loses owners.
LEMMA DropUnownedKeeps ==
  ASSUME NEW w, IsState(w), NEW Q, Asked(w), Owed(w, Q), NEW p \in DOMAIN w.physical,
         NEW O \in SUBSET w.physical[p].owners
  PROVE  HasOwners(DropUnowned([w EXCEPT !.physical[p].owners = O], p), w, p, O, Q)
<1> DEFINE u == [w EXCEPT !.physical[p].owners = O]
           k == w.physical[p].status
           x == [owners |-> O, status |-> k]
           v == DropUnowned(u, p)
<1>1. O \in SUBSET DOMAIN w.breakpoints /\ k \in {"installing", "installed", "removing"}
  BY PhysicalTyped
<1>2. HasKey(u, w, p, x)
  BY <1>1, OneKey
<1>3. x.owners = O /\ x.status = k
  OBVIOUS
<1> HIDE DEF u, x
<1>4. Owed(u, Q)
  <2>1. /\ u.out = w.out /\ w.pending \subseteq u.pending
        /\ \A q \in DOMAIN w.physical :
             q \in DOMAIN u.physical /\ u.physical[q].status = w.physical[q].status
    BY <1>2, <1>3 DEF HasKey, k
  <2> QED BY <2>1, OwedKept
<1>5. ASSUME NEW q \in DOMAIN w.physical, q # p PROVE AskedAt(u, q)
  BY <1>2, <1>5 DEF HasKey, Asked, AskedAt
<1>6. CASE O # {} \/ k # "installed"
  <2>1. v = u
    BY <1>1, <1>2, <1>3, <1>6 DEF DropUnowned, HasKey
  <2>2. AskedAt(u, p)
    BY <1>2, <1>3, <1>6 DEF HasKey, Asked, AskedAt
  <2>3. Asked(u)
    BY <1>2, <1>5, <2>2 DEF Asked, HasKey
  <2> HIDE DEF v
  <2> QED BY <1>2, <1>3, <1>4, <2>1, <2>3 DEF HasOwners, HasKey, AddsPhysical, v, u
<1>7. CASE O = {} /\ k = "installed"
  <2>1. u.physical[p].owners = {} /\ u.physical[p].status = "installed"
        /\ p \in DOMAIN u.physical /\ IsState(u)
    BY <1>2, <1>3, <1>7 DEF HasKey
  <2>2. v = SchedulePhysicalRemoval(u, p)
    BY <2>1 DEF DropUnowned
  <2>3. NoEffectOn(u, Q, p)
    BY <1>4, <2>1, NoEffectsOn
  <2> HIDE DEF v
  <2>4. /\ IsState(v) /\ States(v) = States(u)
        /\ v.breakpoints = u.breakpoints /\ SameButBindings(v, u)
        /\ v.pending = u.pending \cup {RemoveEffect(p)} /\ Owed(v, Q)
        /\ DOMAIN v.physical = DOMAIN u.physical
        /\ v.physical[p].owners = u.physical[p].owners
        /\ v.physical[p].status = "removing"
        /\ \A q \in DOMAIN u.physical : q # p => v.physical[q] = u.physical[q]
    BY <1>4, <2>1, <2>2, <2>3, RemovalIs
  <2>5. Asked(v)
    <3> SUFFICES ASSUME NEW q \in DOMAIN v.physical PROVE AskedAt(v, q)
      BY DEF Asked
    <3>1. CASE q = p
      BY <2>4, <3>1 DEF AskedAt
    <3>2. CASE q # p
      BY <1>2, <1>5, <2>4, <3>2 DEF AskedAt, HasKey
    <3> QED BY <3>1, <3>2
  <2>6. SameButBindings(v, w)
    BY <1>2, <2>4, SameButBindingsTransitive DEF HasKey
  <2>7. AddsPhysical(v, w)
    BY <1>2, <2>4 DEF AddsPhysical, HasKey, IsPhysicalEffect, RemoveEffect
  <2>8. HasOwners(v, w, p, O, Q)
    BY <1>2, <1>3, <1>7, <2>1, <2>4, <2>5, <2>6, <2>7 DEF HasOwners, HasKey, k
  <2> QED BY <2>8 DEF v, u
<1> QED BY <1>6, <1>7

\* v is w without the bindings K of breakpoint b.
HasLost(v, w, b, K) ==
  /\ IsState(v) /\ States(v) = States(w)
  /\ DOMAIN v.breakpoints = DOMAIN w.breakpoints
  /\ v.physical = w.physical /\ v.pending = w.pending /\ v.out = w.out
  /\ SameButBindings(v, w)
  /\ \A c \in DOMAIN w.breakpoints : c # b => v.breakpoints[c] = w.breakpoints[c]
  /\ v.breakpoints[b].bindings = Without(w.breakpoints[b].bindings, K)

\* What losing some bindings changes.
LEMMA BindingsLost ==
  ASSUME NEW w, IsState(w), NEW b \in DOMAIN w.breakpoints, NEW K
  PROVE  HasLost([w EXCEPT !.breakpoints[b].bindings = Without(@, K)], w, b, K)
<1> DEFINE D == DOMAIN w.scripts
           x == w.breakpoints[b]
           z == Without(x.bindings, K)
           y == [x EXCEPT !.bindings = z]
           g == [w.breakpoints EXCEPT ![b] = y]
           v == [w EXCEPT !.breakpoints[b].bindings = Without(@, K)]
<1>1. /\ x \in BreakpointOver(D) /\ x.bindings \in Maps(PhysicalKey, BindingStates)
      /\ w.breakpoints \in [DOMAIN w.breakpoints -> BreakpointOver(D)]
  BY StateTyped, PhysicalTyped, StateFields DEF IsState, States
<1>2. z \in Maps(PhysicalKey, BindingStates)
  <2> HIDE DEF x
  <2> QED BY <1>1, MapsWithout
<1>3. v = [w EXCEPT !.breakpoints = g]
  BY <1>1 DEF IsState, States, StatesOver
<1> HIDE DEF z
<1>4. /\ y \in BreakpointOver(D)
      /\ y.generation = x.generation /\ y.source = x.source
      /\ y.condition = x.condition /\ y.index = x.index
      /\ y.friendly = x.friendly /\ y.mappings = x.mappings
      /\ y.assessments = x.assessments /\ y.bindings = z
  <2>1. y \in BreakpointOver(D)
    BY <1>1, <1>2 DEF BreakpointOver
  <2> QED BY <1>1, <2>1 DEF BreakpointOver
<1> HIDE DEF y
<1>5. /\ g \in [DOMAIN w.breakpoints -> BreakpointOver(D)] /\ g[b] = y
      /\ \A c \in DOMAIN w.breakpoints : c # b => g[c] = w.breakpoints[c]
  BY <1>1, <1>4
<1> HIDE DEF g
<1>6. v \in States(w)
  BY <1>3, <1>5, BreakpointsSet DEF IsState, States
<1>7. /\ v.breakpoints = g /\ v.physical = w.physical /\ v.scripts = w.scripts
      /\ v.pending = w.pending /\ v.out = w.out /\ v.phase = w.phase /\ v.epoch = w.epoch
      /\ v.nextEpoch = w.nextEpoch /\ v.pause = w.pause /\ v.waiting = w.waiting
  BY <1>3 DEF IsState, States, StatesOver
<1> HIDE DEF v
<1>8. IsState(v) /\ States(v) = States(w) /\ DOMAIN v.breakpoints = DOMAIN w.breakpoints
  BY <1>5, <1>6, <1>7 DEF IsState, States
<1>9. SameButBindings(v, w)
  <2> SUFFICES ASSUME NEW c \in DOMAIN w.breakpoints
               PROVE  /\ SameSpecification(v, w, c)
                      /\ v.breakpoints[c].index = w.breakpoints[c].index
                      /\ v.breakpoints[c].friendly = w.breakpoints[c].friendly
                      /\ v.breakpoints[c].mappings = w.breakpoints[c].mappings
                      /\ v.breakpoints[c].assessments = w.breakpoints[c].assessments
    BY <1>7 DEF SameButBindings
  <2>1. CASE c = b
    BY <1>4, <1>5, <1>7, <2>1 DEF SameSpecification
  <2>2. CASE c # b
    BY <1>5, <1>7, <2>2 DEF SameSpecification
  <2> QED BY <2>1, <2>2
<1>10. HasLost(v, w, b, K)
  BY <1>4, <1>5, <1>7, <1>8, <1>9 DEF HasLost, z, x
<1> QED BY <1>10 DEF v

\* A breakpoint that is released at p no longer owns it, and nobody else loses
\* anything.
LEMMA ReleasePhysicalBindingReleases ==
  ASSUME NEW w, IsState(w), NEW Q, Consistent(w, Q), NEW b \in DOMAIN w.breakpoints,
         NEW p \in DOMAIN w.breakpoints[b].bindings
  PROVE  LET v == ReleasePhysicalBinding(w, b, p)
         IN /\ Rebinds(v, w, Q)
            /\ DOMAIN v.breakpoints[b].bindings = DOMAIN w.breakpoints[b].bindings \ {p}
            /\ OthersBound(v, w, b)
            /\ \A c \in DOMAIN w.breakpoints, q \in PhysicalKey :
                  (c # b \/ q # p) /\ Holds(w, c, q) => Holds(v, c, q)
<1> DEFINE u == [w EXCEPT !.breakpoints[b].bindings = Without(@, {p})]
           O == w.physical[p].owners \ {b}
           v == DropUnowned([u EXCEPT !.physical[p].owners = @ \ {b}], p)
<1>1. /\ p \in PhysicalKey /\ p \in DOMAIN w.physical /\ b \in w.physical[p].owners
      /\ w.physical[p].owners \in SUBSET DOMAIN w.breakpoints
  BY PhysicalTyped DEF Consistent, Bound, BoundAt
<1>2. HasLost(u, w, b, {p})
  BY BindingsLost
<1>3. ReleasePhysicalBinding(w, b, p) = v
  BY <1>1 DEF ReleasePhysicalBinding
<1> HIDE DEF u
<1>4. v = DropUnowned([u EXCEPT !.physical[p].owners = O], p)
  <2>1. u.physical = w.physical
    BY <1>2 DEF HasLost
  <2> QED BY <2>1
<1> HIDE DEF v, O
<1>5. HasOwners(v, u, p, O, Q)
  <2>1. Asked(u) /\ Owed(u, Q)
    <3>1. u.physical = w.physical /\ u.pending = w.pending /\ u.out = w.out
      BY <1>2 DEF HasLost
    <3>2. \A e : Fits(u, e) <=> Fits(w, e)
      BY <3>1 DEF Fits
    <3> QED BY <3>1, <3>2 DEF Consistent, Asked, AskedAt, Owed
  <2>2. O \in SUBSET u.physical[p].owners /\ p \in DOMAIN u.physical /\ IsState(u)
    BY <1>1, <1>2 DEF HasLost, O
  <2> QED BY <1>4, <2>1, <2>2, DropUnownedKeeps
<1>6. SameButBindings(v, w)
  BY <1>2, <1>5, SameButBindingsTransitive DEF HasLost, HasOwners
<1>7. /\ DOMAIN v.breakpoints[b].bindings = DOMAIN w.breakpoints[b].bindings \ {p}
      /\ \A q \in DOMAIN w.breakpoints[b].bindings \ {p} :
            v.breakpoints[b].bindings[q] = w.breakpoints[b].bindings[q]
  BY <1>2, <1>5 DEF HasLost, HasOwners, Without
<1>8. Bound(v)
  <2> SUFFICES ASSUME NEW c \in DOMAIN w.breakpoints, NEW q \in PhysicalKey
               PROVE  BoundAt(v, c, q)
    BY <1>2, <1>5 DEF Bound, HasLost, HasOwners
  <2>1. BoundAt(w, c, q)
    BY DEF Consistent, Bound
  <2>2. CASE c = b /\ q = p
    BY <1>1, <1>2, <1>5, <1>7, <2>2 DEF BoundAt, HasLost, HasOwners, O
  <2>3. CASE c # b /\ q = p
    BY <1>1, <1>2, <1>5, <2>1, <2>3 DEF BoundAt, HasLost, HasOwners, O
  <2>4. CASE c = b /\ q # p
    BY <1>2, <1>5, <1>7, <2>1, <2>4 DEF BoundAt, HasLost, HasOwners
  <2>5. CASE c # b /\ q # p
    BY <1>2, <1>5, <2>1, <2>5 DEF BoundAt, HasLost, HasOwners
  <2> QED BY <2>2, <2>3, <2>4, <2>5
<1>9. Rebinds(v, w, Q)
  <2>1. \A q \in DOMAIN v.physical : v.physical[q].status = "installed" =>
           q \in DOMAIN w.physical /\ w.physical[q].status = "installed"
    BY <1>2, <1>5 DEF HasLost, HasOwners
  <2> QED BY <1>2, <1>5, <1>6, <1>8, <2>1
             DEF Rebinds, Consistent, HasLost, HasOwners, AddsPhysical
<1>10. ASSUME NEW c \in DOMAIN w.breakpoints, NEW q \in PhysicalKey, c # b \/ q # p,
              Holds(w, c, q)
       PROVE Holds(v, c, q)
  <2>1. CASE q # p
    BY <1>2, <1>5, <1>10, <2>1 DEF Holds, HasLost, HasOwners
  <2>2. CASE q = p
    BY <1>1, <1>2, <1>5, <1>10, <2>2 DEF Holds, HasLost, HasOwners, O
  <2> QED BY <2>1, <2>2
<1>11. OthersBound(v, w, b)
  BY <1>2, <1>5 DEF OthersBound, HasLost, HasOwners
<1> QED BY <1>3, <1>7, <1>9, <1>10, <1>11

-----------------------------------------------------------------------------
(***************************************************************************)
(* Reconciliation.                                                         *)
(***************************************************************************)
\* The image of a finite set is finite.
LEMMA ImageFinite ==
  ASSUME NEW S, IsFiniteSet(S), NEW f, f = [x \in S |-> f[x]]
  PROVE  IsFiniteSet({f[x] : x \in S})
<1> DEFINE T == {f[x] : x \in S}
<1>1. f \in Surjection(S, T)
  BY DEF Surjection
<1> HIDE DEF T
<1> QED BY <1>1, FS_Surjection DEF T

\* The keys a breakpoint belongs at are finitely many.
LEMMA DesiredTyped ==
  ASSUME NEW w, IsState(w), NEW b \in DOMAIN w.breakpoints
  PROVE  Desired(w, b) \in SUBSET KeysOver(DOMAIN w.scripts) /\ IsFiniteSet(Desired(w, b))
<1> DEFINE bp == w.breakpoints[b]
           current(s) == /\ bp.assessments[s].status = "applicable"
                         /\ s \in DOMAIN w.scripts
                         /\ w.scripts[s].version = bp.assessments[s].version
           S == {s \in DOMAIN bp.assessments : current(s)}
           key(s, q) == [script |-> s, version |-> bp.assessments[s].version,
                         position |-> q, condition |-> bp.condition]
           f == [s \in S |-> {key(s, q) : q \in bp.assessments[s].positions}]
<1>1. Desired(w, b) = UNION {f[s] : s \in S}
  <2>1. Desired(w, b) = UNION {{key(s, q) : q \in bp.assessments[s].positions} : s \in S}
    BY DEF Desired
  <2> HIDE DEF S, key
  <2>2. {f[s] : s \in S} = {{key(s, q) : q \in bp.assessments[s].positions} : s \in S}
    OBVIOUS
  <2> QED BY <2>1, <2>2
<1>2. /\ bp.assessments \in Maps(DOMAIN w.scripts, AssessmentState) /\ bp.condition \in Conditions
      /\ DOMAIN w.scripts \subseteq Scripts
  BY StateTyped, BreakpointFields
<1>3. /\ IsFiniteSet(S) /\ S \subseteq Scripts
      /\ \A s \in S : bp.assessments[s] \in AssessmentState
  <2>1. /\ IsFiniteSet(DOMAIN bp.assessments) /\ DOMAIN bp.assessments \subseteq Scripts
        /\ \A s \in DOMAIN bp.assessments : bp.assessments[s] \in AssessmentState
    <3> HIDE DEF bp
    <3> QED BY <1>2, MapsHave
  <2>2. S \subseteq DOMAIN bp.assessments
    OBVIOUS
  <2> HIDE DEF S
  <2> QED BY <2>1, <2>2, FS_Subset
<1>4. ASSUME NEW s \in S
      PROVE  IsFiniteSet(f[s]) /\ f[s] \subseteq KeysOver(DOMAIN w.scripts)
  <2> DEFINE P == bp.assessments[s].positions
             g == [q \in P |-> key(s, q)]
  <2>1. P \in SUBSET Positions /\ IsFiniteSet(P) /\ bp.assessments[s].version \in Nat
    BY <1>3 DEF AssessmentState
  <2>2. f[s] = {g[q] : q \in P}
    OBVIOUS
  <2>3. IsFiniteSet({g[q] : q \in P})
    <3>1. g = [q \in P |-> g[q]]
      OBVIOUS
    <3> HIDE DEF g, P
    <3> QED BY <2>1, <3>1, ImageFinite
  <2>4. \A q \in P : key(s, q) \in KeysOver(DOMAIN w.scripts)
    <3>1. s \in Scripts /\ s \in DOMAIN w.scripts
      BY <1>3
    <3> QED BY <1>2, <2>1, <3>1 DEF PhysicalKey, KeysOver
  <2>5. f[s] \subseteq KeysOver(DOMAIN w.scripts)
    BY <2>4
  <2> HIDE DEF f, g
  <2> QED BY <2>2, <2>3, <2>5
<1>5. IsFiniteSet({f[s] : s \in S})
  <2>1. f = [s \in S |-> f[s]]
    OBVIOUS
  <2> HIDE DEF f, S
  <2> QED BY <1>3, <2>1, ImageFinite
<1> HIDE DEF f, S
<1>6. IsFiniteSet(UNION {f[s] : s \in S})
  BY <1>4, <1>5, FS_UNION
<1> QED BY <1>1, <1>4, <1>6

\* Where a breakpoint belongs and what is undecided of it depends on the scripts'
\* versions and on its assessments.
LEMMA DesiredSame ==
  ASSUME NEW w, NEW v, NEW b, DOMAIN v.scripts = DOMAIN w.scripts, SameVersions(v, w),
         v.breakpoints[b].assessments = w.breakpoints[b].assessments,
         v.breakpoints[b].condition = w.breakpoints[b].condition
  PROVE  Desired(v, b) = Desired(w, b)
<1> DEFINE A == w.breakpoints[b].assessments
           key(s, q) == [script |-> s, version |-> A[s].version,
                         position |-> q, condition |-> w.breakpoints[b].condition]
           keys(S) == UNION {{key(s, q) : q \in A[s].positions} : s \in S}
           S == {s \in DOMAIN A : /\ A[s].status = "applicable"
                                  /\ s \in DOMAIN w.scripts
                                  /\ w.scripts[s].version = A[s].version}
           R == {s \in DOMAIN A : /\ A[s].status = "applicable"
                                  /\ s \in DOMAIN v.scripts
                                  /\ v.scripts[s].version = A[s].version}
<1>1. S = R
  BY DEF SameVersions
<1>2. Desired(w, b) = keys(S)
  BY DEF Desired
<1>3. Desired(v, b) = keys(R)
  BY DEF Desired
<1> HIDE DEF S, R
<1> QED BY <1>1, <1>2, <1>3

\* Nothing that v has is lost in u.
KeepsAll(u, v) ==
  \A c \in DOMAIN v.breakpoints, q \in PhysicalKey : Holds(v, c, q) => Holds(u, c, q)

\* u is v with breakpoint b bound at T as well.
Binds(u, v, Q, b, T) ==
  /\ Rebinds(u, v, Q) /\ KeepsAll(u, v) /\ OthersBound(u, v, b)
  /\ DOMAIN v.breakpoints[b].bindings \cup T \subseteq DOMAIN u.breakpoints[b].bindings

BindAll(w, b, S) == OverKeys(LAMBDA v, p : BindPhysical(v, b, p), w, S)

ReleaseAll(w, b, S) == OverKeys(LAMBDA v, p : ReleasePhysicalBinding(v, b, p), w, S)

\* The keys at which breakpoint b is to be bound.
LEMMA BindLoop ==
  ASSUME NEW w, IsState(w), NEW Q, Consistent(w, Q), NEW b \in DOMAIN w.breakpoints,
         NEW S \in SUBSET KeysOver(DOMAIN w.scripts), IsFiniteSet(S)
  PROVE  Binds(BindAll(w, b, S), w, Q, b, S)
<1> DEFINE op(v, p) == BindPhysical(v, b, p)
           last == [T \in (SUBSET S) \ {{}} |-> LastKey(T)]
           U == States(w)
           W == [T \in SUBSET S |-> {v \in U : Binds(v, w, Q, b, T)}]
           step == [p \in S |-> [v \in U |-> op(v, p)]]
           rhs(g) == [T \in SUBSET S |->
                        IF T = {} THEN w ELSE op(g[T \ {LastKey(T)}], LastKey(T))]
           table == CHOOSE g : g = rhs(g)
<1>a. S \in SUBSET PhysicalKey /\ IsFiniteSet(S)
  BY DEF KeysOver
<1>1. \A T \in (SUBSET S) \ {{}} : last[T] = LastKey(T) /\ last[T] \in T
  BY LastKeyExists, <1>a
<1>2. ASSUME NEW T \in SUBSET S, NEW p \in T, NEW v \in W[T \ {p}]
      PROVE  op(v, p) \in W[T]
  <2> DEFINE u == BindPhysical(v, b, p)
  <2>1. Binds(v, w, Q, b, T \ {p})
    OBVIOUS
  <2>2. /\ IsState(v) /\ Consistent(v, Q) /\ b \in DOMAIN v.breakpoints
        /\ DOMAIN v.breakpoints = DOMAIN w.breakpoints
        /\ p \in KeysOver(DOMAIN v.scripts)
    BY <2>1 DEF Binds, Rebinds, SameButBindings
  <2>3. /\ Rebinds(u, v, Q)
        /\ p \in DOMAIN u.breakpoints[b].bindings /\ OthersBound(u, v, b)
        /\ \A c \in DOMAIN v.breakpoints :
             DOMAIN v.breakpoints[c].bindings \subseteq DOMAIN u.breakpoints[c].bindings
        /\ \A c \in DOMAIN v.breakpoints, q \in PhysicalKey : Holds(v, c, q) => Holds(u, c, q)
    BY <2>2, BindPhysicalBinds
  <2> HIDE DEF u
  <2>4. Rebinds(u, w, Q)
    BY <2>1, <2>3, RebindsTransitive DEF Binds
  <2>5. Binds(u, w, Q, b, T)
    BY <2>1, <2>2, <2>3, <2>4 DEF Binds, KeepsAll, OthersBound
  <2>6. u \in U
    BY <2>4 DEF Rebinds, IsState
  <2>7. u \in W[T]
    BY <2>5, <2>6
  <2> QED BY <2>7 DEF u
<1>3. w \in W[{}]
  <2>1. Binds(w, w, Q, b, {}) /\ w \in U
    BY RebindsReflexive DEF Binds, KeepsAll, OthersBound, IsState
  <2> QED BY <2>1
<1>4. \A T \in SUBSET S : W[T] \subseteq U
  OBVIOUS
<1> HIDE DEF W, U
<1>5. PICK f : IsTable(f, S, w, last, step) /\ \A T \in SUBSET S : f[T] \in W[T]
  <2>1. ASSUME NEW T \in (SUBSET S) \ {{}}, NEW v \in W[T \ {last[T]}]
        PROVE  step[last[T]][v] \in W[T]
    <3>1. last[T] \in T /\ last[T] \in S /\ T \ {last[T]} \in SUBSET S
      BY <1>1
    <3>2. v \in U
      BY <1>4, <3>1
    <3> HIDE DEF last, op
    <3>3. step[last[T]][v] = op(v, last[T])
      BY <3>1, <3>2
    <3> HIDE DEF step
    <3> QED BY <1>2, <3>1, <3>3
  <2> HIDE DEF last, step
  <2> QED BY <1>1, <1>3, <1>a, <2>1, LoopStays
<1>6. f = rhs(f)
  <2>1. ASSUME NEW T \in SUBSET S, T # {}
        PROVE  f[T] = op(f[T \ {LastKey(T)}], LastKey(T))
    <3>1. /\ last[T] \in T /\ last[T] = LastKey(T) /\ last[T] \in S
          /\ T \ {last[T]} \in SUBSET S
      BY <1>1, <2>1
    <3>2. f[T \ {last[T]}] \in U
      BY <1>4, <1>5, <3>1
    <3> HIDE DEF last, op
    <3>3. f[T] = step[last[T]][f[T \ {last[T]}]]
      <4> HIDE DEF step
      <4> QED BY <1>5, <2>1 DEF IsTable
    <3> QED BY <3>1, <3>2, <3>3
  <2> HIDE DEF op, step, last
  <2> QED BY <1>5, <2>1 DEF IsTable
<1>7. table = rhs(table)
  <2> HIDE DEF rhs
  <2> QED BY <1>6
<1>8. table[S] \in W[S]
  <2> HIDE DEF table, op
  <2>1. table[{}] \in W[{}]
    BY <1>3, <1>7
  <2>2. ASSUME NEW T \in (SUBSET S) \ {{}}, table[T \ {last[T]}] \in W[T \ {last[T]}]
        PROVE  table[T] \in W[T]
    <3>1. last[T] \in T /\ last[T] = LastKey(T)
      BY <1>1
    <3>2. table[T] = op(table[T \ {last[T]}], last[T])
      BY <1>7, <3>1
    <3> HIDE DEF last, rhs
    <3> QED BY <1>2, <2>2, <3>1, <3>2
  <2> HIDE DEF last, rhs
  <2> QED BY <1>1, <1>a, <2>1, <2>2, LoopEnds
<1>9. BindAll(w, b, S) = table[S]
  BY DEF BindAll, InOrder, OverKeys, OneByOne
<1> HIDE DEF table
<1> QED BY <1>8, <1>9 DEF W

\* u is v with breakpoint b released at T.
Releases(u, v, Q, b, T) ==
  /\ Rebinds(u, v, Q) /\ OthersBound(u, v, b)
  /\ DOMAIN u.breakpoints[b].bindings = DOMAIN v.breakpoints[b].bindings \ T
  /\ \A c \in DOMAIN v.breakpoints, q \in PhysicalKey :
        (c # b \/ q \notin T) /\ Holds(v, c, q) => Holds(u, c, q)

\* The keys at which breakpoint b is to be released.
LEMMA ReleaseLoop ==
  ASSUME NEW w, IsState(w), NEW Q, Consistent(w, Q), NEW b \in DOMAIN w.breakpoints,
         NEW S \in SUBSET DOMAIN w.breakpoints[b].bindings
  PROVE  Releases(ReleaseAll(w, b, S), w, Q, b, S)
<1> DEFINE op(v, p) == ReleasePhysicalBinding(v, b, p)
           last == [T \in (SUBSET S) \ {{}} |-> LastKey(T)]
           U == States(w)
           W == [T \in SUBSET S |-> {v \in U : Releases(v, w, Q, b, T)}]
           step == [p \in S |-> [v \in U |-> op(v, p)]]
           rhs(g) == [T \in SUBSET S |->
                        IF T = {} THEN w ELSE op(g[T \ {LastKey(T)}], LastKey(T))]
           table == CHOOSE g : g = rhs(g)
<1>a. S \in SUBSET PhysicalKey /\ IsFiniteSet(S)
  BY PhysicalTyped, FS_Subset
<1>1. \A T \in (SUBSET S) \ {{}} : last[T] = LastKey(T) /\ last[T] \in T
  BY LastKeyExists, <1>a
<1>2. ASSUME NEW T \in SUBSET S, NEW p \in T, NEW v \in W[T \ {p}]
      PROVE  op(v, p) \in W[T]
  <2> DEFINE u == ReleasePhysicalBinding(v, b, p)
  <2>1. Releases(v, w, Q, b, T \ {p})
    OBVIOUS
  <2>2. /\ IsState(v) /\ Consistent(v, Q) /\ b \in DOMAIN v.breakpoints
        /\ DOMAIN v.breakpoints = DOMAIN w.breakpoints
        /\ p \in DOMAIN v.breakpoints[b].bindings
    BY <2>1 DEF Releases, Rebinds
  <2>3. /\ Rebinds(u, v, Q)
        /\ DOMAIN u.breakpoints[b].bindings = DOMAIN v.breakpoints[b].bindings \ {p}
        /\ OthersBound(u, v, b)
        /\ \A c \in DOMAIN v.breakpoints, q \in PhysicalKey :
              (c # b \/ q # p) /\ Holds(v, c, q) => Holds(u, c, q)
    BY <2>2, ReleasePhysicalBindingReleases
  <2> HIDE DEF u
  <2>4. Rebinds(u, w, Q)
    BY <2>1, <2>3, RebindsTransitive DEF Releases
  <2>5. Releases(u, w, Q, b, T)
    <3>1. DOMAIN u.breakpoints[b].bindings = DOMAIN w.breakpoints[b].bindings \ T
      BY <2>1, <2>3 DEF Releases
    <3>2. \A c \in DOMAIN w.breakpoints, q \in PhysicalKey :
            (c # b \/ q \notin T) /\ Holds(w, c, q) => Holds(u, c, q)
      BY <2>1, <2>2, <2>3 DEF Releases
    <3>3. OthersBound(u, w, b)
      BY <2>1, <2>2, <2>3 DEF Releases, OthersBound
    <3> QED BY <2>4, <3>1, <3>2, <3>3 DEF Releases
  <2>6. u \in U
    BY <2>4 DEF Rebinds, IsState
  <2>7. u \in W[T]
    BY <2>5, <2>6
  <2> QED BY <2>7 DEF u
<1>3. w \in W[{}]
  <2>1. Releases(w, w, Q, b, {}) /\ w \in U
    BY RebindsReflexive DEF Releases, OthersBound, IsState
  <2> QED BY <2>1
<1>4. \A T \in SUBSET S : W[T] \subseteq U
  OBVIOUS
<1> HIDE DEF W, U
<1>5. PICK f : IsTable(f, S, w, last, step) /\ \A T \in SUBSET S : f[T] \in W[T]
  <2>1. ASSUME NEW T \in (SUBSET S) \ {{}}, NEW v \in W[T \ {last[T]}]
        PROVE  step[last[T]][v] \in W[T]
    <3>1. last[T] \in T /\ last[T] \in S /\ T \ {last[T]} \in SUBSET S
      BY <1>1
    <3>2. v \in U
      BY <1>4, <3>1
    <3> HIDE DEF last, op
    <3>3. step[last[T]][v] = op(v, last[T])
      BY <3>1, <3>2
    <3> HIDE DEF step
    <3> QED BY <1>2, <3>1, <3>3
  <2> HIDE DEF last, step
  <2> QED BY <1>1, <1>3, <1>a, <2>1, LoopStays
<1>6. f = rhs(f)
  <2>1. ASSUME NEW T \in SUBSET S, T # {}
        PROVE  f[T] = op(f[T \ {LastKey(T)}], LastKey(T))
    <3>1. /\ last[T] \in T /\ last[T] = LastKey(T) /\ last[T] \in S
          /\ T \ {last[T]} \in SUBSET S
      BY <1>1, <2>1
    <3>2. f[T \ {last[T]}] \in U
      BY <1>4, <1>5, <3>1
    <3> HIDE DEF last, op
    <3>3. f[T] = step[last[T]][f[T \ {last[T]}]]
      <4> HIDE DEF step
      <4> QED BY <1>5, <2>1 DEF IsTable
    <3> QED BY <3>1, <3>2, <3>3
  <2> HIDE DEF op, step, last
  <2> QED BY <1>5, <2>1 DEF IsTable
<1>7. table = rhs(table)
  <2> HIDE DEF rhs
  <2> QED BY <1>6
<1>8. table[S] \in W[S]
  <2> HIDE DEF table, op
  <2>1. table[{}] \in W[{}]
    BY <1>3, <1>7
  <2>2. ASSUME NEW T \in (SUBSET S) \ {{}}, table[T \ {last[T]}] \in W[T \ {last[T]}]
        PROVE  table[T] \in W[T]
    <3>1. last[T] \in T /\ last[T] = LastKey(T)
      BY <1>1
    <3>2. table[T] = op(table[T \ {last[T]}], last[T])
      BY <1>7, <3>1
    <3> HIDE DEF last, rhs
    <3> QED BY <1>2, <2>2, <3>1, <3>2
  <2> HIDE DEF last, rhs
  <2> QED BY <1>1, <1>a, <2>1, <2>2, LoopEnds
<1>9. ReleaseAll(w, b, S) = table[S]
  BY DEF ReleaseAll, InOrder, OverKeys, OneByOne
<1> HIDE DEF table
<1> QED BY <1>8, <1>9 DEF W

Decided(w, b) ==
  \A s \in DOMAIN w.breakpoints[b].assessments :
     w.breakpoints[b].assessments[s].status \notin {"waiting", "mapping"}

\* What the reconciliation of breakpoint b with the physical breakpoints does: it
\* binds b wherever it belongs, and either nothing it had is lost, or nothing of
\* b is undecided and it has exactly what it belongs to, installed.
Settled(v, w, Q, b) ==
  /\ Rebinds(v, w, Q) /\ OthersBound(v, w, b)
  /\ Desired(w, b) \subseteq DOMAIN v.breakpoints[b].bindings
  /\ \A c \in DOMAIN w.breakpoints \ {b}, q \in PhysicalKey : Holds(w, c, q) => Holds(v, c, q)
  /\ \/ KeepsAll(v, w)
     \/ /\ Decided(w, b) /\ DOMAIN v.breakpoints[b].bindings = Desired(w, b)
        /\ \A q \in Desired(w, b) : Holds(v, b, q)
  /\ Decided(w, b) /\ (\A q \in Desired(w, b) : IsInstalled(v, q)) =>
        DOMAIN v.breakpoints[b].bindings = Desired(w, b)

\* The reconciliation of one breakpoint's bindings: it is bound wherever it belongs,
\* the others keep what they hold, and either it keeps what it holds as well or it
\* is decided and holds exactly where it belongs (ReconcilePhysicalBindings).
LEMMA ReconcilePhysicalBindingsSettles ==
  ASSUME NEW w, IsState(w), NEW Q, Consistent(w, Q), NEW b \in DOMAIN w.breakpoints
  PROVE  Settled(ReconcilePhysicalBindings(w, b), w, Q, b)
<1> DEFINE desired == Desired(w, b)
           missing == desired \ DOMAIN w.breakpoints[b].bindings
           u == BindAll(w, b, missing)
           stale == DOMAIN u.breakpoints[b].bindings \ desired
           v == ReleaseAll(u, b, stale)
<1>1. ReconcilePhysicalBindings(w, b) = IF MayReleaseStale(u, b) THEN v ELSE u
  BY DEF ReconcilePhysicalBindings, BindAll, ReleaseAll, OverKeys, OneByOne
<1>2. desired \in SUBSET KeysOver(DOMAIN w.scripts) /\ IsFiniteSet(desired)
  BY DesiredTyped
<1> HIDE DEF desired
<1>3. missing \in SUBSET KeysOver(DOMAIN w.scripts) /\ IsFiniteSet(missing)
  BY <1>2, FS_Subset
<1>4. Binds(u, w, Q, b, missing)
  <2> HIDE DEF missing
  <2> QED BY <1>3, BindLoop
<1> HIDE DEF u
<1>5. /\ IsState(u) /\ Consistent(u, Q) /\ b \in DOMAIN u.breakpoints
      /\ DOMAIN u.breakpoints = DOMAIN w.breakpoints
      /\ desired \subseteq DOMAIN u.breakpoints[b].bindings
      /\ u.breakpoints[b].assessments = w.breakpoints[b].assessments
      /\ u.scripts = w.scripts /\ SameSpecification(u, w, b)
  BY <1>4 DEF Binds, Rebinds, SameButBindings
<1>6. Desired(u, b) = desired
  <2>1. DOMAIN u.scripts = DOMAIN w.scripts /\ SameVersions(u, w)
        /\ u.breakpoints[b].condition = w.breakpoints[b].condition
    BY <1>5 DEF SameVersions, SameSpecification
  <2>2. Desired(u, b) = Desired(w, b)
    BY <1>5, <2>1, DesiredSame
  <2> QED BY <2>2 DEF desired
<1>7. MayReleaseStale(u, b) <=> Decided(w, b) /\ \A q \in desired : IsInstalled(u, q)
  BY <1>5, <1>6 DEF MayReleaseStale, Decided
<1>8. CASE ~MayReleaseStale(u, b)
  <2>1. \A c \in DOMAIN w.breakpoints \ {b}, q \in PhysicalKey : Holds(w, c, q) => Holds(u, c, q)
    BY <1>4 DEF Binds, KeepsAll
  <2>2. ~(Decided(w, b) /\ \A q \in desired : IsInstalled(u, q))
    BY <1>7, <1>8
  <2>3. Settled(u, w, Q, b)
    BY <1>4, <1>5, <2>1, <2>2 DEF Settled, Binds, desired
  <2> QED BY <1>1, <1>8, <2>3
<1>9. CASE MayReleaseStale(u, b)
  <2>1. stale \in SUBSET DOMAIN u.breakpoints[b].bindings
    OBVIOUS
  <2>2. Releases(v, u, Q, b, stale)
    <3> HIDE DEF stale
    <3> QED BY <1>5, <2>1, ReleaseLoop
  <2> HIDE DEF v
  <2>3. Rebinds(v, w, Q)
    BY <1>4, <2>2, RebindsTransitive DEF Binds, Releases
  <2>4. DOMAIN v.breakpoints[b].bindings = desired
    BY <1>5, <2>2 DEF Releases
  <2>5. \A c \in DOMAIN w.breakpoints \ {b}, q \in PhysicalKey : Holds(w, c, q) => Holds(v, c, q)
    BY <1>4, <1>5, <2>2 DEF Binds, KeepsAll, Releases
  <2>6. ASSUME NEW q \in desired PROVE Holds(v, b, q)
    <3>1. IsInstalled(u, q) /\ q \in DOMAIN u.breakpoints[b].bindings /\ q \in PhysicalKey
      BY <1>2, <1>5, <1>7, <1>9 DEF KeysOver
    <3>2. Holds(u, b, q)
      BY <1>5, <3>1 DEF Holds, IsInstalled, Consistent, Bound, BoundAt
    <3>3. q \notin stale
      OBVIOUS
    <3> QED BY <1>5, <2>2, <3>1, <3>2, <3>3 DEF Releases
  <2>7. OthersBound(v, w, b)
    BY <1>4, <1>5, <2>2 DEF Binds, Releases, OthersBound
  <2>8. Settled(v, w, Q, b)
    BY <1>7, <1>9, <2>3, <2>4, <2>5, <2>6, <2>7 DEF Settled, desired
  <2> QED BY <1>1, <1>9, <2>8
<1> QED BY <1>8, <1>9

\* Everything breakpoint c has in w, it has in v.
KeepsHeld(v, w, c) == \A q \in PhysicalKey : Holds(w, c, q) => Holds(v, c, q)

Nowhere(w, c) == Desired(w, c) = {} /\ Decided(w, c)

\* A breakpoint that has something keeps something, or belongs nowhere.
Stays(v, w, c) ==
  (\E q \in PhysicalKey : Holds(w, c, q)) =>
     (\E q \in PhysicalKey : Holds(v, c, q)) \/ Nowhere(v, c)

\* What the reconciliation of the breakpoints T keeps.
Reconciles(v, w, Q, T) ==
  /\ IsState(v) /\ States(v) = States(w)
  /\ DOMAIN v.breakpoints = DOMAIN w.breakpoints /\ DOMAIN v.scripts = DOMAIN w.scripts
  /\ SameSession(v, w) /\ SameVersions(v, w)
  /\ \A b \in DOMAIN w.breakpoints : SameSpecification(v, w, b)
  /\ Consistent(v, Q)
  /\ DOMAIN w.physical \subseteq DOMAIN v.physical
  /\ \A p \in DOMAIN v.physical : v.physical[p].status = "installed" =>
        p \in DOMAIN w.physical /\ w.physical[p].status = "installed"
  /\ \A c \in DOMAIN w.breakpoints \ T :
        KeepsHeld(v, w, c) /\ v.breakpoints[c].assessments = w.breakpoints[c].assessments
  /\ \A c \in DOMAIN w.breakpoints \cap T : Stays(v, w, c)

\* Doing nothing reconciles nothing.
LEMMA ReconcilesReflexive ==
  ASSUME NEW w, IsState(w), NEW Q, Consistent(w, Q), NEW T
  PROVE  Reconciles(w, w, Q, T)
BY DEF Reconciles, SameSession, SameVersions, SameSpecification, KeepsHeld, Stays

\* A breakpoint that belongs nowhere still does while its assessments are the same.
LEMMA NowhereStays ==
  ASSUME NEW v, NEW u, NEW c, DOMAIN u.scripts = DOMAIN v.scripts, SameVersions(u, v),
         SameSpecification(u, v, c),
         u.breakpoints[c].assessments = v.breakpoints[c].assessments, Nowhere(v, c)
  PROVE  Nowhere(u, c)
<1>1. Desired(u, c) = Desired(v, c)
  BY DesiredSame DEF SameSpecification
<1> QED BY <1>1 DEF Nowhere, Decided

\* The reconciliations of different breakpoints follow one another.
LEMMA ReconcilesTransitive ==
  ASSUME NEW w, NEW v, NEW u, NEW Q, NEW T, NEW R, T \cap R = {},
         Reconciles(v, w, Q, T), Reconciles(u, v, Q, R)
  PROVE  Reconciles(u, w, Q, T \cup R)
<1>1. SameSession(u, w) /\ SameVersions(u, w)
      /\ \A b \in DOMAIN w.breakpoints : SameSpecification(u, w, b)
  BY DEF Reconciles, SameSession, SameVersions, SameSpecification
<1>2. \A c \in DOMAIN w.breakpoints \ (T \cup R) :
        KeepsHeld(u, w, c) /\ u.breakpoints[c].assessments = w.breakpoints[c].assessments
  BY DEF Reconciles, KeepsHeld
<1>3. ASSUME NEW c \in DOMAIN w.breakpoints, c \in T \cup R PROVE Stays(u, w, c)
  <2>1. CASE c \in T
    <3>1. Stays(v, w, c) /\ KeepsHeld(u, v, c)
          /\ u.breakpoints[c].assessments = v.breakpoints[c].assessments
          /\ DOMAIN u.scripts = DOMAIN v.scripts /\ SameVersions(u, v)
          /\ SameSpecification(u, v, c)
      BY <2>1 DEF Reconciles
    <3>2. Nowhere(v, c) => Nowhere(u, c)
      BY <3>1, NowhereStays
    <3> QED BY <3>1, <3>2 DEF Stays, KeepsHeld
  <2>2. CASE c \in R
    <3>1. Stays(u, v, c) /\ KeepsHeld(v, w, c)
      BY <2>2 DEF Reconciles
    <3> QED BY <3>1 DEF Stays, KeepsHeld
  <2> QED BY <1>3, <2>1, <2>2
<1> QED BY <1>1, <1>2, <1>3 DEF Reconciles

\* The effects that are not about physical breakpoints leave what is owed.
LEMMA AssessedConsistent ==
  ASSUME NEW w, IsState(w), NEW Q, Consistent(w, Q), NEW T, NEW v \in Assessed(w, T)
  PROVE  Consistent(v, Q)
<1>1. /\ v.physical = w.physical
      /\ \A e \in w.pending : IsPhysicalEffect(e) => e \in v.pending
      /\ \A i \in DOMAIN w.out : v.out[i] = w.out[i]
      /\ \A i \in (DOMAIN v.out) \ (DOMAIN w.out) : ~IsPhysicalEffect(v.out[i])
      /\ DOMAIN v.breakpoints = DOMAIN w.breakpoints
      /\ \A b \in DOMAIN w.breakpoints : v.breakpoints[b].bindings = w.breakpoints[b].bindings
  <2>1. DOMAIN v.breakpoints = DOMAIN w.breakpoints
    BY AssessedIsState
  <2>2. LeavesPhysical(v, w) /\ Assesses(v, w, T)
    BY DEF Assessed, Assesses
  <2> QED BY <2>1, <2>2 DEF Assesses, LeavesPhysical
<1>2. Bound(v)
  BY <1>1 DEF Consistent, Bound, BoundAt
<1>3. Asked(v)
  <2>1. \A p \in DOMAIN w.physical :
          IsPhysicalEffect(InstallEffect(p)) /\ IsPhysicalEffect(RemoveEffect(p))
    BY DEF IsPhysicalEffect, InstallEffect, RemoveEffect
  <2>2. ASSUME NEW p \in DOMAIN w.physical PROVE AskedAt(v, p)
    <3>1. AskedAt(w, p)
      BY DEF Consistent, Asked
    <3>2. /\ InstallEffect(p) \in w.pending => InstallEffect(p) \in v.pending
          /\ RemoveEffect(p) \in w.pending => RemoveEffect(p) \in v.pending
      BY <1>1, <2>1
    <3>3. v.physical = w.physical
      BY <1>1
    <3> QED BY <3>1, <3>2, <3>3 DEF AskedAt
  <2>3. v.physical = w.physical
    BY <1>1
  <2> QED BY <2>2, <2>3 DEF Asked
<1>4. ASSUME NEW e, IsPhysicalEffect(e), Fits(w, e) PROVE Fits(v, e)
  BY <1>1, <1>4 DEF Fits
<1>5. DOMAIN w.out \subseteq DOMAIN v.out
  <2>1. w.out \in Seq(Effects) /\ v.out \in Seq(Effects) /\ Len(w.out) <= Len(v.out)
    <3>1. IsState(v) /\ LeavesPhysical(v, w)
      BY AssessedIsState DEF Assessed, Assesses
    <3> QED BY <3>1, StateTyped DEF LeavesPhysical
  <2> QED BY <2>1
<1>6. Owed(v, Q)
  <2>1. \A e \in Q : IsPhysicalEffect(e) => Fits(v, e)
    BY <1>4 DEF Consistent, Owed
  <2>2. ASSUME NEW i \in DOMAIN v.out, IsPhysicalEffect(v.out[i])
        PROVE  /\ Fits(v, v.out[i]) /\ v.out[i] \notin Q
               /\ \A j \in DOMAIN v.out : v.out[j] = v.out[i] => j = i
    <3>1. i \in DOMAIN w.out /\ v.out[i] = w.out[i]
      BY <1>1, <2>2
    <3>2. /\ Fits(w, w.out[i]) /\ w.out[i] \notin Q
          /\ \A j \in DOMAIN w.out : w.out[j] = w.out[i] => j = i
      BY <2>2, <3>1 DEF Consistent, Owed
    <3>3. ASSUME NEW j \in DOMAIN v.out, v.out[j] = v.out[i] PROVE j = i
      <4>1. j \in DOMAIN w.out
        BY <1>1, <2>2, <3>3
      <4> QED BY <1>1, <3>1, <3>2, <3>3, <4>1
    <3> QED BY <1>4, <2>2, <3>1, <3>2, <3>3
  <2> QED BY <2>1, <2>2 DEF Owed
<1> QED BY <1>2, <1>3, <1>6 DEF Consistent

\* A step that leaves the physical breakpoints alone keeps what a reconciliation keeps.
LEMMA AssessedReconciles ==
  ASSUME NEW w, IsState(w), NEW Q, Consistent(w, Q), NEW T, NEW v \in Assessed(w, T)
  PROVE  Reconciles(v, w, Q, T)
<1>1. Consistent(v, Q)
  BY AssessedConsistent
<1>2. /\ IsState(v) /\ States(v) = States(w)
      /\ DOMAIN v.breakpoints = DOMAIN w.breakpoints /\ DOMAIN v.scripts = DOMAIN w.scripts
  BY AssessedIsState
<1>3. /\ v.physical = w.physical /\ SameSession(v, w) /\ SameVersions(v, w)
      /\ \A b \in DOMAIN w.breakpoints :
            SameSpecification(v, w, b) /\ (b \notin T => v.breakpoints[b] = w.breakpoints[b])
  BY DEF Assessed, Assesses, LeavesPhysical
<1>4. \A c \in DOMAIN w.breakpoints : KeepsHeld(v, w, c)
  BY <1>3 DEF KeepsHeld, Holds
<1>5. \A c \in DOMAIN w.breakpoints : Stays(v, w, c)
  BY <1>4 DEF KeepsHeld, Stays
<1> QED BY <1>1, <1>2, <1>3, <1>4, <1>5 DEF Reconciles

\* Breakpoint b is assessed, and then reconciled with the physical breakpoints.
LEMMA AssessedThenReconciled ==
  ASSUME NEW w, IsState(w), NEW Q, Consistent(w, Q), NEW b \in DOMAIN w.breakpoints,
         NEW v \in Assessed(w, {b})
  PROVE  Reconciles(ReconcilePhysicalBindings(v, b), w, Q, {b})
<1> DEFINE u == ReconcilePhysicalBindings(v, b)
<1>1. Reconciles(v, w, Q, {b}) /\ v.physical = w.physical
      /\ \A c \in DOMAIN w.breakpoints : c # b => v.breakpoints[c] = w.breakpoints[c]
  BY AssessedReconciles DEF Assessed, Assesses, LeavesPhysical
<1>2. IsState(v) /\ Consistent(v, Q) /\ b \in DOMAIN v.breakpoints
  BY <1>1 DEF Reconciles
<1>3. Settled(u, v, Q, b)
  BY <1>2, ReconcilePhysicalBindingsSettles
<1> HIDE DEF u
<1>4. /\ Rebinds(u, v, Q) /\ u.scripts = v.scripts
      /\ \A c \in DOMAIN w.breakpoints : /\ SameSpecification(u, v, c)
                                         /\ u.breakpoints[c].assessments = v.breakpoints[c].assessments
  BY <1>1, <1>3 DEF Settled, Rebinds, SameButBindings, Reconciles
<1>5. SameSession(u, w)
  BY <1>1, <1>4 DEF Rebinds, SameButBindings, Reconciles, SameSession
<1>6. SameVersions(u, w) /\ \A c \in DOMAIN w.breakpoints : SameSpecification(u, w, c)
  BY <1>1, <1>4 DEF Reconciles, SameVersions, SameSpecification
<1>7. ASSUME NEW c \in DOMAIN w.breakpoints \ {b}
      PROVE  KeepsHeld(u, w, c) /\ u.breakpoints[c].assessments = w.breakpoints[c].assessments
  BY <1>1, <1>3, <1>4 DEF Settled, KeepsHeld, Reconciles, Holds
<1>8. Stays(u, w, b)
  <2>1. CASE KeepsAll(u, v)
    BY <1>1, <1>2, <2>1 DEF KeepsAll, Stays, Holds
  <2>2. CASE Decided(v, b) /\ \A q \in Desired(v, b) : Holds(u, b, q)
    <3>1. Desired(u, b) = Desired(v, b) /\ Decided(u, b)
      <4>1. DOMAIN u.scripts = DOMAIN v.scripts /\ SameVersions(u, v)
            /\ u.breakpoints[b].condition = v.breakpoints[b].condition
        BY <1>4 DEF SameVersions, SameSpecification
      <4>2. Desired(u, b) = Desired(v, b)
        BY <1>4, <4>1, DesiredSame
      <4> QED BY <1>4, <2>2, <4>2 DEF Decided
    <3>2. Desired(v, b) \subseteq PhysicalKey
      BY <1>2, DesiredTyped DEF KeysOver
    <3> QED BY <2>2, <3>1, <3>2 DEF Stays, Nowhere
  <2> QED BY <1>3, <2>1, <2>2 DEF Settled
<1>9. Reconciles(u, w, Q, {b})
  BY <1>1, <1>4, <1>5, <1>6, <1>7, <1>8 DEF Reconciles, Rebinds, SameButBindings
<1> QED BY <1>9 DEF u

ApplyAll(w, b, x, S) == InOrder(LAMBDA v, s : ApplySelection(v, b, s, x), w, S)

HydrateAll(w, S, r) == InOrder(LAMBDA v, s : ScheduleSourceHydration(v, s, r), w, S)

\* What ApplySelection keeps script by script, a loop over the scripts S keeps.
LEMMA ApplyAllStays ==
  ASSUME NEW w, NEW b, NEW x,
         NEW S \in SUBSET Scripts, IsFiniteSet(S), NEW W, w \in W[{}],
         \A T \in SUBSET S : \A s \in T : \A v \in W[T \ {s}] : ApplySelection(v, b, s, x) \in W[T]
  PROVE  ApplyAll(w, b, x, S) \in W[S]
<1> DEFINE op(v, s) == ApplySelection(v, b, s, x)
           last == [T \in (SUBSET S) \ {{}} |-> Greatest(T)]
           U == UNION {W[T] : T \in SUBSET S}
           step == [s \in S |-> [v \in U |-> op(v, s)]]
           rhs(g) == [T \in SUBSET S |->
                        IF T = {} THEN w ELSE op(g[T \ {Greatest(T)}], Greatest(T))]
           table == CHOOSE g : g = rhs(g)
<1>1. \A T \in (SUBSET S) \ {{}} : /\ last[T] = Greatest(T) /\ last[T] \in T
                                     /\ last[T] \in S /\ T \ {last[T]} \in SUBSET S
  BY GreatestExists, ReducerAssumption
<1>2. \A T \in SUBSET S : W[T] \subseteq U
  OBVIOUS
<1> HIDE DEF last, op, U
<1>3. \A T \in (SUBSET S) \ {{}} : \A v \in W[T \ {last[T]}] : op(v, last[T]) \in W[T]
  BY <1>1 DEF op
<1>4. PICK f : IsTable(f, S, w, last, step) /\ \A T \in SUBSET S : f[T] \in W[T]
  <2>1. \A T \in (SUBSET S) \ {{}} : \A v \in W[T \ {last[T]}] : step[last[T]][v] \in W[T]
    BY <1>1, <1>2, <1>3
  <2> HIDE DEF step
  <2> QED BY <1>1, <2>1, LoopStays
<1>5. f = rhs(f)
  <2>1. ASSUME NEW T \in SUBSET S, T # {}
        PROVE  f[T] = op(f[T \ {Greatest(T)}], Greatest(T))
    <3>1. f[T \ {last[T]}] \in U
      BY <1>1, <1>2, <1>4, <2>1
    <3>2. f[T] = step[last[T]][f[T \ {last[T]}]]
      <4> HIDE DEF step
      <4> QED BY <1>4, <2>1 DEF IsTable
    <3> QED BY <1>1, <2>1, <3>1, <3>2
  <2> HIDE DEF step
  <2> QED BY <1>4, <2>1 DEF IsTable
<1>6. table = rhs(table)
  <2> HIDE DEF rhs
  <2> QED BY <1>5
<1>7. ApplyAll(w, b, x, S) = table[S]
  BY DEF ApplyAll, InOrder, OneByOne, op
<1> HIDE DEF table
<1>8. table[{}] \in W[{}]
  BY <1>6
<1>9. \A T \in (SUBSET S) \ {{}} : table[T] = op(table[T \ {last[T]}], last[T])
  BY <1>1, <1>6
<1> HIDE DEF rhs
<1>10. \A T \in (SUBSET S) \ {{}} :
         table[T \ {last[T]}] \in W[T \ {last[T]}] => table[T] \in W[T]
  BY <1>3, <1>9
<1>11. table[S] \in W[S]
  BY <1>1, <1>8, <1>10, LoopEnds
<1> QED BY <1>7, <1>11

\* The loops over the scripts to which a selection is applied.
LEMMA ApplyLoop ==
  ASSUME NEW w, IsState(w), NEW b \in DOMAIN w.breakpoints, NEW S \in SUBSET DOMAIN w.scripts,
         NEW x, IsSelection(DOMAIN w.scripts, x)
  PROVE  ApplyAll(w, b, x, S) \in Assessed(w, {b})
<1> DEFINE op(v, s) == ApplySelection(v, b, s, x)
           U == Assessed(w, {b})
           W == [T \in SUBSET S |-> {v \in U : TRUE}]
<1>a. S \in SUBSET Scripts /\ IsFiniteSet(S)
  BY StateTyped, FS_Subset, ReducerAssumption
<1>2. ASSUME NEW T \in SUBSET S, NEW s \in T, NEW v \in W[T \ {s}]
      PROVE  op(v, s) \in W[T]
  <2>1. IsState(v) /\ b \in DOMAIN v.breakpoints /\ s \in DOMAIN v.scripts
        /\ IsSelection(DOMAIN v.scripts, x)
    BY AssessedIsState
  <2>2. op(v, s) \in Assessed(v, {b})
    BY <2>1, ApplySelectionAssesses
  <2> HIDE DEF op
  <2> QED BY <2>2, AssessedTransitive
<1>3. w \in W[{}]
  BY AssessedReflexive
<1>4. \A T \in SUBSET S : \A k \in T : \A v \in W[T \ {k}] : op(v, k) \in W[T]
  BY <1>2
<1>5. ApplyAll(w, b, x, S) \in W[S]
  <2> HIDE DEF W
  <2> QED BY <1>3, <1>4, <1>a, ApplyAllStays
<1> QED BY <1>5 DEF U

\* What scheduling a fetch keeps script by script, a loop over the scripts S keeps.
LEMMA HydrateAllStays ==
  ASSUME NEW w, NEW r,
         NEW S \in SUBSET Scripts, IsFiniteSet(S), NEW W, w \in W[{}],
         \A T \in SUBSET S : \A s \in T : \A v \in W[T \ {s}] : ScheduleSourceHydration(v, s, r) \in W[T]
  PROVE  HydrateAll(w, S, r) \in W[S]
<1> DEFINE op(v, s) == ScheduleSourceHydration(v, s, r)
           last == [T \in (SUBSET S) \ {{}} |-> Greatest(T)]
           U == UNION {W[T] : T \in SUBSET S}
           step == [s \in S |-> [v \in U |-> op(v, s)]]
           rhs(g) == [T \in SUBSET S |->
                        IF T = {} THEN w ELSE op(g[T \ {Greatest(T)}], Greatest(T))]
           table == CHOOSE g : g = rhs(g)
<1>1. \A T \in (SUBSET S) \ {{}} : /\ last[T] = Greatest(T) /\ last[T] \in T
                                     /\ last[T] \in S /\ T \ {last[T]} \in SUBSET S
  BY GreatestExists, ReducerAssumption
<1>2. \A T \in SUBSET S : W[T] \subseteq U
  OBVIOUS
<1> HIDE DEF last, op, U
<1>3. \A T \in (SUBSET S) \ {{}} : \A v \in W[T \ {last[T]}] : op(v, last[T]) \in W[T]
  BY <1>1 DEF op
<1>4. PICK f : IsTable(f, S, w, last, step) /\ \A T \in SUBSET S : f[T] \in W[T]
  <2>1. \A T \in (SUBSET S) \ {{}} : \A v \in W[T \ {last[T]}] : step[last[T]][v] \in W[T]
    BY <1>1, <1>2, <1>3
  <2> HIDE DEF step
  <2> QED BY <1>1, <2>1, LoopStays
<1>5. f = rhs(f)
  <2>1. ASSUME NEW T \in SUBSET S, T # {}
        PROVE  f[T] = op(f[T \ {Greatest(T)}], Greatest(T))
    <3>1. f[T \ {last[T]}] \in U
      BY <1>1, <1>2, <1>4, <2>1
    <3>2. f[T] = step[last[T]][f[T \ {last[T]}]]
      <4> HIDE DEF step
      <4> QED BY <1>4, <2>1 DEF IsTable
    <3> QED BY <1>1, <2>1, <3>1, <3>2
  <2> HIDE DEF step
  <2> QED BY <1>4, <2>1 DEF IsTable
<1>6. table = rhs(table)
  <2> HIDE DEF rhs
  <2> QED BY <1>5
<1>7. HydrateAll(w, S, r) = table[S]
  BY DEF HydrateAll, InOrder, OneByOne, op
<1> HIDE DEF table
<1>8. table[{}] \in W[{}]
  BY <1>6
<1>9. \A T \in (SUBSET S) \ {{}} : table[T] = op(table[T \ {last[T]}], last[T])
  BY <1>1, <1>6
<1> HIDE DEF rhs
<1>10. \A T \in (SUBSET S) \ {{}} :
         table[T \ {last[T]}] \in W[T \ {last[T]}] => table[T] \in W[T]
  BY <1>3, <1>9
<1>11. table[S] \in W[S]
  BY <1>1, <1>8, <1>10, LoopEnds
<1> QED BY <1>7, <1>11

\* The loops that schedule sources to be fetched.
LEMMA HydrateLoop ==
  ASSUME NEW w, IsState(w), NEW S \in SUBSET Scripts, IsFiniteSet(S), NEW r \in BOOLEAN
  PROVE  HydrateAll(w, S, r) \in Assessed(w, {})
<1> DEFINE op(v, s) == ScheduleSourceHydration(v, s, r)
           U == Assessed(w, {})
           W == [T \in SUBSET S |-> {v \in U : TRUE}]
<1>2. ASSUME NEW T \in SUBSET S, NEW s \in T, NEW v \in W[T \ {s}]
      PROVE  op(v, s) \in W[T]
  <2>1. op(v, s) \in Assessed(v, {})
    BY AssessedIsState, HydrationAssesses
  <2> HIDE DEF op
  <2> QED BY <2>1, AssessedTransitive
<1>3. w \in W[{}]
  BY AssessedReflexive
<1>4. \A T \in SUBSET S : \A k \in T : \A v \in W[T \ {k}] : op(v, k) \in W[T]
  BY <1>2
<1>5. HydrateAll(w, S, r) \in W[S]
  <2> HIDE DEF W
  <2> QED BY <1>3, <1>4, HydrateAllStays
<1> QED BY <1>5 DEF U

\* The full reconciliation of a breakpoint.
LEMMA ReconcileBreakpointReconciles ==
  ASSUME NEW w, IsState(w), NEW Q, Consistent(w, Q), NEW b \in DOMAIN w.breakpoints
  PROVE  Reconciles(ReconcileBreakpoint(w, b), w, Q, {b})
<1> DEFINE source == w.breakpoints[b].source
           index == CandidateIndex(w, source)
           hydrate == {s \in DOMAIN w.scripts :
                         w.scripts[s].source = "unresolved" /\ MayExpose(s, source)}
           v == WithIndex(w, b, index)
           x == Selection(index)
           u == ApplyAll(v, b, x, DOMAIN w.scripts)
           t == HydrateAll(u, hydrate, TRUE)
<1>1. ReconcileBreakpoint(w, b) = ReconcilePhysicalBindings(t, b)
  BY DEF ReconcileBreakpoint, ApplyAll, HydrateAll, InOrder, OneByOne
<1>2. index \in IndexOver(DOMAIN w.scripts) /\ IsSelection(DOMAIN w.scripts, x)
  BY CandidateIndexTyped, SelectionTyped
<1>3. hydrate \in SUBSET Scripts /\ IsFiniteSet(hydrate)
  <2>1. hydrate \in SUBSET DOMAIN w.scripts
    OBVIOUS
  <2> HIDE DEF hydrate
  <2> QED BY <2>1, StateTyped, FS_Subset
<1> HIDE DEF index, x, hydrate
<1>4. v \in Assessed(w, {b})
  BY <1>2, WithIndexAssesses
<1> HIDE DEF v
<1>5. /\ IsState(v) /\ b \in DOMAIN v.breakpoints /\ DOMAIN v.scripts = DOMAIN w.scripts
  BY <1>4, AssessedIsState
<1>6. u \in Assessed(v, {b})
  BY <1>2, <1>5, ApplyLoop
<1> HIDE DEF u
<1>7. u \in Assessed(w, {b}) /\ IsState(u)
  BY <1>4, <1>5, <1>6, AssessedTransitive, AssessedIsState
<1>8. t \in Assessed(u, {})
  BY <1>3, <1>7, HydrateLoop
<1> HIDE DEF t
<1>9. t \in Assessed(w, {b})
  BY <1>7, <1>8, AssessedTransitive
<1> QED BY <1>1, <1>9, AssessedThenReconciled

\* What the reconciliation keeps breakpoint by breakpoint, ReconcileAll keeps.
LEMMA ReconcileAllStays ==
  ASSUME NEW w, NEW S \in SUBSET Breakpoints, IsFiniteSet(S), NEW W, w \in W[{}],
         \A T \in SUBSET S : \A b \in T : \A v \in W[T \ {b}] : ReconcileBreakpoint(v, b) \in W[T]
  PROVE  S = DOMAIN w.breakpoints => ReconcileAll(w) \in W[S]
<1> DEFINE op(v, b) == ReconcileBreakpoint(v, b)
           last == [T \in (SUBSET S) \ {{}} |-> Greatest(T)]
           U == UNION {W[T] : T \in SUBSET S}
           step == [b \in S |-> [v \in U |-> op(v, b)]]
           rhs(g) == [T \in SUBSET S |->
                        IF T = {} THEN w ELSE op(g[T \ {Greatest(T)}], Greatest(T))]
           table == CHOOSE g : g = rhs(g)
<1>1. \A T \in (SUBSET S) \ {{}} : /\ last[T] = Greatest(T) /\ last[T] \in T
                                     /\ last[T] \in S /\ T \ {last[T]} \in SUBSET S
  BY GreatestExists, ReducerAssumption
<1>2. \A T \in SUBSET S : W[T] \subseteq U
  OBVIOUS
<1> HIDE DEF last, op, U
<1>3. \A T \in (SUBSET S) \ {{}} : \A v \in W[T \ {last[T]}] : op(v, last[T]) \in W[T]
  BY <1>1 DEF op
<1>4. PICK f : IsTable(f, S, w, last, step) /\ \A T \in SUBSET S : f[T] \in W[T]
  <2>1. \A T \in (SUBSET S) \ {{}} : \A v \in W[T \ {last[T]}] : step[last[T]][v] \in W[T]
    BY <1>1, <1>2, <1>3
  <2> HIDE DEF step
  <2> QED BY <1>1, <2>1, LoopStays
<1>5. f = rhs(f)
  <2>1. ASSUME NEW T \in SUBSET S, T # {}
        PROVE  f[T] = op(f[T \ {Greatest(T)}], Greatest(T))
    <3>1. f[T \ {last[T]}] \in U
      BY <1>1, <1>2, <1>4, <2>1
    <3>2. f[T] = step[last[T]][f[T \ {last[T]}]]
      <4> HIDE DEF step
      <4> QED BY <1>4, <2>1 DEF IsTable
    <3> QED BY <1>1, <2>1, <3>1, <3>2
  <2> HIDE DEF step
  <2> QED BY <1>4, <2>1 DEF IsTable
<1>6. table = rhs(table)
  <2> HIDE DEF rhs
  <2> QED BY <1>5
<1>7. S = DOMAIN w.breakpoints => ReconcileAll(w) = table[S]
  BY DEF ReconcileAll, InOrder, OneByOne, op
<1> HIDE DEF table
<1>8. table[{}] \in W[{}]
  BY <1>6
<1>9. \A T \in (SUBSET S) \ {{}} : table[T] = op(table[T \ {last[T]}], last[T])
  BY <1>1, <1>6
<1> HIDE DEF rhs
<1>10. \A T \in (SUBSET S) \ {{}} :
         table[T \ {last[T]}] \in W[T \ {last[T]}] => table[T] \in W[T]
  BY <1>3, <1>9
<1>11. table[S] \in W[S]
  BY <1>1, <1>8, <1>10, LoopEnds
<1> QED BY <1>7, <1>11

\* The full reconciliation of all breakpoints.
LEMMA ReconcileAllReconciles ==
  ASSUME NEW w, IsState(w), NEW Q, Consistent(w, Q)
  PROVE  Reconciles(ReconcileAll(w), w, Q, DOMAIN w.breakpoints)
<1> DEFINE S == DOMAIN w.breakpoints
<1> DEFINE op(v, b) == ReconcileBreakpoint(v, b)
           U == States(w)
           W == [T \in SUBSET S |-> {v \in U : Reconciles(v, w, Q, T)}]
<1>a. S \in SUBSET Breakpoints /\ IsFiniteSet(S)
  BY StateTyped, ReducerAssumption
<1>2. ASSUME NEW T \in SUBSET S, NEW b \in T, NEW v \in W[T \ {b}]
      PROVE  op(v, b) \in W[T]
  <2>1. Reconciles(v, w, Q, T \ {b})
    OBVIOUS
  <2>2. IsState(v) /\ Consistent(v, Q) /\ b \in DOMAIN v.breakpoints
        /\ DOMAIN v.scripts = DOMAIN w.scripts
    BY <2>1 DEF Reconciles
  <2>3. Reconciles(op(v, b), v, Q, {b})
    BY <2>2, ReconcileBreakpointReconciles
  <2> HIDE DEF op
  <2>4. (T \ {b}) \cap {b} = {} /\ (T \ {b}) \cup {b} = T
    OBVIOUS
  <2>5. Reconciles(op(v, b), w, Q, T)
    BY <2>1, <2>3, <2>4, ReconcilesTransitive
  <2>6. op(v, b) \in U
    BY <2>5 DEF Reconciles, IsState
  <2> QED BY <2>5, <2>6
<1>3. w \in W[{}]
  <2>1. Reconciles(w, w, Q, {}) /\ w \in U
    BY ReconcilesReflexive DEF IsState
  <2> QED BY <2>1
<1>4. \A T \in SUBSET S : \A k \in T : \A v \in W[T \ {k}] : op(v, k) \in W[T]
  BY <1>2
<1>5. ReconcileAll(w) \in W[S]
  <2> HIDE DEF W
  <2> QED BY <1>3, <1>4, <1>a, ReconcileAllStays
<1> QED BY <1>5

\* What reconcile_built_script does for breakpoint b.
BuiltOne(v, b, s) ==
  LET bp      == v.breakpoints[b]
      index   == IndexWithBuilt(v, b, s)
      old     == Selection(bp.index)
      new     == Selection(index)
      applied == ApplyAll(WithIndex(v, b, index), b, new, ChangedScripts(old, new, s))
      completed == /\ s \in bp.index.unresolved
                   /\ index.unresolved = {}
                   /\ applied.breakpoints[b].mappings = {}
  IN IF /\ applied.breakpoints[b].bindings # <<>>
        /\ ~SamePayload(old, new) \/ completed
     THEN ReconcilePhysicalBindings(applied, b)
     ELSE applied

\* The incremental reconciliation of one breakpoint keeps what a full one keeps.
LEMMA BuiltOneReconciles ==
  ASSUME NEW w, IsState(w), NEW Q, Consistent(w, Q), NEW b \in DOMAIN w.breakpoints,
         NEW s \in DOMAIN w.scripts
  PROVE  Reconciles(BuiltOne(w, b, s), w, Q, {b})
<1> DEFINE D == DOMAIN w.scripts
           index == IndexWithBuilt(w, b, s)
           old == Selection(w.breakpoints[b].index)
           new == Selection(index)
           v == WithIndex(w, b, index)
           S == ChangedScripts(old, new, s)
           u == ApplyAll(v, b, new, S)
<1>1. index \in IndexOver(D) /\ IsSelection(D, new) /\ IsSelection(D, old)
  BY IndexWithBuiltTyped, StateTyped, SelectionTyped
<1>2. BuiltOne(w, b, s) \in {u, ReconcilePhysicalBindings(u, b)}
  BY DEF BuiltOne
<1> HIDE DEF index, old, new
<1>3. S \in SUBSET D
  BY <1>1 DEF ChangedScripts, IsSelection
<1>4. v \in Assessed(w, {b})
  BY <1>1, WithIndexAssesses
<1> HIDE DEF v, S
<1>5. /\ IsState(v) /\ b \in DOMAIN v.breakpoints /\ DOMAIN v.scripts = DOMAIN w.scripts
  BY <1>4, AssessedIsState
<1>6. u \in Assessed(v, {b})
  BY <1>1, <1>3, <1>5, ApplyLoop
<1> HIDE DEF u
<1>7. u \in Assessed(w, {b})
  BY <1>4, <1>6, AssessedTransitive
<1> QED BY <1>2, <1>7, AssessedReconciles, AssessedThenReconciled

\* What reconcile_built_script keeps breakpoint by breakpoint, its loop keeps.
LEMMA BuiltAllStays ==
  ASSUME NEW w, NEW s, NEW S \in SUBSET Breakpoints, IsFiniteSet(S), NEW W, w \in W[{}],
         \A T \in SUBSET S : \A b \in T : \A v \in W[T \ {b}] : BuiltOne(v, b, s) \in W[T]
  PROVE  S = DOMAIN w.breakpoints => ReconcileBuiltScript(w, s) \in W[S]
<1> DEFINE op(v, b) == BuiltOne(v, b, s)
           last == [T \in (SUBSET S) \ {{}} |-> Greatest(T)]
           U == UNION {W[T] : T \in SUBSET S}
           step == [b \in S |-> [v \in U |-> op(v, b)]]
           rhs(g) == [T \in SUBSET S |->
                        IF T = {} THEN w ELSE op(g[T \ {Greatest(T)}], Greatest(T))]
           table == CHOOSE g : g = rhs(g)
<1>1. \A T \in (SUBSET S) \ {{}} : /\ last[T] = Greatest(T) /\ last[T] \in T
                                     /\ last[T] \in S /\ T \ {last[T]} \in SUBSET S
  BY GreatestExists, ReducerAssumption
<1>2. \A T \in SUBSET S : W[T] \subseteq U
  OBVIOUS
<1> HIDE DEF last, op, U
<1>3. \A T \in (SUBSET S) \ {{}} : \A v \in W[T \ {last[T]}] : op(v, last[T]) \in W[T]
  BY <1>1 DEF op
<1>4. PICK f : IsTable(f, S, w, last, step) /\ \A T \in SUBSET S : f[T] \in W[T]
  <2>1. \A T \in (SUBSET S) \ {{}} : \A v \in W[T \ {last[T]}] : step[last[T]][v] \in W[T]
    BY <1>1, <1>2, <1>3
  <2> HIDE DEF step
  <2> QED BY <1>1, <2>1, LoopStays
<1>5. f = rhs(f)
  <2>1. ASSUME NEW T \in SUBSET S, T # {}
        PROVE  f[T] = op(f[T \ {Greatest(T)}], Greatest(T))
    <3>1. f[T \ {last[T]}] \in U
      BY <1>1, <1>2, <1>4, <2>1
    <3>2. f[T] = step[last[T]][f[T \ {last[T]}]]
      <4> HIDE DEF step
      <4> QED BY <1>4, <2>1 DEF IsTable
    <3> QED BY <1>1, <2>1, <3>1, <3>2
  <2> HIDE DEF step
  <2> QED BY <1>4, <2>1 DEF IsTable
<1>6. table = rhs(table)
  <2> HIDE DEF rhs
  <2> QED BY <1>5
<1>7. S = DOMAIN w.breakpoints => ReconcileBuiltScript(w, s) = table[S]
  BY DEF ReconcileBuiltScript, BuiltOne, ApplyAll, InOrder, OneByOne, op
<1> HIDE DEF table
<1>8. table[{}] \in W[{}]
  BY <1>6
<1>9. \A T \in (SUBSET S) \ {{}} : table[T] = op(table[T \ {last[T]}], last[T])
  BY <1>1, <1>6
<1> HIDE DEF rhs
<1>10. \A T \in (SUBSET S) \ {{}} :
         table[T \ {last[T]}] \in W[T \ {last[T]}] => table[T] \in W[T]
  BY <1>3, <1>9
<1>11. table[S] \in W[S]
  BY <1>1, <1>8, <1>10, LoopEnds
<1> QED BY <1>7, <1>11

\* The incremental reconciliation keeps what a full one keeps (ReconcileBuiltScript).
LEMMA ReconcileBuiltScriptReconciles ==
  ASSUME NEW w, IsState(w), NEW Q, Consistent(w, Q), NEW s \in DOMAIN w.scripts
  PROVE  Reconciles(ReconcileBuiltScript(w, s), w, Q, DOMAIN w.breakpoints)
<1> DEFINE S == DOMAIN w.breakpoints
<1> DEFINE op(v, b) == BuiltOne(v, b, s)
           U == States(w)
           W == [T \in SUBSET S |-> {v \in U : Reconciles(v, w, Q, T)}]
<1>a. S \in SUBSET Breakpoints /\ IsFiniteSet(S)
  BY StateTyped, ReducerAssumption
<1>2. ASSUME NEW T \in SUBSET S, NEW b \in T, NEW v \in W[T \ {b}]
      PROVE  op(v, b) \in W[T]
  <2>1. Reconciles(v, w, Q, T \ {b})
    OBVIOUS
  <2>2. IsState(v) /\ Consistent(v, Q) /\ b \in DOMAIN v.breakpoints
        /\ DOMAIN v.scripts = DOMAIN w.scripts
    BY <2>1 DEF Reconciles
  <2>3. Reconciles(op(v, b), v, Q, {b})
    BY <2>2, BuiltOneReconciles
  <2> HIDE DEF op
  <2>4. (T \ {b}) \cap {b} = {} /\ (T \ {b}) \cup {b} = T
    OBVIOUS
  <2>5. Reconciles(op(v, b), w, Q, T)
    BY <2>1, <2>3, <2>4, ReconcilesTransitive
  <2>6. op(v, b) \in U
    BY <2>5 DEF Reconciles, IsState
  <2> QED BY <2>5, <2>6
<1>3. w \in W[{}]
  <2>1. Reconciles(w, w, Q, {}) /\ w \in U
    BY ReconcilesReflexive DEF IsState
  <2> QED BY <2>1
<1>4. \A T \in SUBSET S : \A k \in T : \A v \in W[T \ {k}] : op(v, k) \in W[T]
  BY <1>2
<1>5. ReconcileBuiltScript(w, s) \in W[S]
  <2> HIDE DEF W
  <2> QED BY <1>3, <1>4, <1>a, BuiltAllStays
<1> QED BY <1>5

\* A state with another pause is a state.
LEMMA PauseSet ==
  ASSUME NEW D, NEW B, NEW w \in StatesOver(D, B), NEW x \in {NoPause} \cup Pause
  PROVE  [w EXCEPT !.pause = x] \in StatesOver(D, B)
BY DEF StatesOver

\* v is w but for the frames of the pause, and for effects that are not about
\* physical breakpoints and no longer pending.
LEMMA FramesAssessed ==
  ASSUME NEW w, IsState(w), NEW x \in {NoPause} \cup Pause,
         x = NoPause <=> w.pause = NoPause, x # NoPause => x.epoch = w.pause.epoch,
         NEW y \in SUBSET Effects, \A e \in w.pending : IsPhysicalEffect(e) => e \in y
  PROVE  [w EXCEPT !.pause = x, !.pending = y] \in Assessed(w, {})
<1> DEFINE u == [w EXCEPT !.pause = x]
           v == [w EXCEPT !.pause = x, !.pending = y]
<1>1. u \in States(w)
  BY PauseSet DEF IsState, States
<1>2. v = [u EXCEPT !.pending = y]
  BY DEF IsState, States, StatesOver
<1> HIDE DEF u
<1>3. v \in States(w)
  <2>1. u.out \in Seq(Effects) /\ u \in StatesOver(DOMAIN w.scripts, DOMAIN w.breakpoints)
    BY <1>1, StateFields DEF States
  <2> HIDE DEF v
  <2>2. [u EXCEPT !.pending = y] \in StatesOver(DOMAIN w.scripts, DOMAIN w.breakpoints)
    BY <2>1, EffectsSet
  <2> QED BY <1>2, <2>2 DEF States
<1>4. /\ v.breakpoints = w.breakpoints /\ v.pending = y /\ v.scripts = w.scripts
      /\ v.out = w.out /\ v.physical = w.physical /\ v.phase = w.phase /\ v.epoch = w.epoch
      /\ v.nextEpoch = w.nextEpoch /\ v.pause = x /\ v.waiting = w.waiting
  BY DEF IsState, States, StatesOver
<1>5. w.out \in Seq(Effects)
  BY StateTyped
<1> HIDE DEF v
<1>6. LeavesPhysical(v, w) /\ SameSession(v, w) /\ SameVersions(v, w)
  BY <1>4, <1>5 DEF LeavesPhysical, SameSession, SameVersions
<1>7. v \in Assessed(w, {})
  BY <1>3, <1>4, <1>6 DEF Assessed, Assesses, SameSpecification
<1> QED BY <1>7 DEF v

\* What the frames of a pause are.
LEMMA FramesTyped ==
  ASSUME NEW w, IsState(w)
  PROVE  /\ Frames(w) \in Seq(Frame) /\ DOMAIN Frames(w) \subseteq Nat
         /\ \A S \in SUBSET DOMAIN Frames(w) : IsFiniteSet(S)
         /\ DOMAIN Frames(w) # {} => w.pause \in Pause /\ w.pause # NoPause
         /\ w.pause \in Pause => w.pause.epoch \in Nat /\ w.pause.frames \in Seq(Frame)
<1>1. w.pause \in {NoPause} \cup Pause
  BY StateFields DEF IsState, States
<1>2. w.pause \in Pause => w.pause.epoch \in Nat /\ w.pause.frames \in Seq(Frame)
  BY DEF Pause
<1>3. Frames(w) \in Seq(Frame) /\ (DOMAIN Frames(w) # {} => w.pause # NoPause)
  BY <1>1, <1>2 DEF Frames
<1>4. DOMAIN Frames(w) = 1..Len(Frames(w)) /\ Len(Frames(w)) \in Nat
  BY <1>3
<1>5. IsFiniteSet(DOMAIN Frames(w))
  BY <1>4, FS_Interval
<1> QED BY <1>1, <1>2, <1>3, <1>4, <1>5, FS_Subset

\* Marking frames leaves the physical breakpoints alone (SetFrames).
LEMMA SetFramesAssesses ==
  ASSUME NEW w, IsState(w), NEW S \in SUBSET DOMAIN Frames(w),
         NEW k \in {"raw", "pending", "resolved", "failed"},
         NEW y \in SUBSET Effects, \A e \in w.pending : IsPhysicalEffect(e) => e \in y
  PROVE  /\ SetFrames(w, S, k) \in Assessed(w, {})
         /\ [SetFrames(w, S, k) EXCEPT !.pending = y] \in Assessed(w, {})
<1>1. CASE S = {}
  <2>1. w.pause \in {NoPause} \cup Pause /\ w = [w EXCEPT !.pause = w.pause]
    BY StateFields DEF IsState, States, StatesOver
  <2>2. [w EXCEPT !.pause = w.pause, !.pending = y] \in Assessed(w, {})
    BY <2>1, FramesAssessed
  <2>3. [w EXCEPT !.pause = w.pause, !.pending = y] = [w EXCEPT !.pending = y]
    BY DEF IsState, States, StatesOver
  <2> QED BY <1>1, <2>2, <2>3, AssessedReflexive DEF SetFrames
<1>2. CASE S # {}
  <2> DEFINE g == w.pause.frames
             f == [i \in DOMAIN g |-> IF i \in S THEN [g[i] EXCEPT !.projected = k] ELSE g[i]]
             x == [w.pause EXCEPT !.frames = f]
  <2>1. w.pause \in Pause /\ w.pause # NoPause /\ g \in Seq(Frame)
    BY <1>2, FramesTyped
  <2>2. f \in Seq(Frame)
    <3>1. DOMAIN g = 1..Len(g) /\ Len(g) \in Nat /\ \A i \in DOMAIN g : g[i] \in Frame
      BY <2>1
    <3>2. \A i \in DOMAIN g : [g[i] EXCEPT !.projected = k] \in Frame
      BY <3>1 DEF Frame
    <3>3. f \in [1..Len(g) -> Frame]
      BY <3>1, <3>2
    <3> HIDE DEF f, g
    <3> QED BY <3>1, <3>3
  <2> HIDE DEF f
  <2>3. x \in Pause /\ x.epoch = w.pause.epoch /\ x # NoPause
    <3>1. x \in Pause /\ x.epoch = w.pause.epoch
      BY <2>1, <2>2 DEF Pause
    <3> QED BY <3>1, ReducerAssumption
  <2>4. SetFrames(w, S, k) = [w EXCEPT !.pause = x]
    BY <1>2, <2>1 DEF SetFrames, f, IsState, States, StatesOver
  <2>5. /\ [w EXCEPT !.pause = x] = [w EXCEPT !.pause = x, !.pending = w.pending]
        /\ [[w EXCEPT !.pause = x] EXCEPT !.pending = y] = [w EXCEPT !.pause = x, !.pending = y]
    BY DEF IsState, States, StatesOver
  <2>6. w.pending \in SUBSET Effects
    BY StateTyped
  <2> HIDE DEF x
  <2>7. /\ [w EXCEPT !.pause = x, !.pending = w.pending] \in Assessed(w, {})
        /\ [w EXCEPT !.pause = x, !.pending = y] \in Assessed(w, {})
    BY <2>1, <2>3, <2>6, FramesAssessed
  <2> QED BY <2>4, <2>5, <2>7
<1> QED BY <1>1, <1>2

\* The frames of a script that was parsed again.
LEMMA ReleaseFramesAssesses ==
  ASSUME NEW w, IsState(w), NEW s
  PROVE  ReleaseFrames(w, s) \in Assessed(w, {})
<1> DEFINE S == {i \in DOMAIN Frames(w) : Frames(w)[i].script = s}
           mapping(e) == /\ e.kind = "frame" /\ e.epoch = w.pause.epoch /\ e.index \in S
                         /\ Frames(w)[e.index].projected = "pending"
           u == SetFrames(w, S, "raw")
           y == IF S = {} THEN w.pending ELSE {e \in w.pending : ~mapping(e)}
<1>1. u.pending = w.pending
  BY DEF SetFrames, IsState, States, StatesOver
<1>2. ReleaseFrames(w, s) = [u EXCEPT !.pending = y]
  <2>1. u.pending = w.pending
    BY <1>1
  <2>2. ReleaseFrames(w, s) =
          [u EXCEPT !.pending = IF S = {} THEN u.pending
                                ELSE {e \in u.pending : ~mapping(e)}]
    BY DEF ReleaseFrames
  <2> HIDE DEF u
  <2> QED BY <2>1, <2>2
<1>3. y \in SUBSET Effects /\ \A e \in w.pending : IsPhysicalEffect(e) => e \in y
  <2>1. w.pending \in SUBSET Effects
    BY StateTyped
  <2> QED BY <2>1 DEF IsPhysicalEffect
<1>4. S \in SUBSET DOMAIN Frames(w)
  OBVIOUS
<1> HIDE DEF S, y
<1>5. [SetFrames(w, S, "raw") EXCEPT !.pending = y] \in Assessed(w, {})
  BY <1>3, <1>4, SetFramesAssesses
<1> QED BY <1>2, <1>5

EmitFrames(w, n, S) == InOrder(LAMBDA v, i : Emit(v, FrameEffect(n, i)), w, S)

\* The loop that asks for the projection of frames (ScheduleFrameMappings).
LEMMA EmitFramesLoop ==
  ASSUME NEW w, IsState(w), NEW S \in SUBSET DOMAIN Frames(w), NEW n, S # {} => n \in Nat
  PROVE  EmitFrames(w, n, S) \in Assessed(w, {})
<1> DEFINE op(v, i) == Emit(v, FrameEffect(n, i))
           last == [T \in (SUBSET S) \ {{}} |-> Greatest(T)]
           U == Assessed(w, {})
           W == [T \in SUBSET S |-> {v \in U : TRUE}]
           step == [i \in S |-> [v \in U |-> op(v, i)]]
           rhs(g) == [T \in SUBSET S |->
                        IF T = {} THEN w ELSE op(g[T \ {Greatest(T)}], Greatest(T))]
           table == CHOOSE g : g = rhs(g)
<1>a. S \in SUBSET Nat /\ IsFiniteSet(S)
  BY FramesTyped
<1>1. \A T \in (SUBSET S) \ {{}} : last[T] = Greatest(T) /\ last[T] \in T
  BY GreatestExists, ReducerAssumption, <1>a
<1>2. ASSUME NEW T \in SUBSET S, NEW i \in T, NEW v \in W[T \ {i}]
      PROVE  op(v, i) \in W[T]
  <2>1. FrameEffect(n, i) \in Effects /\ ~IsPhysicalEffect(FrameEffect(n, i))
    BY <1>a, EffectKinds
  <2>2. op(v, i) \in Assessed(v, {})
    BY <2>1, AssessedIsState, EmitAssesses
  <2> HIDE DEF op
  <2> QED BY <2>2, AssessedTransitive
<1>3. w \in W[{}]
  BY AssessedReflexive
<1>4. \A T \in SUBSET S : W[T] \subseteq U
  OBVIOUS
<1> HIDE DEF W, U
<1>5. PICK f : IsTable(f, S, w, last, step) /\ \A T \in SUBSET S : f[T] \in W[T]
  <2>1. ASSUME NEW T \in (SUBSET S) \ {{}}, NEW v \in W[T \ {last[T]}]
        PROVE  step[last[T]][v] \in W[T]
    <3>1. last[T] \in T /\ last[T] \in S /\ T \ {last[T]} \in SUBSET S
      BY <1>1
    <3>2. v \in U
      BY <1>4, <3>1
    <3> HIDE DEF last, op
    <3>3. step[last[T]][v] = op(v, last[T])
      BY <3>1, <3>2
    <3> HIDE DEF step
    <3> QED BY <1>2, <3>1, <3>3
  <2> HIDE DEF last, step
  <2> QED BY <1>1, <1>3, <1>a, <2>1, LoopStays
<1>6. f = rhs(f)
  <2>1. ASSUME NEW T \in SUBSET S, T # {}
        PROVE  f[T] = op(f[T \ {Greatest(T)}], Greatest(T))
    <3>1. /\ last[T] \in T /\ last[T] = Greatest(T) /\ last[T] \in S
          /\ T \ {last[T]} \in SUBSET S
      BY <1>1, <2>1
    <3>2. f[T \ {last[T]}] \in U
      BY <1>4, <1>5, <3>1
    <3> HIDE DEF last, op
    <3>3. f[T] = step[last[T]][f[T \ {last[T]}]]
      <4> HIDE DEF step
      <4> QED BY <1>5, <2>1 DEF IsTable
    <3> QED BY <3>1, <3>2, <3>3
  <2> HIDE DEF op, step, last
  <2> QED BY <1>5, <2>1 DEF IsTable
<1>7. table = rhs(table)
  <2> HIDE DEF rhs
  <2> QED BY <1>6
<1>8. table[S] \in W[S]
  <2> HIDE DEF table, op
  <2>1. table[{}] \in W[{}]
    BY <1>3, <1>7
  <2>2. ASSUME NEW T \in (SUBSET S) \ {{}}, table[T \ {last[T]}] \in W[T \ {last[T]}]
        PROVE  table[T] \in W[T]
    <3>1. last[T] \in T /\ last[T] = Greatest(T)
      BY <1>1
    <3>2. table[T] = op(table[T \ {last[T]}], last[T])
      BY <1>7, <3>1
    <3> HIDE DEF last, rhs
    <3> QED BY <1>2, <2>2, <3>1, <3>2
  <2> HIDE DEF last, rhs
  <2> QED BY <1>1, <2>1, <1>a, <2>2, LoopEnds
<1>9. EmitFrames(w, n, S) = table[S]
  BY DEF EmitFrames, InOrder, OneByOne
<1> HIDE DEF table
<1> QED BY <1>4, <1>8, <1>9 DEF U

\* The frames of a script whose source can be mapped.
LEMMA FrameMappingsAssess ==
  ASSUME NEW w, IsState(w), NEW s
  PROVE  ScheduleFrameMappings(w, s) \in Assessed(w, {})
<1> DEFINE S == RawFrames(w, s)
           v == SetFrames(w, S, "pending")
           u == EmitFrames(v, w.pause.epoch, S)
<1>1. ScheduleFrameMappings(w, s) \in {w, u}
  BY DEF ScheduleFrameMappings, EmitFrames, InOrder, OneByOne
<1>2. S \in SUBSET DOMAIN Frames(w) /\ S \in SUBSET DOMAIN Frames(v)
      /\ (S # {} => w.pause.epoch \in Nat)
  <2>1. S \in SUBSET DOMAIN Frames(w)
    BY DEF RawFrames
  <2> HIDE DEF S
  <2>2. S # {} => w.pause \in Pause /\ w.pause # NoPause
    BY <2>1, FramesTyped
  <2>3. S # {} => DOMAIN Frames(w) = DOMAIN Frames(v)
    <3> SUFFICES ASSUME S # {} PROVE DOMAIN Frames(w) = DOMAIN Frames(v)
      OBVIOUS
    <3> DEFINE g == w.pause.frames
               f == [i \in DOMAIN g |->
                        IF i \in S THEN [g[i] EXCEPT !.projected = "pending"] ELSE g[i]]
               x == [w.pause EXCEPT !.frames = f]
    <3>1. v = [w EXCEPT !.pause.frames = f]
      BY DEF SetFrames
    <3>2. v.pause = x
      BY <3>1 DEF IsState, States, StatesOver
    <3>3. x.frames = f /\ DOMAIN f = DOMAIN g
      BY <2>2 DEF Pause
    <3>4. v.pause # NoPause
      <4>1. v \in Assessed(w, {})
        BY <2>1, SetFramesAssesses, StateTyped
      <4> QED BY <4>1, <2>2 DEF Assessed, Assesses, SameSession
    <3> HIDE DEF f, v
    <3> QED BY <2>2, <3>2, <3>3, <3>4 DEF Frames
  <2> QED BY <2>1, <2>2, <2>3, FramesTyped
<1> HIDE DEF S
<1>3. v \in Assessed(w, {})
  BY <1>2, SetFramesAssesses, StateTyped
<1> HIDE DEF v
<1>4. u \in Assessed(v, {})
  BY <1>2, <1>3, AssessedIsState, EmitFramesLoop
<1> HIDE DEF u
<1>5. u \in Assessed(w, {})
  BY <1>3, <1>4, AssessedTransitive
<1> QED BY <1>1, <1>5, AssessedReflexive

-----------------------------------------------------------------------------
(***************************************************************************)
(* The inputs of the reducer that set and remove breakpoints.              *)
(***************************************************************************)
SpecsOf(w) ==
    {SpecFor(b, w.breakpoints[b].source, w.breakpoints[b].condition) : b \in DOMAIN w.breakpoints}

\* Physical breakpoints come and are not yet installed; none goes.
Grows(v, w) ==
  /\ DOMAIN w.physical \subseteq DOMAIN v.physical
  /\ \A p \in DOMAIN v.physical : v.physical[p].status = "installed" =>
        p \in DOMAIN w.physical /\ w.physical[p].status = "installed"

Survives(v, w, c) ==
  /\ c \in DOMAIN w.breakpoints /\ c \in DOMAIN v.breakpoints
  /\ v.breakpoints[c].generation = w.breakpoints[c].generation
  /\ SameVersions(v, w)

\* An input leads from w to v.
Follows(v, w, Q) ==
  /\ IsState(v) /\ Consistent(v, Q) /\ Grows(v, w)
  /\ \A c : Survives(v, w, c) => Stays(v, w, c)

\* v is w with what an input itself says, before the reconciliation.
Prepares(v, w, Q) ==
  /\ IsState(v) /\ Consistent(v, Q) /\ Grows(v, w)
  /\ DOMAIN w.scripts \subseteq DOMAIN v.scripts
  /\ \A c : Survives(v, w, c) => KeepsHeld(v, w, c)

\* A reconciliation completes an input that prepared the state for it.
LEMMA PreparedFollows ==
  ASSUME NEW w, NEW Q, NEW v, Prepares(v, w, Q), NEW T, NEW u, Reconciles(u, v, Q, T)
  PROVE  /\ Follows(u, w, Q) /\ SameSession(u, v) /\ SpecsOf(u) = SpecsOf(v)
         /\ DOMAIN u.breakpoints = DOMAIN v.breakpoints /\ DOMAIN u.scripts = DOMAIN v.scripts
<1>1. Grows(u, w)
  BY DEF Prepares, Reconciles, Grows
<1>2. ASSUME NEW c, Survives(u, w, c) PROVE Stays(u, w, c)
  <2>1. c \in DOMAIN v.breakpoints /\ SameSpecification(u, v, c)
    BY <1>2 DEF Survives, Reconciles
  <2>2. SameVersions(v, w)
    BY <1>2 DEF Survives, Reconciles, Prepares, SameVersions
  <2>3. KeepsHeld(v, w, c)
    BY <1>2, <2>1, <2>2 DEF Survives, Prepares, SameSpecification
  <2>4. KeepsHeld(u, v, c) \/ Stays(u, v, c)
    BY <2>1 DEF Reconciles
  <2> QED BY <2>3, <2>4 DEF KeepsHeld, Stays
<1>3. SpecsOf(u) = SpecsOf(v)
  BY DEF SpecsOf, Reconciles, SameSpecification
<1> QED BY <1>1, <1>2, <1>3 DEF Follows, Reconciles, Prepares

\* The bookkeeping of a finished effect: nothing but `pending` changes.
LEMMA TakenAssesses ==
  ASSUME NEW w, IsState(w), NEW y, \A e \in y : ~IsPhysicalEffect(e)
  PROVE  [w EXCEPT !.pending = @ \ y] \in Assessed(w, {})
<1>1. w.pause \in {NoPause} \cup Pause /\ w = [w EXCEPT !.pause = w.pause]
  BY StateFields DEF IsState, States, StatesOver
<1>2. w.pending \ y \in SUBSET Effects
      /\ \A e \in w.pending : IsPhysicalEffect(e) => e \in w.pending \ y
  BY StateTyped
<1>3. [w EXCEPT !.pause = w.pause, !.pending = w.pending \ y] \in Assessed(w, {})
  BY <1>1, <1>2, FramesAssessed
<1>4. [w EXCEPT !.pause = w.pause, !.pending = w.pending \ y] = [w EXCEPT !.pending = @ \ y]
  BY DEF IsState, States, StatesOver
<1> QED BY <1>3, <1>4

\* v is w with breakpoint b no owner of the keys T.
Disowned(v, w, Q, b, T) ==
  /\ IsState(v) /\ States(v) = States(w) /\ v.breakpoints = w.breakpoints
  /\ SameButBindings(v, w) /\ Asked(v) /\ Owed(v, Q)
  /\ w.pending \subseteq v.pending /\ AddsPhysical(v, w)
  /\ DOMAIN v.physical = DOMAIN w.physical
  /\ \A q \in DOMAIN w.physical :
       /\ v.physical[q].owners = w.physical[q].owners \ (IF q \in T THEN {b} ELSE {})
       /\ \/ v.physical[q].status = w.physical[q].status
          \/ /\ v.physical[q].owners = {} /\ w.physical[q].status = "installed"
             /\ v.physical[q].status = "removing"

DisownAll(w, b, S) ==
  OverKeys(LAMBDA v, p : DropUnowned([v EXCEPT !.physical[p].owners = @ \ {b}], p), w, S)

\* The loop by which a breakpoint gives up what it owns (ReleaseBreakpoint).
LEMMA DisownLoop ==
  ASSUME NEW w, IsState(w), NEW Q, Asked(w), Owed(w, Q), NEW b \in DOMAIN w.breakpoints,
         NEW S \in SUBSET DOMAIN w.physical
  PROVE  Disowned(DisownAll(w, b, S), w, Q, b, S)
<1> DEFINE op(v, p) == DropUnowned([v EXCEPT !.physical[p].owners = @ \ {b}], p)
           last == [T \in (SUBSET S) \ {{}} |-> LastKey(T)]
           U == States(w)
           W == [T \in SUBSET S |-> {v \in U : Disowned(v, w, Q, b, T)}]
           step == [p \in S |-> [v \in U |-> op(v, p)]]
           rhs(g) == [T \in SUBSET S |->
                        IF T = {} THEN w ELSE op(g[T \ {LastKey(T)}], LastKey(T))]
           table == CHOOSE g : g = rhs(g)
<1>a. S \in SUBSET PhysicalKey /\ IsFiniteSet(S)
  BY PhysicalTyped, FS_Subset
<1>1. \A T \in (SUBSET S) \ {{}} : last[T] = LastKey(T) /\ last[T] \in T
  BY LastKeyExists, <1>a
<1>2. ASSUME NEW T \in SUBSET S, NEW p \in T, NEW v \in W[T \ {p}]
      PROVE  op(v, p) \in W[T]
  <2> DEFINE u == DropUnowned([v EXCEPT !.physical[p].owners = @ \ {b}], p)
             O == v.physical[p].owners \ {b}
  <2>1. Disowned(v, w, Q, b, T \ {p})
    OBVIOUS
  <2>2. u = DropUnowned([v EXCEPT !.physical[p].owners = O], p)
    OBVIOUS
  <2>3. IsState(v) /\ p \in DOMAIN v.physical /\ O \in SUBSET v.physical[p].owners
        /\ Asked(v) /\ Owed(v, Q)
    BY <2>1 DEF Disowned
  <2> HIDE DEF u
  <2>4. HasOwners(u, v, p, O, Q)
    <3> HIDE DEF O
    <3> QED BY <2>2, <2>3, DropUnownedKeeps
  <2>5. SameButBindings(u, w)
    BY <2>1, <2>4, SameButBindingsTransitive DEF Disowned, HasOwners
  <2>6. ASSUME NEW q \in DOMAIN w.physical
        PROVE  /\ u.physical[q].owners = w.physical[q].owners \ (IF q \in T THEN {b} ELSE {})
               /\ \/ u.physical[q].status = w.physical[q].status
                  \/ /\ u.physical[q].owners = {} /\ w.physical[q].status = "installed"
                     /\ u.physical[q].status = "removing"
    <3>1. CASE q # p
      BY <2>1, <2>4, <3>1 DEF Disowned, HasOwners
    <3>2. CASE q = p
      <4>1. v.physical[p].owners = w.physical[p].owners
        <5>1. v.physical[p].owners = w.physical[p].owners \ (IF p \in T \ {p} THEN {b} ELSE {})
          BY <2>1, <3>2 DEF Disowned
        <5>2. (IF p \in T \ {p} THEN {b} ELSE {}) = {}
          OBVIOUS
        <5> QED BY <5>1, <5>2
      <4>2. w.physical[p].status = v.physical[p].status
            \/ w.physical[p].owners = {}
        BY <2>1, <3>2, <4>1 DEF Disowned
      <4> QED BY <2>1, <2>4, <3>2, <4>1, <4>2 DEF Disowned, HasOwners
    <3> QED BY <3>1, <3>2
  <2>7. Disowned(u, w, Q, b, T)
    <3>1. w.pending \subseteq u.pending /\ AddsPhysical(u, w)
      BY <2>1, <2>4 DEF Disowned, HasOwners, AddsPhysical
    <3> QED BY <2>1, <2>4, <2>5, <2>6, <3>1 DEF Disowned, HasOwners
  <2>8. u \in U
    BY <2>7 DEF Disowned, IsState
  <2>9. u \in W[T]
    BY <2>7, <2>8
  <2> QED BY <2>9 DEF u
<1>3. w \in W[{}]
  <2>1. Disowned(w, w, Q, b, {}) /\ w \in U
    BY DEF Disowned, SameButBindings, SameSpecification, IsState, AddsPhysical
  <2> QED BY <2>1
<1>4. \A T \in SUBSET S : W[T] \subseteq U
  OBVIOUS
<1> HIDE DEF W, U
<1>5. PICK f : IsTable(f, S, w, last, step) /\ \A T \in SUBSET S : f[T] \in W[T]
  <2>1. ASSUME NEW T \in (SUBSET S) \ {{}}, NEW v \in W[T \ {last[T]}]
        PROVE  step[last[T]][v] \in W[T]
    <3>1. last[T] \in T /\ last[T] \in S /\ T \ {last[T]} \in SUBSET S
      BY <1>1
    <3>2. v \in U
      BY <1>4, <3>1
    <3> HIDE DEF last, op
    <3>3. step[last[T]][v] = op(v, last[T])
      BY <3>1, <3>2
    <3> HIDE DEF step
    <3> QED BY <1>2, <3>1, <3>3
  <2> HIDE DEF last, step
  <2> QED BY <1>1, <1>3, <1>a, <2>1, LoopStays
<1>6. f = rhs(f)
  <2>1. ASSUME NEW T \in SUBSET S, T # {}
        PROVE  f[T] = op(f[T \ {LastKey(T)}], LastKey(T))
    <3>1. /\ last[T] \in T /\ last[T] = LastKey(T) /\ last[T] \in S
          /\ T \ {last[T]} \in SUBSET S
      BY <1>1, <2>1
    <3>2. f[T \ {last[T]}] \in U
      BY <1>4, <1>5, <3>1
    <3> HIDE DEF last, op
    <3>3. f[T] = step[last[T]][f[T \ {last[T]}]]
      <4> HIDE DEF step
      <4> QED BY <1>5, <2>1 DEF IsTable
    <3> QED BY <3>1, <3>2, <3>3
  <2> HIDE DEF op, step, last
  <2> QED BY <1>5, <2>1 DEF IsTable
<1>7. table = rhs(table)
  <2> HIDE DEF rhs
  <2> QED BY <1>6
<1>8. table[S] \in W[S]
  <2> HIDE DEF table, op
  <2>1. table[{}] \in W[{}]
    BY <1>3, <1>7
  <2>2. ASSUME NEW T \in (SUBSET S) \ {{}}, table[T \ {last[T]}] \in W[T \ {last[T]}]
        PROVE  table[T] \in W[T]
    <3>1. last[T] \in T /\ last[T] = LastKey(T)
      BY <1>1
    <3>2. table[T] = op(table[T \ {last[T]}], last[T])
      BY <1>7, <3>1
    <3> HIDE DEF last, rhs
    <3> QED BY <1>2, <2>2, <3>1, <3>2
  <2> HIDE DEF last, rhs
  <2> QED BY <1>1, <2>1, <1>a, <2>2, LoopEnds
<1>9. DisownAll(w, b, S) = table[S]
  BY DEF DisownAll, InOrder, OverKeys, OneByOne
<1> HIDE DEF table
<1> QED BY <1>8, <1>9 DEF W

\* Of what is pending v lacks y, and differs from w in physical effects else.
GivesUp(v, w, y) ==
  \A e : ~IsPhysicalEffect(e) => (e \in v.pending <=> e \in w.pending /\ e \notin y)

\* A breakpoint that is released owns nothing, and maps nothing.
LEMMA ReleaseBreakpointDisowns ==
  ASSUME NEW w, IsState(w), NEW Q, Consistent(w, Q), NEW b
  PROVE  LET v == ReleaseBreakpoint(w, b)
         IN /\ IsState(v) /\ States(v) = States(w) /\ v.breakpoints = w.breakpoints
            /\ v.scripts = w.scripts /\ SameSession(v, w)
            /\ Asked(v) /\ Owed(v, Q) /\ DOMAIN v.physical = DOMAIN w.physical
            /\ \A q \in DOMAIN w.physical :
                 /\ v.physical[q].owners = w.physical[q].owners \ {b}
                 /\ \/ v.physical[q].status = w.physical[q].status
                    \/ /\ v.physical[q].owners = {} /\ w.physical[q].status = "installed"
                       /\ v.physical[q].status = "removing"
            /\ GivesUp(v, w, IF b \in DOMAIN w.breakpoints THEN w.breakpoints[b].mappings ELSE {})
<1>1. CASE b \notin DOMAIN w.breakpoints
  <2>1. ReleaseBreakpoint(w, b) = w
    BY <1>1 DEF ReleaseBreakpoint
  <2>2. \A q \in DOMAIN w.physical : b \notin w.physical[q].owners
    BY <1>1, PhysicalTyped
  <2> QED BY <1>1, <2>1, <2>2 DEF SameSession, Consistent, GivesUp
<1>2. CASE b \in DOMAIN w.breakpoints
  <2> DEFINE bp == w.breakpoints[b]
             u == [w EXCEPT !.pending = @ \ bp.mappings]
             S == {p \in DOMAIN bp.bindings : p \in DOMAIN w.physical}
             v == DisownAll(u, b, S)
  <2>1. ReleaseBreakpoint(w, b) = v
    BY <1>2 DEF ReleaseBreakpoint, DisownAll, OverKeys, OneByOne
  <2>2. u \in Assessed(w, {})
    <3>1. bp.mappings \subseteq MapEffects
      BY <1>2, StateTyped, BreakpointFields
    <3> QED BY <3>1, EffectKinds, TakenAssesses
  <2>3. /\ IsState(u) /\ States(u) = States(w) /\ Consistent(u, Q) /\ SameSession(u, w)
        /\ u.breakpoints = w.breakpoints /\ u.physical = w.physical /\ u.scripts = w.scripts
    <3>1. IsState(u) /\ States(u) = States(w) /\ Consistent(u, Q)
      BY <2>2, AssessedIsState, AssessedConsistent
    <3>2. SameSession(u, w)
      BY <2>2 DEF Assessed, Assesses
    <3>3. u.breakpoints = w.breakpoints /\ u.physical = w.physical /\ u.scripts = w.scripts
      BY DEF IsState, States, StatesOver
    <3> QED BY <3>1, <3>2, <3>3
  <2>a. u.pending = w.pending \ bp.mappings
    BY DEF IsState, States, StatesOver
  <2>4. /\ S \in SUBSET DOMAIN u.physical
        /\ \A q \in DOMAIN w.physical : q \notin S => b \notin w.physical[q].owners
    <3>1. \A q \in DOMAIN w.physical : q \in PhysicalKey
      BY PhysicalTyped
    <3> QED BY <1>2, <2>3, <3>1 DEF Consistent, Bound, BoundAt
  <2> HIDE DEF u, S
  <2>5. Disowned(v, u, Q, b, S)
    BY <1>2, <2>3, <2>4, DisownLoop DEF Consistent
  <2> HIDE DEF v
  <2>6. ASSUME NEW q \in DOMAIN w.physical
        PROVE  /\ v.physical[q].owners = w.physical[q].owners \ {b}
               /\ \/ v.physical[q].status = w.physical[q].status
                  \/ /\ v.physical[q].owners = {} /\ w.physical[q].status = "installed"
                     /\ v.physical[q].status = "removing"
    BY <2>3, <2>4, <2>5 DEF Disowned
  <2>7. SameSession(v, w) /\ v.scripts = w.scripts
    BY <2>3, <2>5 DEF Disowned, SameButBindings, SameSession
  <2>8. GivesUp(v, w, bp.mappings)
    BY <2>a, <2>5 DEF Disowned, AddsPhysical, GivesUp
  <2> QED BY <1>2, <2>1, <2>3, <2>5, <2>6, <2>7, <2>8 DEF Disowned
<1> QED BY <1>1, <1>2

\* The execution of the session is the same.
SameExecution(v, w) ==
  /\ v.phase = w.phase /\ v.epoch = w.epoch /\ v.nextEpoch = w.nextEpoch
  /\ v.pause = NoPause <=> w.pause = NoPause
  /\ w.pause # NoPause => v.pause.epoch = w.pause.epoch

\* An input that says nothing of the specifications and of the execution.
Continues(v, w, Q) ==
  Follows(v, w, Q) /\ SameExecution(v, w) /\ SpecsOf(v) = SpecsOf(w)

\* Doing nothing prepares for a reconciliation.
LEMMA PreparesReflexive ==
  ASSUME NEW w, IsState(w), NEW Q, Consistent(w, Q)
  PROVE  Prepares(w, w, Q)
BY DEF Prepares, Grows, KeepsHeld, Survives

\* An input may reconcile.
LEMMA ReconcilesContinues ==
  ASSUME NEW w, NEW Q, IsState(w), Consistent(w, Q), NEW T, NEW v, Reconciles(v, w, Q, T)
  PROVE  Continues(v, w, Q)
<1>1. Follows(v, w, Q) /\ SameSession(v, w) /\ SpecsOf(v) = SpecsOf(w)
  BY PreparesReflexive, PreparedFollows
<1> QED BY <1>1 DEF Continues, SameSession, SameExecution

\* An input may leave the physical breakpoints alone.
LEMMA AssessedContinues ==
  ASSUME NEW w, NEW Q, IsState(w), Consistent(w, Q), NEW T, NEW v \in Assessed(w, T)
  PROVE  Continues(v, w, Q)
<1>1. Reconciles(v, w, Q, T)
  BY AssessedReconciles
<1> QED BY <1>1, ReconcilesContinues

\* v is an assessment of w and is reconciled to u.
LEMMA AssessedThenReconciles ==
  ASSUME NEW w, NEW Q, IsState(w), Consistent(w, Q), NEW v \in Assessed(w, {}),
         NEW T, NEW u, Reconciles(u, v, Q, T)
  PROVE  Reconciles(u, w, Q, T)
<1>1. Reconciles(v, w, Q, {})
  BY AssessedReconciles
<1>2. {} \cap T = {} /\ {} \cup T = T
  OBVIOUS
<1> QED BY <1>1, <1>2, ReconcilesTransitive

\* v is reconciled from w and assessed to u.
LEMMA ReconcilesThenAssessed ==
  ASSUME NEW w, NEW Q, NEW T, NEW v, Reconciles(v, w, Q, T), NEW u \in Assessed(v, {})
  PROVE  Reconciles(u, w, Q, T)
<1>1. Reconciles(u, v, Q, {})
  BY AssessedReconciles DEF Reconciles
<1>2. T \cap {} = {} /\ T \cup {} = T
  OBVIOUS
<1> QED BY <1>1, <1>2, ReconcilesTransitive

\* Whether effects are owed says nothing of the rest of the state.
LEMMA SameEffects ==
  ASSUME NEW w, NEW v, v.physical = w.physical, v.pending = w.pending, v.out = w.out, NEW Q
  PROVE  (Asked(w) => Asked(v)) /\ (Owed(w, Q) => Owed(v, Q))
BY DEF Asked, AskedAt, Owed, Fits

\* A map whose values are in C is a map into C.
LEMMA MapsInto ==
  ASSUME NEW A, NEW B, NEW C, NEW f \in Maps(A, B), \A k \in DOMAIN f : f[k] \in C
  PROVE  f \in Maps(A, C)
<1>1. DOMAIN f \in SUBSET A /\ IsFiniteSet(DOMAIN f) /\ f = [k \in DOMAIN f |-> f[k]]
  BY MapsHave
<1>2. f \in [DOMAIN f -> C]
  BY <1>1
<1> QED BY <1>1, <1>2, MapsAre

\* A state with another set of breakpoints is a state.
LEMMA BreakpointsChanged ==
  ASSUME NEW D, NEW B, NEW w \in StatesOver(D, B), NEW R, NEW y \in [R -> BreakpointOver(D)],
         w.physical \in Maps(KeysOver(D), PhysicalOver(R))
  PROVE  [w EXCEPT !.breakpoints = y] \in StatesOver(D, R)
BY DEF StatesOver

\* A breakpoint that was just set is a breakpoint (NewBreakpoint).
LEMMA NewBreakpointTyped ==
  ASSUME NEW D, NEW g \in Nat, NEW source \in Urls, NEW condition \in Conditions
  PROVE  NewBreakpoint(g, source, condition) \in BreakpointOver(D)
<1>1. EmptyIndex \in IndexOver(D)
  BY DEF EmptyIndex, IndexOver
<1>2. <<>> \in Maps(D, AssessmentState) /\ <<>> \in Maps(PhysicalKey, BindingStates)
  BY MapsEmpty
<1> QED BY <1>1, <1>2 DEF NewBreakpoint, BreakpointOver

\* SetBreakpoint before its reconciliation.
Replaced(w, b, source, condition) ==
  LET generation == IF b \in DOMAIN w.breakpoints THEN w.breakpoints[b].generation + 1 ELSE 1
      r == ReleaseBreakpoint(w, b)
  IN [r EXCEPT !.breakpoints = With(r.breakpoints, b, NewBreakpoint(generation, source, condition))]

\* Replacing a breakpoint by its new generation keeps what the others hold and asks
\* for the removal of what nobody owns any longer (SetBreakpoint).
LEMMA ReplacedPrepares ==
  ASSUME NEW w, IsState(w), NEW Q, Consistent(w, Q), NEW b \in Breakpoints,
         NEW source \in Urls, NEW condition \in Conditions
  PROVE  LET v == Replaced(w, b, source, condition)
         IN /\ Prepares(v, w, Q) /\ SameSession(v, w) /\ b \in DOMAIN v.breakpoints
            /\ v.scripts = w.scripts
            /\ SpecsOf(v) \subseteq SpecsOf(w) \cup {SpecFor(b, source, condition)}
<1> DEFINE g == IF b \in DOMAIN w.breakpoints THEN w.breakpoints[b].generation + 1 ELSE 1
           r == ReleaseBreakpoint(w, b)
           new == NewBreakpoint(g, source, condition)
           x == With(r.breakpoints, b, new)
           v == Replaced(w, b, source, condition)
           B == DOMAIN w.breakpoints
           D == DOMAIN w.scripts
<1>1. g \in Nat /\ (b \in B => g # w.breakpoints[b].generation)
  BY StateTyped, BreakpointFields
<1>2. new \in BreakpointOver(D) /\ new.bindings = <<>> /\ new.generation = g
      /\ new.source = source /\ new.condition = condition
  <2>1. new \in BreakpointOver(D)
    BY <1>1, NewBreakpointTyped
  <2> QED BY <2>1 DEF NewBreakpoint
<1> HIDE DEF g, new
<1>3. /\ IsState(r) /\ States(r) = States(w) /\ r.breakpoints = w.breakpoints
      /\ r.scripts = w.scripts /\ SameSession(r, w)
      /\ Asked(r) /\ Owed(r, Q) /\ DOMAIN r.physical = DOMAIN w.physical
      /\ \A q \in DOMAIN w.physical :
           /\ r.physical[q].owners = w.physical[q].owners \ {b}
           /\ \/ r.physical[q].status = w.physical[q].status
              \/ /\ r.physical[q].owners = {} /\ w.physical[q].status = "installed"
                 /\ r.physical[q].status = "removing"
  BY ReleaseBreakpointDisowns
<1> HIDE DEF r
<1>4. v = [r EXCEPT !.breakpoints = x]
  BY DEF Replaced, r, g, new
<1>5. DOMAIN x = B \cup {b} /\ x[b] = new /\ (\A c \in B : c # b => x[c] = w.breakpoints[c])
      /\ x \in [B \cup {b} -> BreakpointOver(D)]
  <2>1. w.breakpoints \in [B -> BreakpointOver(D)]
    BY StateFields DEF IsState, States
  <2> QED BY <1>2, <1>3, <2>1 DEF With
<1> HIDE DEF x
<1>6. v \in StatesOver(D, B \cup {b})
  <2>1. r \in StatesOver(D, B) /\ r.physical \in Maps(KeysOver(D), PhysicalOver(B))
    BY <1>3, StateFields DEF IsState, States
  <2>2. \A q \in DOMAIN r.physical : r.physical[q] \in PhysicalOver(B \cup {b})
    <3>1. \A q \in DOMAIN r.physical : r.physical[q] \in PhysicalOver(B)
      BY <2>1, MapsHave
    <3> QED BY <3>1 DEF PhysicalOver
  <2>3. r.physical \in Maps(KeysOver(D), PhysicalOver(B \cup {b}))
    BY <2>1, <2>2, MapsInto
  <2> QED BY <1>4, <1>5, <2>1, <2>3, BreakpointsChanged
<1>7. /\ v.breakpoints = x /\ v.physical = r.physical /\ v.pending = r.pending
      /\ v.out = r.out /\ v.scripts = r.scripts
      /\ v.phase = r.phase /\ v.epoch = r.epoch /\ v.nextEpoch = r.nextEpoch
      /\ v.pause = r.pause /\ v.waiting = r.waiting
  BY <1>3, <1>4 DEF IsState, States, StatesOver
<1>8. IsState(v)
  <2>1. IsFiniteSet(B \cup {b}) /\ B \cup {b} \in SUBSET Breakpoints
    BY FS_AddElement DEF IsState, BreakpointSets
  <2> QED BY <1>3, <1>5, <1>6, <1>7, <2>1 DEF IsState, States, BreakpointSets
<1>9. SameSession(v, w) /\ v.scripts = w.scripts
  BY <1>3, <1>7 DEF SameSession
<1> HIDE DEF v
<1>10. Asked(v) /\ Owed(v, Q)
  BY <1>3, <1>7, SameEffects
<1>11. ASSUME NEW c \in DOMAIN v.breakpoints, NEW p \in PhysicalKey PROVE BoundAt(v, c, p)
  <2>1. CASE c = b
    <3>1. DOMAIN v.breakpoints[c].bindings = {}
      BY <1>2, <1>5, <1>7, <2>1
    <3> QED BY <1>3, <1>7, <2>1, <3>1 DEF BoundAt
  <2>2. CASE c # b
    <3>1. c \in B /\ v.breakpoints[c] = w.breakpoints[c] /\ BoundAt(w, c, p)
      BY <1>5, <1>7, <2>2 DEF Consistent, Bound
    <3>2. ASSUME p \in DOMAIN w.physical, c \in w.physical[p].owners
          PROVE  c \in v.physical[p].owners /\ v.physical[p].status = w.physical[p].status
      BY <1>3, <1>7, <2>2, <3>2
    <3>3. ASSUME p \in DOMAIN w.physical, c \notin w.physical[p].owners
          PROVE  c \notin v.physical[p].owners
      BY <1>3, <1>7, <3>3
    <3> QED BY <1>3, <1>7, <3>1, <3>2, <3>3 DEF BoundAt
  <2> QED BY <2>1, <2>2
<1>12. Consistent(v, Q)
  BY <1>10, <1>11 DEF Consistent, Bound
<1>13. Grows(v, w)
  BY <1>3, <1>7 DEF Grows
<1>14. ASSUME NEW c, Survives(v, w, c) PROVE KeepsHeld(v, w, c)
  <2>1. c # b
    BY <1>1, <1>2, <1>5, <1>7, <1>14 DEF Survives
  <2> QED BY <1>3, <1>7, <2>1 DEF KeepsHeld, Holds
<1>15. SpecsOf(v) \subseteq SpecsOf(w) \cup {SpecFor(b, source, condition)}
  BY <1>2, <1>5, <1>7 DEF SpecsOf
<1> QED BY <1>5, <1>7, <1>8, <1>9, <1>12, <1>13, <1>14, <1>15 DEF Prepares, v

\* What SetBreakpoint and RemoveBreakpoint come to.
Sets(v, w, Q, specs) ==
  Follows(v, w, Q) /\ SameExecution(v, w) /\ SpecsOf(v) \subseteq SpecsOf(w) \cup specs

\* A reconciliation completes an input that sets or removes a breakpoint.
LEMMA PreparedSets ==
  ASSUME NEW w, NEW Q, NEW v, Prepares(v, w, Q), SameSession(v, w), NEW specs,
         SpecsOf(v) \subseteq SpecsOf(w) \cup specs,
         NEW T, NEW u, Reconciles(u, v, Q, T)
  PROVE  Sets(u, w, Q, specs)
<1>1. Follows(u, w, Q) /\ SameSession(u, v) /\ SpecsOf(u) = SpecsOf(v)
  BY PreparedFollows
<1> QED BY <1>1 DEF Sets, SameSession, SameExecution

\* Setting a breakpoint adds its specification and keeps what the others hold
\* (SetBreakpoint).
LEMMA SetBreakpointSets ==
  ASSUME NEW w, IsState(w), NEW Q, Consistent(w, Q), NEW b \in Breakpoints,
         NEW source \in Urls, NEW condition \in Conditions
  PROVE  Sets(SetBreakpoint(w, b, source, condition), w, Q, {SpecFor(b, source, condition)})
<1> DEFINE v == Replaced(w, b, source, condition)
           failed == {s \in DOMAIN w.scripts :
                        w.scripts[s].source = "failed" /\ MayExpose(s, source)}
           u == HydrateAll(v, failed, TRUE)
<1>1. /\ Prepares(v, w, Q) /\ SameSession(v, w) /\ b \in DOMAIN v.breakpoints
      /\ v.scripts = w.scripts
      /\ SpecsOf(v) \subseteq SpecsOf(w) \cup {SpecFor(b, source, condition)}
  BY ReplacedPrepares
<1>2. IsState(v) /\ Consistent(v, Q)
  BY <1>1 DEF Prepares
<1>3. SetBreakpoint(w, b, source, condition) =
        IF failed = {} THEN ReconcileBreakpoint(v, b) ELSE ReconcileAll(u)
  BY <1>2 DEF SetBreakpoint, Replaced, HydrateAll, InOrder, OneByOne
<1> HIDE DEF v
<1>4. Reconciles(ReconcileBreakpoint(v, b), v, Q, {b})
  BY <1>1, <1>2, ReconcileBreakpointReconciles
<1>5. \E T : Reconciles(ReconcileAll(u), v, Q, T)
  <2>1. failed \in SUBSET Scripts /\ IsFiniteSet(failed)
    BY FS_Subset DEF IsState, KeySets
  <2> HIDE DEF failed
  <2>2. u \in Assessed(v, {})
    BY <1>2, <2>1, HydrateLoop
  <2>3. IsState(u) /\ Consistent(u, Q)
    BY <1>2, <2>2, AssessedIsState, AssessedConsistent
  <2> HIDE DEF u
  <2>4. Reconciles(ReconcileAll(u), u, Q, DOMAIN u.breakpoints)
    BY <2>3, ReconcileAllReconciles
  <2> QED BY <1>2, <2>2, <2>4, AssessedThenReconciles
<1> HIDE DEF u, failed
<1>6. \E T : Reconciles(SetBreakpoint(w, b, source, condition), v, Q, T)
  BY <1>3, <1>4, <1>5
<1> QED BY <1>1, <1>6, PreparedSets

\* Removing a breakpoint adds no specification and keeps what the others hold
\* (RemoveBreakpoint).
LEMMA RemoveBreakpointSets ==
  ASSUME NEW w, IsState(w), NEW Q, Consistent(w, Q), NEW b
  PROVE  Sets(RemoveBreakpoint(w, b), w, Q, {})
<1> DEFINE r == ReleaseBreakpoint(w, b)
           x == Without(r.breakpoints, {b})
           v == RemoveBreakpoint(w, b)
           B == DOMAIN w.breakpoints
           D == DOMAIN w.scripts
<1>3. /\ IsState(r) /\ States(r) = States(w) /\ r.breakpoints = w.breakpoints
      /\ r.scripts = w.scripts /\ SameSession(r, w)
      /\ Asked(r) /\ Owed(r, Q) /\ DOMAIN r.physical = DOMAIN w.physical
      /\ \A q \in DOMAIN w.physical :
           /\ r.physical[q].owners = w.physical[q].owners \ {b}
           /\ \/ r.physical[q].status = w.physical[q].status
              \/ /\ r.physical[q].owners = {} /\ w.physical[q].status = "installed"
                 /\ r.physical[q].status = "removing"
  BY ReleaseBreakpointDisowns
<1>4. v = [r EXCEPT !.breakpoints = x]
  BY <1>3 DEF RemoveBreakpoint
<1> HIDE DEF r
<1>5. DOMAIN x = B \ {b} /\ (\A c \in B \ {b} : x[c] = w.breakpoints[c])
      /\ x \in [B \ {b} -> BreakpointOver(D)]
  <2>1. w.breakpoints \in [B -> BreakpointOver(D)]
    BY StateFields DEF IsState, States
  <2> QED BY <1>3, <2>1 DEF Without
<1> HIDE DEF x
<1>6. v \in StatesOver(D, B \ {b})
  <2>1. r \in StatesOver(D, B) /\ r.physical \in Maps(KeysOver(D), PhysicalOver(B))
    BY <1>3, StateFields DEF IsState, States
  <2>2. \A q \in DOMAIN r.physical : r.physical[q] \in PhysicalOver(B \ {b})
    <3>1. \A q \in DOMAIN r.physical : r.physical[q] \in PhysicalOver(B)
      BY <2>1, MapsHave
    <3>2. \A q \in DOMAIN r.physical : r.physical[q].owners \in SUBSET (B \ {b})
      <4> SUFFICES ASSUME NEW q \in DOMAIN r.physical
                   PROVE  r.physical[q].owners \in SUBSET (B \ {b})
        OBVIOUS
      <4>1. r.physical[q].owners = w.physical[q].owners \ {b}
        BY <1>3
      <4>2. w.physical[q].owners \in SUBSET B
        BY <1>3, PhysicalTyped
      <4> QED BY <4>1, <4>2
    <3> QED BY <3>1, <3>2 DEF PhysicalOver
  <2>3. r.physical \in Maps(KeysOver(D), PhysicalOver(B \ {b}))
    BY <2>1, <2>2, MapsInto
  <2> QED BY <1>4, <1>5, <2>1, <2>3, BreakpointsChanged
<1>7. /\ v.breakpoints = x /\ v.physical = r.physical /\ v.pending = r.pending
      /\ v.out = r.out /\ v.scripts = r.scripts
      /\ v.phase = r.phase /\ v.epoch = r.epoch /\ v.nextEpoch = r.nextEpoch
      /\ v.pause = r.pause /\ v.waiting = r.waiting
  BY <1>3, <1>4 DEF IsState, States, StatesOver
<1>8. IsState(v)
  <2>1. IsFiniteSet(B \ {b}) /\ B \ {b} \in SUBSET Breakpoints
    BY FS_Subset DEF IsState, BreakpointSets
  <2> QED BY <1>3, <1>5, <1>6, <1>7, <2>1 DEF IsState, States, BreakpointSets
<1>9. SameExecution(v, w)
  BY <1>3, <1>7 DEF SameSession, SameExecution
<1> HIDE DEF v
<1>10. Asked(v) /\ Owed(v, Q)
  BY <1>3, <1>7, SameEffects
<1>11. ASSUME NEW c \in DOMAIN v.breakpoints, NEW p \in PhysicalKey PROVE BoundAt(v, c, p)
  <2>1. c \in B /\ c # b /\ v.breakpoints[c] = w.breakpoints[c] /\ BoundAt(w, c, p)
    BY <1>5, <1>7 DEF Consistent, Bound
  <2>2. ASSUME p \in DOMAIN w.physical, c \in w.physical[p].owners
        PROVE  c \in v.physical[p].owners /\ v.physical[p].status = w.physical[p].status
    BY <1>3, <1>7, <2>1, <2>2
  <2>3. ASSUME p \in DOMAIN w.physical, c \notin w.physical[p].owners
        PROVE  c \notin v.physical[p].owners
    BY <1>3, <1>7, <2>3
  <2> QED BY <1>3, <1>7, <2>1, <2>2, <2>3 DEF BoundAt
<1>12. Consistent(v, Q)
  BY <1>10, <1>11 DEF Consistent, Bound
<1>13. Grows(v, w)
  BY <1>3, <1>7 DEF Grows
<1>14. ASSUME NEW c, Survives(v, w, c) PROVE Stays(v, w, c)
  <2>1. c # b
    BY <1>5, <1>7, <1>14 DEF Survives
  <2> QED BY <1>3, <1>7, <2>1 DEF Stays, Holds
<1>15. SpecsOf(v) \subseteq SpecsOf(w) \cup {}
  BY <1>5, <1>7 DEF SpecsOf
<1> QED BY <1>8, <1>9, <1>12, <1>13, <1>14, <1>15 DEF Sets, Follows, v

-----------------------------------------------------------------------------
(***************************************************************************)
(* The completions of effects about breakpoints.                           *)
(***************************************************************************)
\* What comes back from mapping a breakpoint.
LEMMA BreakpointMappedContinues ==
  ASSUME NEW w, IsState(w), NEW Q, Consistent(w, Q), NEW e \in Effects, e.kind = "map",
         NEW P \in SUBSET Positions, IsFiniteSet(P)
  PROVE  Continues(BreakpointMapped(w, e, P), w, Q)
<1> DEFINE b == e.breakpoint
           s == e.script
           status == IF P = {} THEN "unmapped" ELSE "applicable"
           a == [Assessment(e.version, status) EXCEPT !.candidate = e.candidate, !.positions = P]
           x == [w.breakpoints[b] EXCEPT !.mappings = @ \ {e}]
           taken == TakePending(w, e)
           v == [taken EXCEPT !.breakpoints[b].mappings = @ \ {e}]
           u == SetAssessment(v, b, s, a)
<1>1. e \in MapEffects /\ ~IsPhysicalEffect(e)
  <2>1. e \in MapEffects
    BY DEF Effects, SourceEffects, PhysicalEffects, FrameEffects, SessionEffects
  <2> QED BY <2>1, EffectKinds
<1>2. CASE e \in w.pending /\ IsCurrentMapping(w, e)
  <2>1. b \in DOMAIN w.breakpoints /\ s \in DOMAIN w.scripts
    BY <1>2 DEF IsCurrentMapping
  <2>2. a \in AssessmentState
    <3>1. e.version \in Nat /\ e.candidate \in AnyCandidate
      BY <1>1 DEF MapEffects
    <3>2. status \in {"waiting", "mapping", "applicable", "unmapped",
                      "failed", "notFound", "ambiguous"}
      OBVIOUS
    <3> HIDE DEF status
    <3> QED BY <3>1, <3>2, AssessmentTyped
  <2>3. w.breakpoints[b] \in BreakpointOver(DOMAIN w.scripts) /\ w.pending \in SUBSET Effects
    BY <2>1, StateTyped
  <2>4. x \in BreakpointOver(DOMAIN w.scripts)
    <3>1. w.breakpoints[b].mappings \ {e} \in SUBSET MapEffects
      BY <2>3, BreakpointFields
    <3> QED BY <2>3, <3>1, MappingsSet
  <2>5. /\ x.generation = w.breakpoints[b].generation /\ x.source = w.breakpoints[b].source
        /\ x.condition = w.breakpoints[b].condition /\ x.bindings = w.breakpoints[b].bindings
    BY <2>3 DEF BreakpointOver
  <2>6. [w EXCEPT !.pending = w.pending \ {e}, !.breakpoints[b] = x] \in Assessed(w, {b})
    <3> HIDE DEF x
    <3> QED BY <1>1, <2>1, <2>3, <2>4, <2>5, BreakpointAssessed
  <2>7. v = [w EXCEPT !.pending = w.pending \ {e}, !.breakpoints[b] = x]
    BY DEF TakePending, IsState, States, StatesOver
  <2>8. v \in Assessed(w, {b})
    BY <2>6, <2>7
  <2>9. IsState(v) /\ b \in DOMAIN v.breakpoints /\ s \in DOMAIN v.scripts
    BY <2>1, <2>8, AssessedIsState
  <2>10. u \in Assessed(v, {b})
    <3> HIDE DEF v, a
    <3> QED BY <2>2, <2>9, SetAssessmentAssesses
  <2>11. u \in Assessed(w, {b})
    <3> HIDE DEF u, v
    <3> QED BY <2>8, <2>10, AssessedTransitive
  <2>12. BreakpointMapped(w, e, P) = ReconcilePhysicalBindings(u, b)
    BY <1>2 DEF BreakpointMapped
  <2>13. Reconciles(ReconcilePhysicalBindings(u, b), w, Q, {b})
    <3> HIDE DEF u
    <3> QED BY <2>1, <2>11, AssessedThenReconciled
  <2> QED BY <2>12, <2>13, ReconcilesContinues
<1>3. CASE ~(e \in w.pending /\ IsCurrentMapping(w, e))
  <2>1. BreakpointMapped(w, e, P) = taken
    BY <1>3 DEF BreakpointMapped
  <2>2. taken \in Assessed(w, {})
    BY <1>1, TakenAssesses DEF TakePending
  <2> QED BY <2>1, <2>2, AssessedContinues
<1> QED BY <1>2, <1>3

\* v is w once the browser answered effect e on a physical breakpoint.
HasTaken(v, w, Q, e) ==
  /\ IsState(v) /\ States(v) = States(w)
  /\ v.breakpoints = w.breakpoints /\ v.physical = w.physical /\ v.scripts = w.scripts
  /\ SameButBindings(v, w)
  /\ Bound(v) /\ Owed(v, Q) /\ NoEffectOn(v, Q, e.physical)
  /\ \A q \in DOMAIN w.physical : q # e.physical => AskedAt(v, q)
  /\ e \in w.pending /\ e.physical \in DOMAIN w.physical
  /\ w.physical[e.physical].status = IF e.kind = "install" THEN "installing" ELSE "removing"

\* Taking a pending physical effect (TakePending): its key is the only one the state
\* no longer asks for.
LEMMA PhysicalTaken ==
  ASSUME NEW w, IsState(w), NEW e \in Effects, IsPhysicalEffect(e), w.out = <<>>,
         NEW Q, e \notin Q, Consistent(w, Q \cup {e})
  PROVE  HasTaken(TakePending(w, e), w, Q, e)
<1> DEFINE p == e.physical
           v == TakePending(w, e)
<1>1. \A x \in Effects : IsPhysicalEffect(x) => x \in PhysicalEffects
  BY DEF Effects, IsPhysicalEffect, MapEffects, SourceEffects, FrameEffects, SessionEffects
<1>2. Fits(w, e) /\ \A x \in Q : IsPhysicalEffect(x) => Fits(w, x)
  BY DEF Consistent, Owed
<1>3. ASSUME NEW x \in Q, IsPhysicalEffect(x) PROVE x.physical # p /\ x # e
  <2>1. x \in PhysicalEffects /\ e \in PhysicalEffects
    BY <1>1, <1>2, <1>3, StateTyped DEF Fits
  <2>2. x.kind = e.kind \/ x.physical # p
    BY <1>2, <1>3, <2>1 DEF Fits, PhysicalEffects
  <2>3. x # e
    OBVIOUS
  <2> QED BY <2>1, <2>2, <2>3 DEF PhysicalEffects
<1>4. /\ v.pending = w.pending \ {e} /\ v.out = <<>> /\ v.physical = w.physical
      /\ v.breakpoints = w.breakpoints /\ v.scripts = w.scripts
      /\ v.phase = w.phase /\ v.epoch = w.epoch /\ v.nextEpoch = w.nextEpoch
      /\ v.pause = w.pause /\ v.waiting = w.waiting
  BY DEF TakePending, IsState, States, StatesOver
<1>5. IsState(v) /\ States(v) = States(w)
  <2>1. v \in States(w)
    <3>1. w.pending \ {e} \in SUBSET Effects /\ w.out \in Seq(Effects)
      BY StateTyped
    <3>2. w \in StatesOver(DOMAIN w.scripts, DOMAIN w.breakpoints)
      BY DEF IsState, States
    <3>3. [w EXCEPT !.pending = w.pending \ {e}] \in
            StatesOver(DOMAIN w.scripts, DOMAIN w.breakpoints)
      BY <3>1, <3>2, EffectsSet
    <3> QED BY <3>3 DEF TakePending, States
  <2> QED BY <1>4, <2>1 DEF IsState, States
<1> HIDE DEF v
<1>6. SameButBindings(v, w)
  BY <1>4 DEF SameButBindings, SameSpecification
<1>7. Bound(v)
  BY <1>4 DEF Consistent, Bound, BoundAt
<1>8. Owed(v, Q) /\ NoEffectOn(v, Q, p)
  BY <1>2, <1>3, <1>4 DEF Owed, NoEffectOn, Fits
<1>9. ASSUME NEW q \in DOMAIN w.physical, q # p PROVE AskedAt(v, q)
  <2>1. AskedAt(w, q)
    BY DEF Consistent, Asked
  <2>2. InstallEffect(q) # e /\ RemoveEffect(q) # e
    BY <1>9 DEF InstallEffect, RemoveEffect
  <2> QED BY <1>4, <2>1, <2>2 DEF AskedAt
<1> QED BY <1>2, <1>4, <1>5, <1>6, <1>7, <1>8, <1>9 DEF HasTaken, Fits, v

\* Several breakpoints are bound one after the other.
SettleAll(w, S) == InOrder(LAMBDA v, b : ReconcilePhysicalBindings(v, b), w, S)

\* What settling a breakpoint keeps, the loop over the owners keeps.
LEMMA SettleAllStays ==
  ASSUME NEW w, NEW S \in SUBSET Breakpoints, IsFiniteSet(S), NEW W, w \in W[{}],
         \A T \in SUBSET S : \A b \in T : \A v \in W[T \ {b}] : ReconcilePhysicalBindings(v, b) \in W[T]
  PROVE  SettleAll(w, S) \in W[S]
<1> DEFINE op(v, b) == ReconcilePhysicalBindings(v, b)
           last == [T \in (SUBSET S) \ {{}} |-> Greatest(T)]
           U == UNION {W[T] : T \in SUBSET S}
           step == [b \in S |-> [v \in U |-> op(v, b)]]
           rhs(g) == [T \in SUBSET S |->
                        IF T = {} THEN w ELSE op(g[T \ {Greatest(T)}], Greatest(T))]
           table == CHOOSE g : g = rhs(g)
<1>1. \A T \in (SUBSET S) \ {{}} : /\ last[T] = Greatest(T) /\ last[T] \in T
                                     /\ last[T] \in S /\ T \ {last[T]} \in SUBSET S
  BY GreatestExists, ReducerAssumption
<1>2. \A T \in SUBSET S : W[T] \subseteq U
  OBVIOUS
<1> HIDE DEF last, op, U
<1>3. \A T \in (SUBSET S) \ {{}} : \A v \in W[T \ {last[T]}] : op(v, last[T]) \in W[T]
  BY <1>1 DEF op
<1>4. PICK f : IsTable(f, S, w, last, step) /\ \A T \in SUBSET S : f[T] \in W[T]
  <2>1. \A T \in (SUBSET S) \ {{}} : \A v \in W[T \ {last[T]}] : step[last[T]][v] \in W[T]
    BY <1>1, <1>2, <1>3
  <2> HIDE DEF step
  <2> QED BY <1>1, <2>1, LoopStays
<1>5. f = rhs(f)
  <2>1. ASSUME NEW T \in SUBSET S, T # {}
        PROVE  f[T] = op(f[T \ {Greatest(T)}], Greatest(T))
    <3>1. f[T \ {last[T]}] \in U
      BY <1>1, <1>2, <1>4, <2>1
    <3>2. f[T] = step[last[T]][f[T \ {last[T]}]]
      <4> HIDE DEF step
      <4> QED BY <1>4, <2>1 DEF IsTable
    <3> QED BY <1>1, <2>1, <3>1, <3>2
  <2> HIDE DEF step
  <2> QED BY <1>4, <2>1 DEF IsTable
<1>6. table = rhs(table)
  <2> HIDE DEF rhs
  <2> QED BY <1>5
<1>7. SettleAll(w, S) = table[S]
  BY DEF SettleAll, InOrder, OneByOne, op
<1> HIDE DEF table
<1>8. table[{}] \in W[{}]
  BY <1>6
<1>9. \A T \in (SUBSET S) \ {{}} : table[T] = op(table[T \ {last[T]}], last[T])
  BY <1>1, <1>6
<1> HIDE DEF rhs
<1>10. \A T \in (SUBSET S) \ {{}} :
         table[T \ {last[T]}] \in W[T \ {last[T]}] => table[T] \in W[T]
  BY <1>3, <1>9
<1>11. table[S] \in W[S]
  BY <1>1, <1>8, <1>10, LoopEnds
<1> QED BY <1>7, <1>11

\* The loop that reconciles the owners of a breakpoint that was installed
\* (BreakpointInstalled).
LEMMA SettleLoop ==
  ASSUME NEW w, IsState(w), NEW Q, Consistent(w, Q), NEW S \in SUBSET DOMAIN w.breakpoints
  PROVE  Reconciles(SettleAll(w, S), w, Q, S)
<1> DEFINE op(v, b) == ReconcilePhysicalBindings(v, b)
           U == States(w)
           W == [T \in SUBSET S |-> {v \in U : Reconciles(v, w, Q, T)}]
<1>a. S \in SUBSET Breakpoints /\ IsFiniteSet(S)
  BY StateTyped, ReducerAssumption, FS_Subset
<1>2. ASSUME NEW T \in SUBSET S, NEW b \in T, NEW v \in W[T \ {b}]
      PROVE  op(v, b) \in W[T]
  <2>1. Reconciles(v, w, Q, T \ {b})
    OBVIOUS
  <2>2. IsState(v) /\ Consistent(v, Q) /\ b \in DOMAIN v.breakpoints
        /\ DOMAIN v.scripts = DOMAIN w.scripts
    BY <2>1 DEF Reconciles
  <2>3. Reconciles(op(v, b), v, Q, {b})
    BY <2>2, AssessedReflexive, AssessedThenReconciled
  <2> HIDE DEF op
  <2>4. (T \ {b}) \cap {b} = {} /\ (T \ {b}) \cup {b} = T
    OBVIOUS
  <2>5. Reconciles(op(v, b), w, Q, T)
    BY <2>1, <2>3, <2>4, ReconcilesTransitive
  <2>6. op(v, b) \in U
    BY <2>5 DEF Reconciles, IsState
  <2> QED BY <2>5, <2>6
<1>3. w \in W[{}]
  <2>1. Reconciles(w, w, Q, {}) /\ w \in U
    BY ReconcilesReflexive DEF IsState
  <2> QED BY <2>1
<1>4. \A T \in SUBSET S : \A k \in T : \A v \in W[T \ {k}] : op(v, k) \in W[T]
  BY <1>2
<1>5. SettleAll(w, S) \in W[S]
  <2> HIDE DEF W
  <2> QED BY <1>3, <1>4, <1>a, SettleAllStays
<1> QED BY <1>5

\* What an answer on the physical breakpoint p comes to.
Answers(v, w, Q, p, S) ==
  /\ IsState(v) /\ Consistent(v, Q) /\ SameExecution(v, w) /\ SpecsOf(v) = SpecsOf(w)
  /\ DOMAIN w.physical \ S \subseteq DOMAIN v.physical
  /\ \A q \in DOMAIN v.physical : v.physical[q].status = "installed" =>
        (q = p /\ p \notin S) \/ (q \in DOMAIN w.physical /\ w.physical[q].status = "installed")
  /\ \A c : Survives(v, w, c) => Stays(v, w, c)

\* u is w once the browser installed physical breakpoint p for owners O.
HasInstalled(u, w, Q, p, O) ==
  /\ IsState(u) /\ States(u) = States(w) /\ DOMAIN u.breakpoints = DOMAIN w.breakpoints
  /\ DOMAIN u.physical = DOMAIN w.physical
  /\ u.physical[p].owners = O /\ u.physical[p].status = "installed"
  /\ \A q \in DOMAIN w.physical : q # p => u.physical[q] = w.physical[q]
  /\ u.scripts = w.scripts /\ SameButBindings(u, w)
  /\ \A c \in DOMAIN w.breakpoints :
       DOMAIN u.breakpoints[c].bindings = DOMAIN w.breakpoints[c].bindings
  /\ \A x : ~IsPhysicalEffect(x) => (x \in u.pending <=> x \in w.pending)
  /\ Owed(u, Q) /\ NoEffectOn(u, Q, p) /\ Bound(u)
  /\ \A q \in DOMAIN w.physical : q # p => AskedAt(u, q)

\* The bindings that an answer to an installation updates, before anything is settled
\* (BreakpointInstalled).
LEMMA InstalledIs ==
  ASSUME NEW w, IsState(w), NEW e \in Effects, e.kind = "install", w.out = <<>>,
         NEW Q, e \notin Q, Consistent(w, Q \cup {e})
  PROVE  LET p == e.physical
             O == w.physical[p].owners
             y == [TakePending(w, e) EXCEPT !.physical[p].status = "installed"]
             u == SetBindings(y, O, p, "installed")
         IN /\ HasInstalled(u, w, Q, p, O)
            /\ e \in w.pending /\ p \in DOMAIN w.physical /\ w.physical[p].status = "installing"
            /\ p \in PhysicalKey /\ O \in SUBSET DOMAIN w.breakpoints
            /\ BreakpointInstalled(w, e) =
                  IF O = {} THEN SchedulePhysicalRemoval(u, p) ELSE SettleAll(u, O)
<1> DEFINE p == e.physical
           O == w.physical[p].owners
           t == TakePending(w, e)
           y == [t EXCEPT !.physical[p].status = "installed"]
           u == SetBindings(y, O, p, "installed")
<1>1. HasTaken(t, w, Q, e)
  BY PhysicalTaken DEF IsPhysicalEffect
<1>2. /\ e \in w.pending /\ p \in DOMAIN w.physical /\ w.physical[p].status = "installing"
      /\ p \in PhysicalKey /\ O \in SUBSET DOMAIN w.breakpoints
  BY <1>1, PhysicalTyped DEF HasTaken
<1>3. BreakpointInstalled(w, e) =
        IF O = {} THEN SchedulePhysicalRemoval(u, p) ELSE SettleAll(u, O)
  BY <1>2 DEF BreakpointInstalled, SettleAll, InOrder, OneByOne
<1> HIDE DEF t
<1>4. HasKey(y, t, p, [owners |-> O, status |-> "installed"])
  <2>1. IsState(t) /\ p \in DOMAIN t.physical /\ t.physical[p].owners = O
        /\ O \in SUBSET DOMAIN t.breakpoints
    BY <1>1, <1>2 DEF HasTaken
  <2> HIDE DEF O
  <2> QED BY <2>1, OneKey
<1> HIDE DEF y
<1>5. HasBindings(u, y, O, p, "installed")
  BY <1>2, <1>4, BindingsSet DEF HasKey, BindingStates
<1> HIDE DEF u
<1>6. /\ IsState(u) /\ States(u) = States(w) /\ DOMAIN u.breakpoints = DOMAIN w.breakpoints
      /\ DOMAIN u.physical = DOMAIN w.physical
      /\ u.physical[p].owners = O /\ u.physical[p].status = "installed"
      /\ \A q \in DOMAIN w.physical : q # p => u.physical[q] = w.physical[q]
      /\ u.scripts = w.scripts
  <2>1. /\ IsState(u) /\ States(u) = States(w) /\ DOMAIN u.breakpoints = DOMAIN w.breakpoints
        /\ u.physical = y.physical /\ t.physical = w.physical
    BY <1>1, <1>4, <1>5 DEF HasTaken, HasKey, HasBindings
  <2>2. /\ DOMAIN y.physical = DOMAIN w.physical
        /\ y.physical[p] = [owners |-> O, status |-> "installed"]
        /\ \A q \in DOMAIN w.physical : q # p => y.physical[q] = w.physical[q]
    BY <1>2, <1>4, <2>1 DEF HasKey
  <2>3. u.scripts = w.scripts
    <3>1. u.scripts = y.scripts
      BY <1>5 DEF HasBindings, SameButBindings
    <3>2. y.scripts = t.scripts
      BY <1>4 DEF HasKey, SameButBindings
    <3> QED BY <1>1, <3>1, <3>2 DEF HasTaken
  <2> QED BY <2>1, <2>2, <2>3
<1>7. SameButBindings(u, w)
  <2>1. SameButBindings(y, t)
    BY <1>4 DEF HasKey
  <2>2. SameButBindings(u, y)
    BY <1>5 DEF HasBindings
  <2>3. SameButBindings(u, t)
    BY <1>4, <2>1, <2>2, SameButBindingsTransitive DEF HasKey
  <2> QED BY <1>1, <2>3, SameButBindingsTransitive DEF HasTaken
<1>8. Owed(u, Q) /\ NoEffectOn(u, Q, p)
  <2>1. Owed(y, Q) /\ NoEffectOn(y, Q, p)
    <3>1. /\ y.out = t.out /\ t.pending \subseteq y.pending
          /\ \A q \in DOMAIN t.physical : q # p =>
               q \in DOMAIN y.physical /\ y.physical[q].status = t.physical[q].status
      BY <1>4 DEF HasKey
    <3> QED BY <1>1, <3>1, OwedStays DEF HasTaken
  <2> QED BY <1>5, <2>1, SameEffects DEF HasBindings, NoEffectOn
<1>9. ASSUME NEW c \in DOMAIN w.breakpoints, NEW q \in PhysicalKey PROVE BoundAt(u, c, q)
  <2>1. BoundAt(w, c, q)
    BY DEF Consistent, Bound
  <2>2. /\ c \notin O => u.breakpoints[c] = w.breakpoints[c]
        /\ c \in O => LET now == u.breakpoints[c].bindings
                          before == w.breakpoints[c].bindings
                      IN /\ DOMAIN now = DOMAIN before \cup {p} /\ now[p] = "installed"
                         /\ \A r \in DOMAIN before : r # p => now[r] = before[r]
    BY <1>1, <1>4, <1>5 DEF HasTaken, HasKey, HasBindings
  <2>3. CASE q = p
    <3>1. CASE c \in O
      BY <1>2, <1>6, <2>2, <2>3, <3>1, BindingForTyped DEF BoundAt
    <3>2. CASE c \notin O
      BY <1>2, <1>6, <2>1, <2>2, <2>3, <3>2 DEF BoundAt
    <3> QED BY <3>1, <3>2
  <2>4. CASE q # p
    BY <1>6, <2>1, <2>2, <2>4 DEF BoundAt
  <2> QED BY <2>3, <2>4
<1>10. \A q \in DOMAIN w.physical : q # p => AskedAt(u, q)
  <2> SUFFICES ASSUME NEW q \in DOMAIN w.physical, q # p PROVE AskedAt(u, q)
    OBVIOUS
  <2>1. AskedAt(t, q) /\ t.physical = w.physical /\ u.pending = t.pending
    BY <1>1, <1>4, <1>5 DEF HasTaken, HasKey, HasBindings
  <2> QED BY <1>6, <2>1 DEF AskedAt
<1>11. ASSUME NEW c \in DOMAIN w.breakpoints
       PROVE  DOMAIN u.breakpoints[c].bindings = DOMAIN w.breakpoints[c].bindings
  <2>1. BoundAt(w, c, p)
    BY <1>2 DEF Consistent, Bound
  <2>2. /\ c \notin O => u.breakpoints[c] = w.breakpoints[c]
        /\ c \in O => DOMAIN u.breakpoints[c].bindings = DOMAIN w.breakpoints[c].bindings \cup {p}
    BY <1>1, <1>4, <1>5 DEF HasTaken, HasKey, HasBindings
  <2> QED BY <1>2, <2>1, <2>2 DEF BoundAt
<1>12. ASSUME NEW x, ~IsPhysicalEffect(x) PROVE x \in u.pending <=> x \in w.pending
  <2>1. u.pending = t.pending
    BY <1>4, <1>5 DEF HasKey, HasBindings
  <2>2. t.pending = w.pending \ {e}
    BY DEF t, TakePending, IsState, States, StatesOver
  <2> QED BY <1>12, <2>1, <2>2 DEF IsPhysicalEffect
<1>13. Bound(u)
  BY <1>6, <1>9 DEF Bound
<1>14. HasInstalled(u, w, Q, p, O)
  BY <1>6, <1>7, <1>8, <1>10, <1>11, <1>12, <1>13 DEF HasInstalled
<1> QED BY <1>2, <1>3, <1>14 DEF u, y, t

\* An installed breakpoint settles its owners or, without any, is removed again
\* (BreakpointInstalled).
LEMMA BreakpointInstalledAnswers ==
  ASSUME NEW w, IsState(w), NEW e \in Effects, e.kind = "install", w.out = <<>>,
         NEW Q, e \notin Q, Consistent(w, Q \cup {e})
  PROVE  Answers(BreakpointInstalled(w, e), w, Q, e.physical, {})
<1> DEFINE p == e.physical
           O == w.physical[p].owners
           y == [TakePending(w, e) EXCEPT !.physical[p].status = "installed"]
           u == SetBindings(y, O, p, "installed")
<1>1. /\ HasInstalled(u, w, Q, p, O)
      /\ e \in w.pending /\ p \in DOMAIN w.physical /\ w.physical[p].status = "installing"
      /\ p \in PhysicalKey /\ O \in SUBSET DOMAIN w.breakpoints
      /\ BreakpointInstalled(w, e) =
            IF O = {} THEN SchedulePhysicalRemoval(u, p) ELSE SettleAll(u, O)
  BY InstalledIs
<1> HIDE DEF y, u
<1>2. /\ e \in w.pending /\ p \in DOMAIN w.physical /\ w.physical[p].status = "installing"
      /\ p \in PhysicalKey /\ O \in SUBSET DOMAIN w.breakpoints
  BY <1>1
<1>3. BreakpointInstalled(w, e) =
        IF O = {} THEN SchedulePhysicalRemoval(u, p) ELSE SettleAll(u, O)
  BY <1>1
<1>6. /\ IsState(u) /\ States(u) = States(w) /\ DOMAIN u.breakpoints = DOMAIN w.breakpoints
      /\ DOMAIN u.physical = DOMAIN w.physical
      /\ u.physical[p].owners = O /\ u.physical[p].status = "installed"
      /\ \A q \in DOMAIN w.physical : q # p => u.physical[q] = w.physical[q]
      /\ u.scripts = w.scripts
  BY <1>1 DEF HasInstalled
<1>7. SameButBindings(u, w)
  BY <1>1 DEF HasInstalled
<1>8. Owed(u, Q) /\ NoEffectOn(u, Q, p)
  BY <1>1 DEF HasInstalled
<1>9. \A c \in DOMAIN w.breakpoints, q \in PhysicalKey : BoundAt(u, c, q)
  BY <1>1 DEF HasInstalled, Bound
<1>10. \A c : KeepsHeld(u, w, c)
  BY <1>2, <1>6 DEF KeepsHeld, Holds
<1>11. \A q \in DOMAIN w.physical : q # p => AskedAt(u, q)
  BY <1>1 DEF HasInstalled
<1>12. SameExecution(u, w) /\ SpecsOf(u) = SpecsOf(w)
  BY <1>6, <1>7 DEF SameButBindings, SameSpecification, SameExecution, SpecsOf
<1>13. CASE O = {}
  <2> DEFINE v == SchedulePhysicalRemoval(u, p)
  <2>1. /\ IsState(v) /\ States(v) = States(u)
        /\ v.breakpoints = u.breakpoints /\ SameButBindings(v, u)
        /\ v.pending = u.pending \cup {RemoveEffect(p)} /\ Owed(v, Q)
        /\ DOMAIN v.physical = DOMAIN u.physical
        /\ v.physical[p].owners = u.physical[p].owners
        /\ v.physical[p].status = "removing"
        /\ \A q \in DOMAIN u.physical : q # p => v.physical[q] = u.physical[q]
    BY <1>2, <1>6, <1>8, RemovalIs
  <2> HIDE DEF v
  <2>2. Bound(v)
    <3>1. ASSUME NEW c \in DOMAIN w.breakpoints, NEW q \in PhysicalKey PROVE BoundAt(v, c, q)
      <4>1. BoundAt(u, c, q)
        BY <1>9
      <4> QED BY <1>6, <1>13, <2>1, <4>1 DEF BoundAt
    <3> QED BY <1>6, <2>1, <3>1 DEF Bound
  <2>3. Asked(v)
    <3>1. ASSUME NEW q \in DOMAIN w.physical PROVE AskedAt(v, q)
      <4>1. CASE q = p
        BY <2>1, <4>1 DEF AskedAt
      <4>2. CASE q # p
        BY <1>6, <1>11, <2>1, <4>2 DEF AskedAt
      <4> QED BY <4>1, <4>2
    <3> QED BY <1>6, <2>1, <3>1 DEF Asked
  <2>4. SameExecution(v, w) /\ SpecsOf(v) = SpecsOf(w)
    <3>1. SameExecution(v, w)
      <4>1. /\ v.phase = u.phase /\ v.epoch = u.epoch /\ v.nextEpoch = u.nextEpoch
            /\ v.pause = u.pause
        BY <2>1 DEF SameButBindings
      <4> QED BY <1>12, <4>1 DEF SameExecution
    <3>2. SpecsOf(v) = SpecsOf(u)
      BY <2>1 DEF SpecsOf
    <3> QED BY <1>12, <3>1, <3>2
  <2>5. \A q \in DOMAIN v.physical : v.physical[q].status = "installed" =>
          q \in DOMAIN w.physical /\ w.physical[q].status = "installed"
    BY <1>6, <2>1
  <2>6. ASSUME NEW c, Survives(v, w, c) PROVE Stays(v, w, c)
    BY <1>2, <1>6, <2>1 DEF Stays, Holds
  <2>7. Answers(v, w, Q, p, {})
    BY <1>6, <2>1, <2>2, <2>3, <2>4, <2>5, <2>6 DEF Answers, Consistent
  <2> QED BY <1>3, <1>13, <2>7 DEF v
<1>14. CASE O # {}
  <2> DEFINE v == SettleAll(u, O)
  <2>1. Consistent(u, Q)
    <3>1. AskedAt(u, p)
      BY <1>6, <1>14 DEF AskedAt
    <3>2. Asked(u)
      BY <1>6, <1>11, <3>1 DEF Asked
    <3> QED BY <1>6, <1>8, <1>9, <3>2 DEF Consistent, Bound
  <2>2. Reconciles(v, u, Q, O)
    <3>1. O \in SUBSET DOMAIN u.breakpoints
      BY <1>2, <1>6
    <3> HIDE DEF O
    <3> QED BY <1>6, <2>1, <3>1, SettleLoop
  <2>3. Continues(v, u, Q)
    BY <1>6, <2>1, <2>2, ReconcilesContinues
  <2> HIDE DEF v
  <2>4. SameExecution(v, w) /\ SpecsOf(v) = SpecsOf(w) /\ IsState(v) /\ Consistent(v, Q)
    BY <1>12, <2>3 DEF Continues, SameExecution, Follows
  <2>5. ASSUME NEW c, Survives(v, w, c) PROVE Stays(v, w, c)
    <3>1. Survives(v, u, c)
      BY <1>6, <1>7, <2>5 DEF Survives, SameButBindings, SameSpecification, SameVersions
    <3>2. Stays(v, u, c)
      BY <2>3, <3>1 DEF Continues, Follows
    <3> QED BY <1>10, <3>2 DEF KeepsHeld, Stays
  <2>6. DOMAIN u.physical \subseteq DOMAIN v.physical
        /\ \A q \in DOMAIN v.physical : v.physical[q].status = "installed" =>
             q \in DOMAIN u.physical /\ u.physical[q].status = "installed"
    BY <2>2 DEF Reconciles
  <2>7. Answers(v, w, Q, p, {})
    BY <1>6, <2>4, <2>5, <2>6 DEF Answers
  <2> QED BY <1>3, <1>14, <2>7 DEF v
<1> QED BY <1>13, <1>14

HasDropped(v, w, K) ==
  /\ IsState(v) /\ States(v) = States(w) /\ SameButBindings(v, w)
  /\ v.breakpoints = w.breakpoints /\ v.scripts = w.scripts
  /\ v.pending = w.pending /\ v.out = w.out
  /\ DOMAIN v.physical = DOMAIN w.physical \ K
  /\ \A q \in DOMAIN w.physical \ K : v.physical[q] = w.physical[q]

\* What forgetting a physical breakpoint changes.
LEMMA KeyDropped ==
  ASSUME NEW w, IsState(w), NEW K
  PROVE  HasDropped([w EXCEPT !.physical = Without(w.physical, K)], w, K)
<1> DEFINE x == Without(w.physical, K)
           v == [w EXCEPT !.physical = x]
<1>1. w.physical \in Maps(KeysOver(DOMAIN w.scripts), PhysicalOver(DOMAIN w.breakpoints))
  BY StateFields DEF IsState, States
<1>2. x \in Maps(KeysOver(DOMAIN w.scripts), PhysicalOver(DOMAIN w.breakpoints))
  BY <1>1, MapsWithout
<1>3. DOMAIN x = DOMAIN w.physical \ K /\ \A q \in DOMAIN w.physical \ K : x[q] = w.physical[q]
  BY DEF Without
<1> HIDE DEF x
<1>4. v \in States(w)
  BY <1>2, PhysicalSet DEF IsState, States
<1>5. /\ v.physical = x /\ v.breakpoints = w.breakpoints /\ v.scripts = w.scripts
      /\ v.pending = w.pending /\ v.out = w.out
      /\ v.phase = w.phase /\ v.epoch = w.epoch /\ v.nextEpoch = w.nextEpoch
      /\ v.pause = w.pause /\ v.waiting = w.waiting
  BY DEF IsState, States, StatesOver
<1> HIDE DEF v
<1>6. IsState(v) /\ States(v) = States(w)
  BY <1>4, <1>5 DEF IsState, States
<1>7. SameButBindings(v, w)
  BY <1>5 DEF SameButBindings, SameSpecification
<1> QED BY <1>3, <1>5, <1>6, <1>7 DEF HasDropped, v, x

\* A removed breakpoint is forgotten or, owned again, installed again
\* (BreakpointRemoved).
LEMMA BreakpointRemovedAnswers ==
  ASSUME NEW w, IsState(w), NEW e \in Effects, e.kind = "remove", w.out = <<>>,
         NEW Q, e \notin Q, Consistent(w, Q \cup {e})
  PROVE  Answers(BreakpointRemoved(w, e), w, Q, e.physical, {e.physical})
<1> DEFINE p == e.physical
           O == w.physical[p].owners
           t == TakePending(w, e)
<1>1. HasTaken(t, w, Q, e)
  BY PhysicalTaken DEF IsPhysicalEffect
<1>2. /\ e \in w.pending /\ p \in DOMAIN w.physical /\ w.physical[p].status = "removing"
      /\ p \in PhysicalKey /\ O \in SUBSET DOMAIN w.breakpoints
  BY <1>1, PhysicalTyped DEF HasTaken
<1>3. BreakpointRemoved(w, e) =
        IF O = {} THEN [t EXCEPT !.physical = Without(t.physical, {p})]
        ELSE SchedulePhysicalInstall(t, p)
  BY <1>2 DEF BreakpointRemoved
<1> HIDE DEF t
<1>4. \A q \in DOMAIN w.physical : q # p => AskedAt(t, q)
  BY <1>1 DEF HasTaken
<1>5. \A c \in DOMAIN w.breakpoints, q \in PhysicalKey : BoundAt(t, c, q)
  BY <1>1 DEF HasTaken, Bound
<1>6. SameExecution(t, w) /\ SpecsOf(t) = SpecsOf(w)
  BY <1>1 DEF HasTaken, SameButBindings, SameExecution, SpecsOf
<1>7. CASE O = {}
  <2> DEFINE v == [t EXCEPT !.physical = Without(t.physical, {p})]
  <2>1. /\ IsState(v) /\ SameButBindings(v, t)
        /\ v.breakpoints = w.breakpoints /\ v.scripts = w.scripts
        /\ v.pending = t.pending /\ v.out = t.out
        /\ DOMAIN v.physical = DOMAIN w.physical \ {p}
        /\ \A q \in DOMAIN w.physical \ {p} : v.physical[q] = w.physical[q]
    <3>1. /\ IsState(t)
          /\ t.breakpoints = w.breakpoints
          /\ t.physical = w.physical
          /\ t.scripts = w.scripts
      BY <1>1 DEF HasTaken
    <3>2. HasDropped(v, t, {p})
      BY <3>1, KeyDropped
    <3> HIDE DEF v
    <3> QED BY <3>1, <3>2 DEF HasDropped
  <2> HIDE DEF v
  <2>2. Bound(v)
    <3>1. ASSUME NEW c \in DOMAIN w.breakpoints, NEW q \in PhysicalKey PROVE BoundAt(v, c, q)
      <4>1. BoundAt(t, c, q) /\ t.physical = w.physical /\ t.breakpoints = w.breakpoints
        BY <1>1, <1>5 DEF HasTaken
      <4>2. CASE q = p
        <5>1. p \notin DOMAIN w.breakpoints[c].bindings
          BY <1>7, <4>1, <4>2 DEF BoundAt
        <5> QED BY <2>1, <4>2, <5>1 DEF BoundAt
      <4>3. CASE q # p
        BY <2>1, <4>1, <4>3 DEF BoundAt
      <4> QED BY <4>2, <4>3
    <3> QED BY <2>1, <3>1 DEF Bound
  <2>3. Asked(v)
    <3>1. ASSUME NEW q \in DOMAIN w.physical, q # p PROVE AskedAt(v, q)
      <4>1. AskedAt(t, q) /\ t.physical = w.physical
        BY <1>1, <1>4, <3>1 DEF HasTaken
      <4> QED BY <2>1, <3>1, <4>1 DEF AskedAt
    <3> QED BY <2>1, <3>1 DEF Asked
  <2>4. Owed(v, Q)
    <3>1. Owed(t, Q) /\ NoEffectOn(t, Q, p) /\ t.physical = w.physical
      BY <1>1 DEF HasTaken
    <3> QED BY <2>1, <3>1 DEF Owed, NoEffectOn, Fits
  <2>5. SameExecution(v, w) /\ SpecsOf(v) = SpecsOf(w)
    <3>1. SameExecution(v, t)
      BY <2>1 DEF SameButBindings, SameExecution
    <3>2. SpecsOf(v) = SpecsOf(w)
      BY <2>1 DEF SpecsOf
    <3> QED BY <1>6, <3>1, <3>2 DEF SameExecution
  <2>6. ASSUME NEW c, Survives(v, w, c) PROVE Stays(v, w, c)
    BY <1>2, <2>1 DEF Stays, Holds
  <2>7. Answers(v, w, Q, p, {p})
    BY <2>1, <2>2, <2>3, <2>4, <2>5, <2>6 DEF Answers, Consistent
  <2> QED BY <1>3, <1>7, <2>7 DEF v
<1>8. CASE O # {}
  <2> DEFINE y == [t EXCEPT !.physical[p].status = "installing"]
             u == SetBindings(y, O, p, "pendingInstall")
             i == InstallEffect(p)
             v == Emit(u, i)
  <2>1. SchedulePhysicalInstall(t, p) = v
    BY <1>1 DEF SchedulePhysicalInstall, HasTaken
  <2>2. HasKey(y, t, p, [owners |-> O, status |-> "installing"])
    <3>1. IsState(t) /\ p \in DOMAIN t.physical /\ t.physical[p].owners = O
          /\ O \in SUBSET DOMAIN t.breakpoints
      BY <1>1, <1>2 DEF HasTaken
    <3> HIDE DEF O
    <3> QED BY <3>1, OneKey
  <2> HIDE DEF y
  <2>3. HasBindings(u, y, O, p, "pendingInstall")
    BY <1>2, <2>2, BindingsSet DEF HasKey, BindingStates
  <2> HIDE DEF u
  <2>4. i \in Effects /\ IsPhysicalEffect(i) /\ i.physical = p /\ i.kind = "install"
    BY <1>2, EffectKinds DEF InstallEffect, IsPhysicalEffect
  <2>5. HasEmitted(v, u, i)
    BY <2>3, <2>4, EmitIs DEF HasBindings
  <2>6. /\ IsState(u) /\ States(u) = States(w) /\ DOMAIN u.breakpoints = DOMAIN w.breakpoints
        /\ u.physical = y.physical /\ t.physical = w.physical /\ u.pending = t.pending
        /\ u.out = t.out
    BY <1>1, <2>2, <2>3 DEF HasTaken, HasKey, HasBindings
  <2>7. /\ DOMAIN u.physical = DOMAIN w.physical
        /\ u.physical[p].owners = O /\ u.physical[p].status = "installing"
        /\ \A q \in DOMAIN w.physical : q # p => u.physical[q] = w.physical[q]
    <3>1. /\ DOMAIN y.physical = DOMAIN t.physical \cup {p}
          /\ y.physical[p] = [owners |-> O, status |-> "installing"]
          /\ \A q \in DOMAIN t.physical : q # p => y.physical[q] = t.physical[q]
      BY <2>2 DEF HasKey
    <3> HIDE DEF O
    <3> QED BY <1>2, <2>6, <3>1
  <2>8. Owed(v, Q)
    <3>1. Owed(u, Q) /\ NoEffectOn(u, Q, p)
      <4>1. Owed(t, Q) /\ NoEffectOn(t, Q, p)
        BY <1>1 DEF HasTaken
      <4>2. \A q \in DOMAIN t.physical : q # p =>
               q \in DOMAIN u.physical /\ u.physical[q].status = t.physical[q].status
        BY <2>6, <2>7
      <4> QED BY <2>6, <4>1, <4>2, OwedStays
    <3> QED BY <1>2, <2>4, <2>6, <2>7, <3>1, OwedEmits
  <2> HIDE DEF v
  <2>9. /\ IsState(v) /\ States(v) = States(w) /\ v.breakpoints = u.breakpoints
        /\ v.physical = u.physical /\ v.pending = t.pending \cup {i}
    BY <2>5, <2>6 DEF HasEmitted
  <2>10. SameButBindings(v, w)
    <3>1. SameButBindings(u, t)
      BY <2>2, <2>3, SameButBindingsTransitive DEF HasKey, HasBindings
    <3>2. SameButBindings(u, w)
      BY <1>1, <3>1, SameButBindingsTransitive DEF HasTaken
    <3> QED BY <2>5, <2>6, <3>2, SameButBindingsTransitive DEF HasEmitted
  <2>11. Bound(v)
    <3>1. ASSUME NEW c \in DOMAIN w.breakpoints, NEW q \in PhysicalKey PROVE BoundAt(v, c, q)
      <4>1. BoundAt(t, c, q)
        BY <1>5
      <4>2. /\ c \notin O => u.breakpoints[c] = t.breakpoints[c]
            /\ c \in O => LET now == u.breakpoints[c].bindings
                              before == t.breakpoints[c].bindings
                          IN /\ DOMAIN now = DOMAIN before \cup {p} /\ now[p] = "pendingInstall"
                             /\ \A r \in DOMAIN before : r # p => now[r] = before[r]
        BY <1>1, <2>2, <2>3 DEF HasTaken, HasKey, HasBindings
      <4>3. CASE q = p
        <5>1. CASE c \in O
          BY <1>2, <2>7, <2>9, <4>2, <4>3, <5>1, BindingForTyped DEF BoundAt
        <5>2. CASE c \notin O
          BY <1>2, <2>6, <2>7, <2>9, <4>1, <4>2, <4>3, <5>2 DEF BoundAt
        <5> QED BY <5>1, <5>2
      <4>4. CASE q # p
        BY <2>6, <2>7, <2>9, <4>1, <4>2, <4>4 DEF BoundAt
      <4> QED BY <4>3, <4>4
    <3>2. DOMAIN v.breakpoints = DOMAIN w.breakpoints
      BY <2>6, <2>9
    <3> QED BY <3>1, <3>2 DEF Bound
  <2>12. Asked(v)
    <3>1. ASSUME NEW q \in DOMAIN w.physical PROVE AskedAt(v, q)
      <4>1. CASE q = p
        BY <2>7, <2>9, <4>1 DEF AskedAt
      <4>2. CASE q # p
        <5>1. AskedAt(t, q)
          BY <1>4, <4>2
        <5> QED BY <2>6, <2>7, <2>9, <4>2, <5>1 DEF AskedAt
      <4> QED BY <4>1, <4>2
    <3> QED BY <2>7, <2>9, <3>1 DEF Asked
  <2>13. SameExecution(v, w) /\ SpecsOf(v) = SpecsOf(w)
    <3>1. SameExecution(v, w)
      BY <2>10 DEF SameButBindings, SameExecution
    <3>2. DOMAIN v.breakpoints = DOMAIN w.breakpoints
      BY <2>6, <2>9
    <3> QED BY <2>10, <3>1, <3>2 DEF SameButBindings, SameSpecification, SpecsOf
  <2>14. ASSUME NEW c, Survives(v, w, c) PROVE Stays(v, w, c)
    BY <1>2, <2>7, <2>9 DEF Stays, Holds
  <2>15. Answers(v, w, Q, p, {p})
    BY <2>7, <2>8, <2>9, <2>11, <2>12, <2>13, <2>14 DEF Answers, Consistent
  <2> QED BY <1>3, <1>8, <2>1, <2>15
<1> QED BY <1>7, <1>8

-----------------------------------------------------------------------------
(***************************************************************************)
(* The inputs about scripts.                                               *)
(***************************************************************************)
\* v is w with the keys T without owners.
Orphaned(v, w, Q, T) ==
  /\ IsState(v) /\ States(v) = States(w) /\ v.breakpoints = w.breakpoints
  /\ SameButBindings(v, w) /\ Asked(v) /\ Owed(v, Q)
  /\ w.pending \subseteq v.pending /\ AddsPhysical(v, w)
  /\ DOMAIN v.physical = DOMAIN w.physical
  /\ \A q \in DOMAIN w.physical :
       /\ v.physical[q].owners = IF q \in T THEN {} ELSE w.physical[q].owners
       /\ \/ v.physical[q].status = w.physical[q].status
          \/ /\ v.physical[q].owners = {} /\ w.physical[q].status = "installed"
             /\ v.physical[q].status = "removing"

OrphanAll(w, S) ==
  OverKeys(LAMBDA v, p : DropUnowned([v EXCEPT !.physical[p].owners = {}], p), w, S)

\* The loop by which the breakpoints of an old version lose their owners
\* (ReleaseScriptVersion).
LEMMA OrphanLoop ==
  ASSUME NEW w, IsState(w), NEW Q, Asked(w), Owed(w, Q), NEW S \in SUBSET DOMAIN w.physical
  PROVE  Orphaned(OrphanAll(w, S), w, Q, S)
<1> DEFINE op(v, p) == DropUnowned([v EXCEPT !.physical[p].owners = {}], p)
           last == [T \in (SUBSET S) \ {{}} |-> LastKey(T)]
           U == States(w)
           W == [T \in SUBSET S |-> {v \in U : Orphaned(v, w, Q, T)}]
           step == [p \in S |-> [v \in U |-> op(v, p)]]
           rhs(g) == [T \in SUBSET S |->
                        IF T = {} THEN w ELSE op(g[T \ {LastKey(T)}], LastKey(T))]
           table == CHOOSE g : g = rhs(g)
<1>a. S \in SUBSET PhysicalKey /\ IsFiniteSet(S)
  BY PhysicalTyped, FS_Subset
<1>1. \A T \in (SUBSET S) \ {{}} : last[T] = LastKey(T) /\ last[T] \in T
  BY LastKeyExists, <1>a
<1>2. ASSUME NEW T \in SUBSET S, NEW p \in T, NEW v \in W[T \ {p}]
      PROVE  op(v, p) \in W[T]
  <2> DEFINE u == DropUnowned([v EXCEPT !.physical[p].owners = {}], p)
  <2>1. Orphaned(v, w, Q, T \ {p})
    OBVIOUS
  <2>3. IsState(v) /\ p \in DOMAIN v.physical /\ {} \in SUBSET v.physical[p].owners
        /\ Asked(v) /\ Owed(v, Q)
    BY <2>1 DEF Orphaned
  <2>4. HasOwners(u, v, p, {}, Q)
    BY <2>3, DropUnownedKeeps
  <2> HIDE DEF u
  <2>5. SameButBindings(u, w)
    BY <2>1, <2>4, SameButBindingsTransitive DEF Orphaned, HasOwners
  <2>6. ASSUME NEW q \in DOMAIN w.physical
        PROVE  /\ u.physical[q].owners = IF q \in T THEN {} ELSE w.physical[q].owners
               /\ \/ u.physical[q].status = w.physical[q].status
                  \/ /\ u.physical[q].owners = {} /\ w.physical[q].status = "installed"
                     /\ u.physical[q].status = "removing"
    <3>1. CASE q # p
      BY <2>1, <2>4, <3>1 DEF Orphaned, HasOwners
    <3>2. CASE q = p
      BY <2>1, <2>4, <3>2 DEF Orphaned, HasOwners
    <3> QED BY <3>1, <3>2
  <2>7. Orphaned(u, w, Q, T)
    <3>1. w.pending \subseteq u.pending /\ AddsPhysical(u, w)
      BY <2>1, <2>4 DEF Orphaned, HasOwners, AddsPhysical
    <3> QED BY <2>1, <2>4, <2>5, <2>6, <3>1 DEF Orphaned, HasOwners
  <2>8. u \in U
    BY <2>7 DEF Orphaned, IsState
  <2>9. u \in W[T]
    BY <2>7, <2>8
  <2> QED BY <2>9 DEF u
<1>3. w \in W[{}]
  <2>1. Orphaned(w, w, Q, {}) /\ w \in U
    BY DEF Orphaned, SameButBindings, SameSpecification, IsState, AddsPhysical
  <2> QED BY <2>1
<1>4. \A T \in SUBSET S : W[T] \subseteq U
  OBVIOUS
<1> HIDE DEF W, U
<1>5. PICK f : IsTable(f, S, w, last, step) /\ \A T \in SUBSET S : f[T] \in W[T]
  <2>1. ASSUME NEW T \in (SUBSET S) \ {{}}, NEW v \in W[T \ {last[T]}]
        PROVE  step[last[T]][v] \in W[T]
    <3>1. last[T] \in T /\ last[T] \in S /\ T \ {last[T]} \in SUBSET S
      BY <1>1
    <3>2. v \in U
      BY <1>4, <3>1
    <3> HIDE DEF last, op
    <3>3. step[last[T]][v] = op(v, last[T])
      BY <3>1, <3>2
    <3> HIDE DEF step
    <3> QED BY <1>2, <3>1, <3>3
  <2> HIDE DEF last, step
  <2> QED BY <1>1, <1>3, <1>a, <2>1, LoopStays
<1>6. f = rhs(f)
  <2>1. ASSUME NEW T \in SUBSET S, T # {}
        PROVE  f[T] = op(f[T \ {LastKey(T)}], LastKey(T))
    <3>1. /\ last[T] \in T /\ last[T] = LastKey(T) /\ last[T] \in S
          /\ T \ {last[T]} \in SUBSET S
      BY <1>1, <2>1
    <3>2. f[T \ {last[T]}] \in U
      BY <1>4, <1>5, <3>1
    <3> HIDE DEF last, op
    <3>3. f[T] = step[last[T]][f[T \ {last[T]}]]
      <4> HIDE DEF step
      <4> QED BY <1>5, <2>1 DEF IsTable
    <3> QED BY <3>1, <3>2, <3>3
  <2> HIDE DEF op, step, last
  <2> QED BY <1>5, <2>1 DEF IsTable
<1>7. table = rhs(table)
  <2> HIDE DEF rhs
  <2> QED BY <1>6
<1>8. table[S] \in W[S]
  <2> HIDE DEF table, op
  <2>1. table[{}] \in W[{}]
    BY <1>3, <1>7
  <2>2. ASSUME NEW T \in (SUBSET S) \ {{}}, table[T \ {last[T]}] \in W[T \ {last[T]}]
        PROVE  table[T] \in W[T]
    <3>1. last[T] \in T /\ last[T] = LastKey(T)
      BY <1>1
    <3>2. table[T] = op(table[T \ {last[T]}], last[T])
      BY <1>7, <3>1
    <3> HIDE DEF last, rhs
    <3> QED BY <1>2, <2>2, <3>1, <3>2
  <2> HIDE DEF last, rhs
  <2> QED BY <1>1, <2>1, <1>a, <2>2, LoopEnds
<1>9. OrphanAll(w, S) = table[S]
  BY DEF OrphanAll, InOrder, OverKeys, OneByOne
<1> HIDE DEF table
<1> QED BY <1>8, <1>9 DEF W

\* A breakpoint over fewer scripts is one over more scripts.
LEMMA ScriptsGrow ==
  ASSUME NEW D, NEW R, D \subseteq R, NEW x \in BreakpointOver(D)
  PROVE  x \in BreakpointOver(R)
<1>1. /\ x = [generation |-> x.generation, source |-> x.source, condition |-> x.condition,
              index |-> x.index, friendly |-> x.friendly, mappings |-> x.mappings,
              assessments |-> x.assessments, bindings |-> x.bindings]
  BY DEF BreakpointOver
<1>2. x.assessments \in Maps(R, AssessmentState)
  BY BreakpointFields, MapsGrow
<1>3. x.index \in IndexOver(R)
  <2>1. x.index \in IndexOver(D)
    BY BreakpointFields
  <2>2. \A y \in SUBSET (D \X AnyCandidate) : y \in SUBSET (R \X AnyCandidate)
    OBVIOUS
  <2> QED BY <2>1, <2>2 DEF IndexOver
<1> QED BY <1>1, <1>2, <1>3, BreakpointFields DEF BreakpointOver

\* The bindings of one breakpoint to an old version of a script go.
Forgets(x, s, K) ==
  [x EXCEPT !.mappings = {e \in @ : e.script # s},
            !.assessments = Without(@, {s}), !.bindings = Without(@, K)]

\* What a breakpoint forgets with a script version, and that it stays a breakpoint.
LEMMA ForgetsTyped ==
  ASSUME NEW D, NEW x \in BreakpointOver(D), NEW s, NEW K
  PROVE  /\ Forgets(x, s, K) \in BreakpointOver(D)
         /\ Forgets(x, s, K).generation = x.generation /\ Forgets(x, s, K).source = x.source
         /\ Forgets(x, s, K).condition = x.condition
         /\ Forgets(x, s, K).bindings = Without(x.bindings, K)
<1>1. /\ {e \in x.mappings : e.script # s} \in SUBSET MapEffects
      /\ Without(x.assessments, {s}) \in Maps(D, AssessmentState)
      /\ Without(x.bindings, K) \in Maps(PhysicalKey, BindingStates)
  BY BreakpointFields, MapsWithout
<1> DEFINE m == {e \in x.mappings : e.script # s}
           a == Without(x.assessments, {s})
           k == Without(x.bindings, K)
<1>2. Forgets(x, s, K) = [x EXCEPT !.mappings = m, !.assessments = a, !.bindings = k]
  BY DEF Forgets
<1> HIDE DEF m, a, k
<1>3. [x EXCEPT !.mappings = m, !.assessments = a, !.bindings = k] \in BreakpointOver(D)
  BY <1>1 DEF BreakpointOver, m, a, k
<1>4. LET y == [x EXCEPT !.mappings = m, !.assessments = a, !.bindings = k]
      IN /\ y.generation = x.generation /\ y.source = x.source /\ y.condition = x.condition
         /\ y.bindings = k
  BY DEF BreakpointOver
<1> QED BY <1>2, <1>3, <1>4 DEF k

KeysOf(w, s) == {p \in DOMAIN w.physical : p.script = s}

\* The breakpoints forget script s, and only frames are no longer to be projected.
Forgotten(v, w, s) ==
  /\ \A b \in DOMAIN w.breakpoints :
       v.breakpoints[b] = Forgets(w.breakpoints[b], s, KeysOf(w, s))
  /\ \A e : e.kind # "frame" /\ ~IsPhysicalEffect(e) => (e \in v.pending <=> e \in w.pending)

\* v is w without what belongs to script s.
ReleasedVersion(v, w, Q, s) ==
  /\ IsState(v) /\ States(v) = States(w) /\ SameExecution(v, w) /\ SpecsOf(v) = SpecsOf(w)
  /\ v.scripts = w.scripts /\ DOMAIN v.breakpoints = DOMAIN w.breakpoints
  /\ Consistent(v, Q) /\ Grows(v, w)
  /\ \A c \in DOMAIN w.breakpoints : v.breakpoints[c].generation = w.breakpoints[c].generation
  /\ KeysOf(w, s) = {} => \A c : KeepsHeld(v, w, c)
  /\ Forgotten(v, w, s)

\* Everything of the old version of a script goes, and nothing else
\* (ReleaseScriptVersion).
LEMMA ReleaseScriptVersionReleases ==
  ASSUME NEW w, IsState(w), NEW Q, Consistent(w, Q), NEW s
  PROVE  ReleasedVersion(ReleaseScriptVersion(w, s), w, Q, s)
<1> DEFINE K == KeysOf(w, s)
           B == DOMAIN w.breakpoints
           D == DOMAIN w.scripts
           f == ReleaseFrames(w, s)
           x == [b \in B |-> Forgets(w.breakpoints[b], s, K)]
           u == [f EXCEPT !.breakpoints = x]
           v == OrphanAll(u, K)
<1>1. ReleaseScriptVersion(w, s) = v
  BY DEF ReleaseScriptVersion, OrphanAll, OverKeys, OneByOne, Forgets, KeysOf
<1>2. f \in Assessed(w, {})
  BY ReleaseFramesAssesses
<1> HIDE DEF f
<1>3. /\ IsState(f) /\ States(f) = States(w) /\ Consistent(f, Q) /\ SameSession(f, w)
      /\ f.physical = w.physical
  <2>1. IsState(f) /\ States(f) = States(w) /\ Consistent(f, Q)
    BY <1>2, AssessedIsState, AssessedConsistent
  <2>2. SameSession(f, w) /\ f.physical = w.physical
    BY <1>2 DEF Assessed, Assesses, LeavesPhysical
  <2> QED BY <2>1, <2>2
<1>4. f.scripts = w.scripts
  BY DEF f, ReleaseFrames, SetFrames, IsState, States, StatesOver
<1>a. \A e : e.kind # "frame" => (e \in f.pending <=> e \in w.pending)
  <2>1. \A T, k : SetFrames(w, T, k).pending = w.pending
    BY DEF SetFrames, IsState, States, StatesOver
  <2>2. f.pending \subseteq w.pending /\ \A e \in w.pending : e.kind # "frame" => e \in f.pending
    BY <2>1 DEF f, ReleaseFrames, IsState, States, StatesOver
  <2> QED BY <2>2
<1>b. \A b \in B : x[b] = Forgets(w.breakpoints[b], s, K)
  OBVIOUS
<1>5. \A b \in B : /\ x[b] \in BreakpointOver(D)
                   /\ x[b].generation = w.breakpoints[b].generation
                   /\ x[b].source = w.breakpoints[b].source
                   /\ x[b].condition = w.breakpoints[b].condition
                   /\ x[b].bindings = Without(w.breakpoints[b].bindings, K)
  BY StateTyped, ForgetsTyped
<1>6. x \in [B -> BreakpointOver(D)] /\ DOMAIN x = B
  BY <1>5
<1> HIDE DEF x
<1>7. u \in States(w)
  BY <1>3, <1>6, BreakpointsSet DEF IsState, States
<1>8. /\ u.breakpoints = x /\ u.physical = w.physical /\ u.pending = f.pending
      /\ u.out = f.out /\ u.scripts = w.scripts
      /\ u.phase = f.phase /\ u.epoch = f.epoch /\ u.nextEpoch = f.nextEpoch
      /\ u.pause = f.pause /\ u.waiting = f.waiting
  BY <1>3, <1>4 DEF IsState, States, StatesOver
<1>9. IsState(u) /\ States(u) = States(w)
  BY <1>6, <1>7, <1>8 DEF IsState, States
<1> HIDE DEF u
<1>10. Asked(u) /\ Owed(u, Q)
  BY <1>3, <1>8, SameEffects DEF Consistent
<1>11. K \in SUBSET DOMAIN u.physical
  BY <1>8 DEF KeysOf
<1>12. Orphaned(v, u, Q, K)
  <2> HIDE DEF K
  <2> QED BY <1>9, <1>10, <1>11, OrphanLoop
<1> HIDE DEF v
<1>13. /\ IsState(v) /\ States(v) = States(w) /\ v.breakpoints = x /\ v.scripts = w.scripts
       /\ DOMAIN v.physical = DOMAIN w.physical
       /\ \A q \in DOMAIN w.physical :
            /\ v.physical[q].owners = IF q \in K THEN {} ELSE w.physical[q].owners
            /\ \/ v.physical[q].status = w.physical[q].status
               \/ /\ v.physical[q].owners = {} /\ w.physical[q].status = "installed"
                  /\ v.physical[q].status = "removing"
  BY <1>8, <1>9, <1>12 DEF Orphaned, SameButBindings
<1>14. SameExecution(v, w)
  <2>1. /\ v.phase = f.phase /\ v.epoch = f.epoch /\ v.nextEpoch = f.nextEpoch
        /\ v.pause = f.pause
    BY <1>8, <1>12 DEF Orphaned, SameButBindings
  <2> QED BY <1>3, <2>1 DEF SameSession, SameExecution
<1>15. /\ SpecsOf(v) = SpecsOf(w)
       /\ \A c \in B : v.breakpoints[c].generation = w.breakpoints[c].generation
  BY <1>5, <1>6, <1>13 DEF SpecsOf
<1>16. ASSUME NEW c \in B, NEW p \in PhysicalKey PROVE BoundAt(v, c, p)
  <2>1. BoundAt(w, c, p) /\ v.breakpoints[c].bindings = Without(w.breakpoints[c].bindings, K)
    BY <1>5, <1>13 DEF Consistent, Bound
  <2>2. CASE p \in K
    <3>1. p \notin DOMAIN v.breakpoints[c].bindings
      BY <2>1, <2>2 DEF Without
    <3>2. v.physical[p].owners = {}
      BY <1>13, <2>2 DEF KeysOf
    <3> QED BY <3>1, <3>2 DEF BoundAt
  <2>3. CASE p \notin K
    <3>1. /\ p \in DOMAIN v.breakpoints[c].bindings <=> p \in DOMAIN w.breakpoints[c].bindings
          /\ p \in DOMAIN v.breakpoints[c].bindings =>
               v.breakpoints[c].bindings[p] = w.breakpoints[c].bindings[p]
      BY <2>1, <2>3 DEF Without
    <3>2. p \in DOMAIN w.physical =>
            /\ v.physical[p].owners = w.physical[p].owners
            /\ c \in w.physical[p].owners => v.physical[p].status = w.physical[p].status
      BY <1>13, <2>3
    <3> QED BY <1>13, <2>1, <3>1, <3>2 DEF BoundAt
  <2> QED BY <2>2, <2>3
<1>17. Consistent(v, Q)
  BY <1>6, <1>12, <1>13, <1>16 DEF Orphaned, Consistent, Bound
<1>18. Grows(v, w)
  BY <1>13 DEF Grows
<1>19. K = {} => \A c : KeepsHeld(v, w, c)
  BY <1>13 DEF KeepsHeld, Holds
<1>20. Forgotten(v, w, s)
  <2>1. \A e : e.kind # "frame" /\ ~IsPhysicalEffect(e) => (e \in v.pending <=> e \in u.pending)
    BY <1>12 DEF Orphaned, AddsPhysical
  <2> QED BY <1>a, <1>b, <1>8, <1>13, <2>1 DEF Forgotten
<1> QED BY <1>1, <1>6, <1>13, <1>14, <1>15, <1>17, <1>18, <1>19, <1>20 DEF ReleasedVersion

\* The new version of the script.
NewVersion(w, s, version) ==
  LET r == ReleaseScriptVersion(w, s)
  IN [r EXCEPT !.scripts = With(r.scripts, s,
        [version |-> version, source |-> "unresolved", captured |-> NoContent, view |-> {}])]

\* A new script version keeps what is held elsewhere (ScriptParsed).
LEMMA NewVersionPrepares ==
  ASSUME NEW w, IsState(w), NEW Q, Consistent(w, Q), NEW s \in Scripts, NEW n \in Nat,
         s \in DOMAIN w.scripts => n # w.scripts[s].version
  PROVE  LET v == NewVersion(w, s, n)
         IN /\ Prepares(v, w, Q) /\ SameExecution(v, w) /\ SpecsOf(v) = SpecsOf(w)
            /\ s \in DOMAIN v.scripts /\ DOMAIN v.breakpoints = DOMAIN w.breakpoints
<1> DEFINE r == ReleaseScriptVersion(w, s)
           new == [version |-> n, source |-> "unresolved", captured |-> NoContent, view |-> {}]
           x == With(r.scripts, s, new)
           v == NewVersion(w, s, n)
           B == DOMAIN w.breakpoints
           D == DOMAIN w.scripts
           R == D \cup {s}
<1>1. ReleasedVersion(r, w, Q, s)
  BY ReleaseScriptVersionReleases
<1>2. v = [r EXCEPT !.scripts = x]
  BY DEF NewVersion
<1> HIDE DEF r
<1>3. new \in ScriptState /\ new.version = n
  BY DEF ScriptState
<1> HIDE DEF new
<1>4. x \in [R -> ScriptState] /\ DOMAIN x = R /\ x[s] = new
  <2>1. w.scripts \in [D -> ScriptState] /\ r.scripts = w.scripts
    BY <1>1, StateFields DEF ReleasedVersion, IsState, States
  <2> QED BY <1>3, <2>1 DEF With
<1> HIDE DEF x
<1>5. r \in StatesOver(D, B)
  BY <1>1 DEF ReleasedVersion, IsState, States
<1>6. v \in StatesOver(R, B)
  <2>1. r.breakpoints \in [B -> BreakpointOver(D)]
        /\ r.physical \in Maps(KeysOver(D), PhysicalOver(B))
    BY <1>5, StateFields
  <2>2. r.breakpoints \in [B -> BreakpointOver(R)]
    BY <2>1, ScriptsGrow
  <2>3. r.physical \in Maps(KeysOver(R), PhysicalOver(B))
    <3>1. KeysOver(D) \in SUBSET KeysOver(R)
      BY DEF KeysOver
    <3> QED BY <2>1, <3>1, MapsGrow
  <2> HIDE DEF R
  <2> QED BY <1>2, <1>4, <1>5, <2>2, <2>3 DEF StatesOver
<1>7. /\ v.scripts = x /\ v.breakpoints = r.breakpoints /\ v.physical = r.physical
      /\ v.pending = r.pending /\ v.out = r.out
      /\ v.phase = r.phase /\ v.epoch = r.epoch /\ v.nextEpoch = r.nextEpoch
      /\ v.pause = r.pause /\ v.waiting = r.waiting
  BY <1>2, <1>5 DEF StatesOver
<1> HIDE DEF v
<1>8. DOMAIN r.breakpoints = B /\ DOMAIN r.physical = DOMAIN r.physical
  BY <1>5, StateFields
<1>9. IsState(v)
  <2>1. IsFiniteSet(R) /\ R \in SUBSET Scripts /\ B \in BreakpointSets
    BY FS_AddElement DEF IsState, KeySets
  <2> QED BY <1>4, <1>6, <1>7, <1>8, <2>1 DEF IsState, States, KeySets
<1>10. Consistent(v, Q)
  <2>1. Consistent(r, Q)
    BY <1>1 DEF ReleasedVersion
  <2>2. Asked(v) /\ Owed(v, Q)
    BY <1>7, <2>1, SameEffects DEF Consistent
  <2>3. Bound(v)
    BY <1>7, <2>1 DEF Consistent, Bound, BoundAt
  <2> QED BY <2>2, <2>3 DEF Consistent
<1>11. Grows(v, w) /\ SameExecution(v, w) /\ SpecsOf(v) = SpecsOf(w)
  BY <1>1, <1>7 DEF ReleasedVersion, Grows, SameExecution, SpecsOf
<1>12. ASSUME NEW c, Survives(v, w, c) PROVE KeepsHeld(v, w, c)
  <2>1. s \notin D
    BY <1>3, <1>4, <1>7, <1>12 DEF Survives, SameVersions
  <2>2. KeysOf(w, s) = {}
    <3>1. \A p \in DOMAIN w.physical : p.script \in D
      <4>1. DOMAIN w.physical \subseteq KeysOver(D)
        BY PhysicalTyped
      <4> QED BY <4>1 DEF KeysOver
    <3> QED BY <2>1, <3>1 DEF KeysOf
  <2>3. KeepsHeld(r, w, c)
    BY <1>1, <2>2 DEF ReleasedVersion
  <2> QED BY <1>7, <2>3 DEF KeepsHeld, Holds
<1> QED BY <1>4, <1>7, <1>8, <1>9, <1>10, <1>11, <1>12 DEF Prepares, v

\* The assessment of a new script keeps what is held (AssessParsed).
LEMMA AssessParsedReconciles ==
  ASSUME NEW w, IsState(w), NEW Q, Consistent(w, Q), NEW b \in DOMAIN w.breakpoints,
         NEW s \in DOMAIN w.scripts
  PROVE  Reconciles(AssessParsed(w, b, s), w, Q, {b})
<1> DEFINE D == DOMAIN w.scripts
           source == w.breakpoints[b].source
           status == StatusWithoutCandidate(s, w.scripts[s], source)
           a == Assessment(w.scripts[s].version, status)
           v == SetAssessment(w, b, s, a)
           i == [v.breakpoints[b].index EXCEPT !.unresolved = @ \cup {s}]
           x == [v.breakpoints[b] EXCEPT !.index = i, !.friendly = v.breakpoints[b].friendly]
           u == [v EXCEPT !.breakpoints[b].index.unresolved = @ \cup {s}]
<1>1. a \in AssessmentState
  <2>1. status \in {"waiting", "mapping", "applicable", "unmapped",
                    "failed", "notFound", "ambiguous"}
    BY DEF StatusWithoutCandidate
  <2>2. w.scripts[s].version \in Nat
    BY StateTyped
  <2> HIDE DEF status
  <2> QED BY <2>1, <2>2, AssessmentTyped
<1>2. AssessParsed(w, b, s) =
        CASE MayExpose(s, source) -> ScheduleSourceHydration(u, s, FALSE)
          [] ~MayExpose(s, source) /\ w.breakpoints[b].bindings # <<>> ->
               ReconcilePhysicalBindings(v, b)
          [] OTHER -> v
  BY DEF AssessParsed
<1> HIDE DEF a
<1>3. v \in Assessed(w, {b})
  BY <1>1, SetAssessmentAssesses
<1> HIDE DEF v
<1>4. IsState(v) /\ DOMAIN v.scripts = D /\ b \in DOMAIN v.breakpoints
  BY <1>3, AssessedIsState
<1>5. Reconciles(v, w, Q, {b})
  BY <1>3, AssessedReconciles
<1>6. Reconciles(ReconcilePhysicalBindings(v, b), w, Q, {b})
  BY <1>3, AssessedThenReconciled
<1>7. Reconciles(ScheduleSourceHydration(u, s, FALSE), w, Q, {b})
  <2>1. v.breakpoints[b] \in BreakpointOver(D) /\ v.pending \in SUBSET Effects
    BY <1>4, StateTyped
  <2>2. i \in IndexOver(D)
    <3>1. v.breakpoints[b].index \in IndexOver(D)
      BY <2>1, BreakpointFields
    <3> QED BY <3>1 DEF IndexOver
  <2>3. x \in BreakpointOver(D)
    <3> HIDE DEF i
    <3> QED BY <2>1, <2>2, BreakpointFields, IndexSet
  <2>4. /\ x.generation = v.breakpoints[b].generation /\ x.source = v.breakpoints[b].source
        /\ x.condition = v.breakpoints[b].condition /\ x.bindings = v.breakpoints[b].bindings
    BY <2>1 DEF BreakpointOver
  <2>5. [v EXCEPT !.pending = v.pending, !.breakpoints[b] = x] \in Assessed(v, {b})
    <3> HIDE DEF x
    <3> QED BY <1>4, <2>1, <2>3, <2>4, BreakpointAssessed
  <2>6. u = [v EXCEPT !.pending = v.pending, !.breakpoints[b] = x]
    <3>1. x = [v.breakpoints[b] EXCEPT !.index = i]
      BY <2>1 DEF BreakpointOver
    <3> QED BY <1>4, <3>1 DEF IsState, States, StatesOver
  <2>7. u \in Assessed(w, {b}) /\ IsState(u)
    <3>1. u \in Assessed(v, {b})
      BY <2>5, <2>6
    <3> HIDE DEF u
    <3> QED BY <1>3, <1>4, <3>1, AssessedTransitive, AssessedIsState
  <2> HIDE DEF u
  <2>8. ScheduleSourceHydration(u, s, FALSE) \in Assessed(u, {})
    BY <2>7, StateTyped, HydrationAssesses
  <2>9. ScheduleSourceHydration(u, s, FALSE) \in Assessed(w, {b})
    BY <2>7, <2>8, AssessedTransitive
  <2> QED BY <2>9, AssessedReconciles
<1>8. AssessParsed(w, b, s) \in
        {ScheduleSourceHydration(u, s, FALSE), ReconcilePhysicalBindings(v, b), v}
  <2> HIDE DEF u
  <2> QED BY <1>2
<1> QED BY <1>5, <1>6, <1>7, <1>8

\* The breakpoints are assessed one after the other.
ParsedOne(v, b, s, again) ==
  IF again \/ NeedsFullReconciliation(v, b, s)
  THEN ReconcileBreakpoint(v, b) ELSE AssessParsed(v, b, s)

AssessAll(w, s, again, S) == InOrder(LAMBDA v, b : ParsedOne(v, b, s, again), w, S)

\* One breakpoint's part of ScriptParsed keeps what is held.
LEMMA ParsedOneReconciles ==
  ASSUME NEW w, IsState(w), NEW Q, Consistent(w, Q), NEW b \in DOMAIN w.breakpoints,
         NEW s \in DOMAIN w.scripts, NEW again
  PROVE  Reconciles(ParsedOne(w, b, s, again), w, Q, {b})
BY AssessParsedReconciles, ReconcileBreakpointReconciles DEF ParsedOne

\* What ScriptParsed keeps breakpoint by breakpoint, its loop keeps.
LEMMA AssessAllStays ==
  ASSUME NEW w, NEW s, NEW again, NEW S \in SUBSET Breakpoints, IsFiniteSet(S), NEW W, w \in W[{}],
         \A T \in SUBSET S : \A b \in T : \A v \in W[T \ {b}] : ParsedOne(v, b, s, again) \in W[T]
  PROVE  AssessAll(w, s, again, S) \in W[S]
<1> DEFINE op(v, b) == ParsedOne(v, b, s, again)
           last == [T \in (SUBSET S) \ {{}} |-> Greatest(T)]
           U == UNION {W[T] : T \in SUBSET S}
           step == [b \in S |-> [v \in U |-> op(v, b)]]
           rhs(g) == [T \in SUBSET S |->
                        IF T = {} THEN w ELSE op(g[T \ {Greatest(T)}], Greatest(T))]
           table == CHOOSE g : g = rhs(g)
<1>1. \A T \in (SUBSET S) \ {{}} : /\ last[T] = Greatest(T) /\ last[T] \in T
                                     /\ last[T] \in S /\ T \ {last[T]} \in SUBSET S
  BY GreatestExists, ReducerAssumption
<1>2. \A T \in SUBSET S : W[T] \subseteq U
  OBVIOUS
<1> HIDE DEF last, op, U
<1>3. \A T \in (SUBSET S) \ {{}} : \A v \in W[T \ {last[T]}] : op(v, last[T]) \in W[T]
  BY <1>1 DEF op
<1>4. PICK f : IsTable(f, S, w, last, step) /\ \A T \in SUBSET S : f[T] \in W[T]
  <2>1. \A T \in (SUBSET S) \ {{}} : \A v \in W[T \ {last[T]}] : step[last[T]][v] \in W[T]
    BY <1>1, <1>2, <1>3
  <2> HIDE DEF step
  <2> QED BY <1>1, <2>1, LoopStays
<1>5. f = rhs(f)
  <2>1. ASSUME NEW T \in SUBSET S, T # {}
        PROVE  f[T] = op(f[T \ {Greatest(T)}], Greatest(T))
    <3>1. f[T \ {last[T]}] \in U
      BY <1>1, <1>2, <1>4, <2>1
    <3>2. f[T] = step[last[T]][f[T \ {last[T]}]]
      <4> HIDE DEF step
      <4> QED BY <1>4, <2>1 DEF IsTable
    <3> QED BY <1>1, <2>1, <3>1, <3>2
  <2> HIDE DEF step
  <2> QED BY <1>4, <2>1 DEF IsTable
<1>6. table = rhs(table)
  <2> HIDE DEF rhs
  <2> QED BY <1>5
<1>7. AssessAll(w, s, again, S) = table[S]
  BY DEF AssessAll, InOrder, OneByOne, op
<1> HIDE DEF table
<1>8. table[{}] \in W[{}]
  BY <1>6
<1>9. \A T \in (SUBSET S) \ {{}} : table[T] = op(table[T \ {last[T]}], last[T])
  BY <1>1, <1>6
<1> HIDE DEF rhs
<1>10. \A T \in (SUBSET S) \ {{}} :
         table[T \ {last[T]}] \in W[T \ {last[T]}] => table[T] \in W[T]
  BY <1>3, <1>9
<1>11. table[S] \in W[S]
  BY <1>1, <1>8, <1>10, LoopEnds
<1> QED BY <1>7, <1>11

\* The loop over the breakpoints of ScriptParsed.
LEMMA AssessLoop ==
  ASSUME NEW w, IsState(w), NEW Q, Consistent(w, Q), NEW S \in SUBSET DOMAIN w.breakpoints,
         NEW s \in DOMAIN w.scripts, NEW again
  PROVE  Reconciles(AssessAll(w, s, again, S), w, Q, S)
<1> DEFINE op(v, b) == ParsedOne(v, b, s, again)
           U == States(w)
           W == [T \in SUBSET S |-> {v \in U : Reconciles(v, w, Q, T)}]
<1>a. S \in SUBSET Breakpoints /\ IsFiniteSet(S)
  BY StateTyped, ReducerAssumption, FS_Subset
<1>2. ASSUME NEW T \in SUBSET S, NEW b \in T, NEW v \in W[T \ {b}]
      PROVE  op(v, b) \in W[T]
  <2>1. Reconciles(v, w, Q, T \ {b})
    OBVIOUS
  <2>2. IsState(v) /\ Consistent(v, Q) /\ b \in DOMAIN v.breakpoints
        /\ DOMAIN v.scripts = DOMAIN w.scripts
    BY <2>1 DEF Reconciles
  <2>3. Reconciles(op(v, b), v, Q, {b})
    BY <2>2, ParsedOneReconciles
  <2> HIDE DEF op
  <2>4. (T \ {b}) \cap {b} = {} /\ (T \ {b}) \cup {b} = T
    OBVIOUS
  <2>5. Reconciles(op(v, b), w, Q, T)
    BY <2>1, <2>3, <2>4, ReconcilesTransitive
  <2>6. op(v, b) \in U
    BY <2>5 DEF Reconciles, IsState
  <2> QED BY <2>5, <2>6
<1>3. w \in W[{}]
  <2>1. Reconciles(w, w, Q, {}) /\ w \in U
    BY ReconcilesReflexive DEF IsState
  <2> QED BY <2>1
<1>4. \A T \in SUBSET S : \A k \in T : \A v \in W[T \ {k}] : op(v, k) \in W[T]
  BY <1>2
<1>5. AssessAll(w, s, again, S) \in W[S]
  <2> HIDE DEF W
  <2> QED BY <1>3, <1>4, <1>a, AssessAllStays
<1> QED BY <1>5

\* A script that is announced keeps what is held, except of its old version
\* (ScriptParsed).
LEMMA ScriptParsedContinues ==
  ASSUME NEW w, IsState(w), NEW Q, Consistent(w, Q), NEW s \in Scripts
  PROVE  Continues(ScriptParsed(w, s), w, Q)
<1> DEFINE again == s \in DOMAIN w.scripts
           n == IF again THEN w.scripts[s].version + 1 ELSE 1
           p == NewVersion(w, s, n)
           v == AssessAll(p, s, again, DOMAIN w.breakpoints)
           u == ScheduleSourceHydration(v, s, FALSE)
<1>1. n \in Nat /\ (again => n # w.scripts[s].version)
  BY StateTyped
<1>2. ScriptParsed(w, s) \in {u, v}
  BY DEF ScriptParsed, AssessAll, InOrder, OneByOne, ParsedOne, NewVersion
<1> HIDE DEF n
<1>3. /\ Prepares(p, w, Q) /\ SameExecution(p, w) /\ SpecsOf(p) = SpecsOf(w)
      /\ s \in DOMAIN p.scripts /\ DOMAIN p.breakpoints = DOMAIN w.breakpoints
  BY <1>1, NewVersionPrepares
<1> HIDE DEF p
<1>4. IsState(p) /\ Consistent(p, Q)
  BY <1>3 DEF Prepares
<1>5. Reconciles(v, p, Q, DOMAIN p.breakpoints)
  <2> HIDE DEF again
  <2> QED BY <1>3, <1>4, AssessLoop
<1> HIDE DEF v
<1>6. Reconciles(u, p, Q, DOMAIN p.breakpoints)
  <2>1. u \in Assessed(v, {})
    BY <1>5, HydrationAssesses DEF Reconciles
  <2> QED BY <1>5, <2>1, ReconcilesThenAssessed
<1> HIDE DEF u
<1>7. ASSUME NEW y, Reconciles(y, p, Q, DOMAIN p.breakpoints) PROVE Continues(y, w, Q)
  <2>1. Follows(y, w, Q) /\ SameSession(y, p) /\ SpecsOf(y) = SpecsOf(p)
    BY <1>3, <1>7, PreparedFollows
  <2> QED BY <1>3, <2>1 DEF Continues, SameSession, SameExecution
<1> QED BY <1>2, <1>5, <1>6, <1>7

\* Requesting a source leaves the breakpoints alone (RequestScriptSource).
LEMMA RequestScriptSourceContinues ==
  ASSUME NEW w, IsState(w), NEW Q, Consistent(w, Q), NEW s \in Scripts
  PROVE  Continues(RequestScriptSource(w, s), w, Q)
BY HydrationAssesses, AssessedContinues DEF RequestScriptSource

\* What is known of the source of a script changes.
LEMMA SourceAssessed ==
  ASSUME NEW w, IsState(w), NEW s \in DOMAIN w.scripts,
         NEW x \in ScriptState, x.version = w.scripts[s].version,
         NEW y \in SUBSET Effects, \A e \in w.pending : IsPhysicalEffect(e) => e \in y
  PROVE  [w EXCEPT !.pending = y, !.scripts[s] = x] \in Assessed(w, {})
<1> DEFINE z == [w.scripts EXCEPT ![s] = x]
           v == [w EXCEPT !.pending = y, !.scripts[s] = x]
           D == DOMAIN w.scripts
<1>1. w.scripts \in [D -> ScriptState] /\ w.out \in Seq(Effects)
  BY StateFields DEF IsState, States
<1>2. /\ z \in [D -> ScriptState]
      /\ \A k \in D : z[k].version = w.scripts[k].version
  BY <1>1
<1>3. v = [[w EXCEPT !.scripts = z] EXCEPT !.pending = y]
  BY DEF IsState, States, StatesOver
<1> HIDE DEF z
<1>4. v \in States(w)
  <2>1. [w EXCEPT !.scripts = z] \in States(w)
    BY <1>2, ScriptsSet DEF IsState, States
  <2>2. [[w EXCEPT !.scripts = z] EXCEPT !.pending = y] \in States(w)
    BY <1>1, <2>1, EffectsSet DEF States
  <2> QED BY <1>3, <2>2
<1>5. /\ v.scripts = z /\ v.out = w.out /\ v.pending = y /\ v.physical = w.physical
      /\ v.breakpoints = w.breakpoints /\ v.phase = w.phase /\ v.epoch = w.epoch
      /\ v.nextEpoch = w.nextEpoch /\ v.pause = w.pause /\ v.waiting = w.waiting
  BY DEF IsState, States, StatesOver, z
<1> HIDE DEF v
<1>6. LeavesPhysical(v, w)
  BY <1>1, <1>5 DEF LeavesPhysical
<1>7. SameSession(v, w) /\ SameVersions(v, w)
  BY <1>2, <1>5 DEF SameSession, SameVersions
<1>8. v \in Assessed(w, {})
  BY <1>4, <1>5, <1>6, <1>7 DEF Assessed, Assesses, SameSpecification
<1> QED BY <1>8 DEF v

\* The answer to a source effect changes its script only.
LEMMA SourceEffectTaken ==
  ASSUME NEW w, IsState(w), NEW e \in Effects, e.kind \in {"fetch", "build"},
         IsCurrentScript(w, e), NEW x \in ScriptState, x.version = e.version
  PROVE  [TakePending(w, e) EXCEPT !.scripts[e.script] = x] \in Assessed(w, {})
<1>1. e.script \in DOMAIN w.scripts /\ w.scripts[e.script].version = e.version
  BY DEF IsCurrentScript
<1>2. w.pending \ {e} \in SUBSET Effects
      /\ \A d \in w.pending : IsPhysicalEffect(d) => d \in w.pending \ {e}
  BY StateTyped DEF IsPhysicalEffect
<1>3. [w EXCEPT !.pending = w.pending \ {e}, !.scripts[e.script] = x] \in Assessed(w, {})
  BY <1>1, <1>2, SourceAssessed
<1>4. [w EXCEPT !.pending = w.pending \ {e}, !.scripts[e.script] = x]
        = [TakePending(w, e) EXCEPT !.scripts[e.script] = x]
  BY DEF TakePending, IsState, States, StatesOver
<1> QED BY <1>3, <1>4

\* Taking an effect that is not physical changes nothing that is held.
LEMMA TakenContinues ==
  ASSUME NEW w, IsState(w), NEW Q, Consistent(w, Q), NEW e, ~IsPhysicalEffect(e)
  PROVE  Continues(TakePending(w, e), w, Q)
<1>1. TakePending(w, e) \in Assessed(w, {})
  BY TakenAssesses DEF TakePending
<1> QED BY <1>1, AssessedContinues

\* A source that was fetched keeps what is held (ScriptSourceFetched).
LEMMA ScriptSourceFetchedContinues ==
  ASSUME NEW w, IsState(w), NEW Q, Consistent(w, Q), NEW e \in Effects, e.kind = "fetch",
         NEW content \in Contents
  PROVE  Continues(ScriptSourceFetched(w, e, content), w, Q)
<1> DEFINE t == TakePending(w, e)
           x == [w.scripts[e.script] EXCEPT !.source = "loaded", !.captured = content]
           v == [t EXCEPT !.scripts[e.script].source = "loaded",
                          !.scripts[e.script].captured = content]
           d == BuildEffect(e.script, e.version)
<1>1. CASE e \in w.pending /\ IsCurrentScript(w, e)
  <2>1. e.script \in DOMAIN w.scripts /\ w.scripts[e.script].version = e.version
        /\ w.scripts[e.script] \in ScriptState /\ e.script \in Scripts
    BY <1>1, StateTyped DEF IsCurrentScript
  <2>2. x \in ScriptState /\ x.version = e.version
    BY <2>1 DEF ScriptState
  <2>3. v = [t EXCEPT !.scripts[e.script] = x]
    BY <2>1 DEF TakePending, IsState, States, StatesOver
  <2>4. v \in Assessed(w, {})
    <3> HIDE DEF x
    <3>1. [t EXCEPT !.scripts[e.script] = x] \in Assessed(w, {})
      BY <1>1, <2>2, SourceEffectTaken
    <3> HIDE DEF v, t
    <3> QED BY <2>3, <3>1
  <2>5. ScriptSourceFetched(w, e, content) = Emit(v, d)
    BY <1>1 DEF ScriptSourceFetched
  <2> HIDE DEF v
  <2>6. Emit(v, d) \in Assessed(v, {})
    <3>1. d \in Effects /\ ~IsPhysicalEffect(d)
      BY <2>1, EffectKinds DEF ScriptState
    <3> HIDE DEF d
    <3> QED BY <2>4, <3>1, AssessedIsState, EmitAssesses
  <2>7. Emit(v, d) \in Assessed(w, {})
    BY <2>4, <2>6, AssessedTransitive
  <2> QED BY <2>5, <2>7, AssessedContinues
<1>2. CASE ~(e \in w.pending /\ IsCurrentScript(w, e))
  BY <1>2, TakenContinues DEF ScriptSourceFetched, IsPhysicalEffect
<1> QED BY <1>1, <1>2

\* A view that was built is reconciled (SourceViewBuilt).
LEMMA SourceViewBuiltContinues ==
  ASSUME NEW w, IsState(w), NEW Q, Consistent(w, Q), NEW e \in Effects, e.kind = "build",
         NEW view \in SUBSET AnyCandidate
  PROVE  Continues(SourceViewBuilt(w, e, view), w, Q)
<1> DEFINE t == TakePending(w, e)
           s == e.script
           x == [w.scripts[s] EXCEPT !.source = "resolved", !.view = view]
           v == [t EXCEPT !.scripts[s].source = "resolved", !.scripts[s].view = view]
           u == ReconcileBuiltScript(v, s)
<1>1. CASE e \in w.pending /\ IsCurrentScript(w, e)
  <2>1. s \in DOMAIN w.scripts /\ w.scripts[s].version = e.version
        /\ w.scripts[s] \in ScriptState
    BY <1>1, StateTyped DEF IsCurrentScript
  <2>2. x \in ScriptState /\ x.version = e.version
    BY <2>1 DEF ScriptState
  <2>3. v = [t EXCEPT !.scripts[s] = x]
    BY <2>1 DEF TakePending, IsState, States, StatesOver
  <2>4. v \in Assessed(w, {})
    <3> HIDE DEF x
    <3>1. [t EXCEPT !.scripts[s] = x] \in Assessed(w, {})
      BY <1>1, <2>2, SourceEffectTaken
    <3> HIDE DEF v, t
    <3> QED BY <2>3, <3>1
  <2>5. SourceViewBuilt(w, e, view) = ScheduleFrameMappings(u, s)
    BY <1>1 DEF SourceViewBuilt
  <2> HIDE DEF v
  <2>6. IsState(v) /\ Consistent(v, Q) /\ s \in DOMAIN v.scripts
    BY <2>1, <2>4, AssessedIsState, AssessedConsistent
  <2>7. Reconciles(u, v, Q, DOMAIN v.breakpoints)
    BY <2>6, ReconcileBuiltScriptReconciles
  <2> HIDE DEF u
  <2>8. ScheduleFrameMappings(u, s) \in Assessed(u, {})
    BY <2>7, FrameMappingsAssess DEF Reconciles
  <2>9. Reconciles(ScheduleFrameMappings(u, s), v, Q, DOMAIN v.breakpoints)
    BY <2>7, <2>8, ReconcilesThenAssessed
  <2>10. Reconciles(ScheduleFrameMappings(u, s), w, Q, DOMAIN v.breakpoints)
    BY <2>4, <2>9, AssessedThenReconciles
  <2> QED BY <2>5, <2>10, ReconcilesContinues
<1>2. CASE ~(e \in w.pending /\ IsCurrentScript(w, e))
  BY <1>2, TakenContinues DEF SourceViewBuilt, IsPhysicalEffect
<1> QED BY <1>1, <1>2

\* A source that failed is reconciled (SourceFailed).
LEMMA SourceFailedContinues ==
  ASSUME NEW w, IsState(w), NEW Q, Consistent(w, Q), NEW e \in Effects,
         e.kind \in {"fetch", "build"}
  PROVE  Continues(SourceFailed(w, e), w, Q)
<1> DEFINE t == TakePending(w, e)
           s == e.script
           x == [w.scripts[s] EXCEPT !.source = "failed"]
           v == [t EXCEPT !.scripts[s].source = "failed"]
           u == SetFrames(v, RawFrames(w, s), "failed")
<1>1. CASE e \in w.pending /\ IsCurrentScript(w, e)
  <2>1. s \in DOMAIN w.scripts /\ w.scripts[s].version = e.version
        /\ w.scripts[s] \in ScriptState
    BY <1>1, StateTyped DEF IsCurrentScript
  <2>2. x \in ScriptState /\ x.version = e.version
    BY <2>1 DEF ScriptState
  <2>3. v = [t EXCEPT !.scripts[s] = x]
    BY <2>1 DEF TakePending, IsState, States, StatesOver
  <2>4. v \in Assessed(w, {})
    <3> HIDE DEF x
    <3>1. [t EXCEPT !.scripts[s] = x] \in Assessed(w, {})
      BY <1>1, <2>2, SourceEffectTaken
    <3> HIDE DEF v, t
    <3> QED BY <2>3, <3>1
  <2>5. SourceFailed(w, e) = ReconcileAll(u)
    BY <1>1 DEF SourceFailed
  <2>6. v.pause = w.pause
    BY DEF TakePending, IsState, States, StatesOver
  <2> HIDE DEF v
  <2>7. RawFrames(w, s) \in SUBSET DOMAIN Frames(v)
    BY <2>6 DEF RawFrames, Frames
  <2>8. u \in Assessed(w, {})
    <3>1. IsState(v) /\ v.pending \in SUBSET Effects
      BY <2>4, AssessedIsState, StateTyped
    <3>2. u \in Assessed(v, {})
      BY <2>7, <3>1, SetFramesAssesses
    <3> HIDE DEF u
    <3> QED BY <2>4, <3>2, AssessedTransitive
  <2> HIDE DEF u
  <2>9. Reconciles(ReconcileAll(u), u, Q, DOMAIN u.breakpoints)
    BY <2>8, AssessedIsState, AssessedConsistent, ReconcileAllReconciles
  <2>10. Reconciles(ReconcileAll(u), w, Q, DOMAIN u.breakpoints)
    BY <2>8, <2>9, AssessedThenReconciles
  <2> QED BY <2>5, <2>10, ReconcilesContinues
<1>2. CASE ~(e \in w.pending /\ IsCurrentScript(w, e))
  BY <1>2, TakenContinues DEF SourceFailed, IsPhysicalEffect
<1> QED BY <1>1, <1>2

-----------------------------------------------------------------------------
(***************************************************************************)
(* The inputs about the execution.                                         *)
(***************************************************************************)
\* v is w with another execution.
WithExecution(w, phase, epoch, next, pause, waiting, pending) ==
  [w EXCEPT !.phase = phase, !.epoch = epoch, !.nextEpoch = next, !.pause = pause,
            !.waiting = waiting, !.pending = pending]

HasExecution(v, w, Q, phase, epoch, next, pause) ==
  /\ IsState(v) /\ Prepares(v, w, Q) /\ SpecsOf(v) = SpecsOf(w)
  /\ v.scripts = w.scripts
  /\ v.phase = phase /\ v.epoch = epoch /\ v.nextEpoch = next /\ v.pause = pause

\* A change of the execution keeps everything about breakpoints.
LEMMA ExecutionSet ==
  ASSUME NEW w, IsState(w), NEW Q, Consistent(w, Q),
         NEW phase \in {"running", "paused", "resuming"}, NEW epoch \in Nat, NEW next \in Nat,
         NEW pause \in {NoPause} \cup Pause, NEW waiting \in BOOLEAN,
         NEW y \in SUBSET Effects, \A e \in w.pending : IsPhysicalEffect(e) => e \in y
  PROVE  HasExecution(WithExecution(w, phase, epoch, next, pause, waiting, y), w, Q,
                      phase, epoch, next, pause)
<1> DEFINE v == WithExecution(w, phase, epoch, next, pause, waiting, y)
<1>1. v \in States(w)
  BY DEF WithExecution, IsState, States, StatesOver
<1>2. /\ v.phase = phase /\ v.epoch = epoch /\ v.nextEpoch = next /\ v.pause = pause
      /\ v.scripts = w.scripts /\ v.breakpoints = w.breakpoints /\ v.physical = w.physical
      /\ v.out = w.out /\ v.pending = y
  BY DEF WithExecution, IsState, States, StatesOver
<1> HIDE DEF v
<1>3. IsState(v)
  BY <1>1, <1>2 DEF IsState, States
<1>4. Consistent(v, Q)
  <2>1. \A e : IsPhysicalEffect(e) /\ Fits(w, e) => Fits(v, e)
    BY <1>2 DEF Fits
  <2>2. Owed(v, Q)
    BY <1>2, <2>1 DEF Consistent, Owed
  <2>3. Asked(v)
    <3>1. \A p \in DOMAIN w.physical :
            IsPhysicalEffect(InstallEffect(p)) /\ IsPhysicalEffect(RemoveEffect(p))
      BY DEF IsPhysicalEffect, InstallEffect, RemoveEffect
    <3> QED BY <1>2, <3>1 DEF Consistent, Asked, AskedAt
  <2>4. Bound(v)
    BY <1>2 DEF Consistent, Bound, BoundAt
  <2> QED BY <2>2, <2>3, <2>4 DEF Consistent
<1>5. Prepares(v, w, Q)
  BY <1>2, <1>3, <1>4 DEF Prepares, Grows, KeepsHeld, Holds
<1>6. SpecsOf(v) = SpecsOf(w)
  BY <1>2 DEF SpecsOf
<1> QED BY <1>2, <1>3, <1>5, <1>6 DEF HasExecution, v

\* An input that changes the execution.
Leads(v, w, Q, phase, epoch, next) ==
  /\ Follows(v, w, Q) /\ SpecsOf(v) = SpecsOf(w)
  /\ v.phase = phase /\ v.epoch = epoch /\ v.nextEpoch = next

\* A change of the execution, followed by a step that leaves the physical
\* breakpoints alone.
LEMMA ExecutionLeads ==
  ASSUME NEW w, NEW Q, NEW v, NEW phase, NEW epoch, NEW next, NEW pause,
         HasExecution(v, w, Q, phase, epoch, next, pause), NEW T, NEW u \in Assessed(v, T)
  PROVE  /\ Leads(u, w, Q, phase, epoch, next)
         /\ u.pause = NoPause <=> pause = NoPause
         /\ pause # NoPause => u.pause.epoch = pause.epoch
<1>1. IsState(v) /\ Consistent(v, Q) /\ Prepares(v, w, Q)
  BY DEF HasExecution, Prepares
<1>2. Reconciles(u, v, Q, T)
  BY <1>1, AssessedReconciles
<1>3. Follows(u, w, Q) /\ SameSession(u, v) /\ SpecsOf(u) = SpecsOf(v)
  BY <1>1, <1>2, PreparedFollows
<1> QED BY <1>3 DEF Leads, HasExecution, SameSession

\* A pause visits the scripts of its frames.
VisitFrame(v, scripts, i) ==
  IF (\A j \in 1..(i - 1) : scripts[j] # scripts[i]) /\ scripts[i] \in DOMAIN v.scripts
  THEN IF v.scripts[scripts[i]].source = "resolved"
       THEN ScheduleFrameMappings(v, scripts[i])
       ELSE ScheduleSourceHydration(v, scripts[i], FALSE)
  ELSE v

VisitAll(w, scripts, S) == InOrder(LAMBDA v, i : VisitFrame(v, scripts, i), w, S)

\* The loop over the scripts of a pause (Paused).
LEMMA VisitLoop ==
  ASSUME NEW w, IsState(w), NEW scripts \in Seq(Scripts), NEW S \in SUBSET DOMAIN scripts
  PROVE  VisitAll(w, scripts, S) \in Assessed(w, {})
<1> DEFINE op(v, i) == VisitFrame(v, scripts, i)
           last == [T \in (SUBSET S) \ {{}} |-> Greatest(T)]
           U == Assessed(w, {})
           W == [T \in SUBSET S |-> {v \in U : TRUE}]
           step == [i \in S |-> [v \in U |-> op(v, i)]]
           rhs(g) == [T \in SUBSET S |->
                        IF T = {} THEN w ELSE op(g[T \ {Greatest(T)}], Greatest(T))]
           table == CHOOSE g : g = rhs(g)
<1>a. S \in SUBSET Nat /\ IsFiniteSet(S)
  <2>1. DOMAIN scripts = 1..Len(scripts) /\ Len(scripts) \in Nat
    OBVIOUS
  <2>2. IsFiniteSet(1..Len(scripts))
    BY <2>1, FS_Interval
  <2>3. S \subseteq 1..Len(scripts)
    BY <2>1
  <2>4. IsFiniteSet(S)
    BY <2>2, <2>3, FS_Subset
  <2> QED BY <2>1, <2>3, <2>4
<1>1. \A T \in (SUBSET S) \ {{}} : last[T] = Greatest(T) /\ last[T] \in T
  BY GreatestExists, ReducerAssumption, <1>a
<1>2. ASSUME NEW T \in SUBSET S, NEW i \in T, NEW v \in W[T \ {i}]
      PROVE  op(v, i) \in W[T]
  <2>1. op(v, i) \in Assessed(v, {})
    <3>1. IsState(v) /\ scripts[i] \in Scripts
      BY AssessedIsState
    <3>2. /\ ScheduleFrameMappings(v, scripts[i]) \in Assessed(v, {})
          /\ ScheduleSourceHydration(v, scripts[i], FALSE) \in Assessed(v, {})
          /\ v \in Assessed(v, {})
      BY <3>1, FrameMappingsAssess, HydrationAssesses, AssessedReflexive
    <3> QED BY <3>2 DEF VisitFrame
  <2> HIDE DEF op
  <2> QED BY <2>1, AssessedTransitive
<1>3. w \in W[{}]
  BY AssessedReflexive
<1>4. \A T \in SUBSET S : W[T] \subseteq U
  OBVIOUS
<1> HIDE DEF W, U
<1>5. PICK f : IsTable(f, S, w, last, step) /\ \A T \in SUBSET S : f[T] \in W[T]
  <2>1. ASSUME NEW T \in (SUBSET S) \ {{}}, NEW v \in W[T \ {last[T]}]
        PROVE  step[last[T]][v] \in W[T]
    <3>1. last[T] \in T /\ last[T] \in S /\ T \ {last[T]} \in SUBSET S
      BY <1>1
    <3>2. v \in U
      BY <1>4, <3>1
    <3> HIDE DEF last, op
    <3>3. step[last[T]][v] = op(v, last[T])
      BY <3>1, <3>2
    <3> HIDE DEF step
    <3> QED BY <1>2, <3>1, <3>3
  <2> HIDE DEF last, step
  <2> QED BY <1>1, <1>3, <1>a, <2>1, LoopStays
<1>6. f = rhs(f)
  <2>1. ASSUME NEW T \in SUBSET S, T # {}
        PROVE  f[T] = op(f[T \ {Greatest(T)}], Greatest(T))
    <3>1. /\ last[T] \in T /\ last[T] = Greatest(T) /\ last[T] \in S
          /\ T \ {last[T]} \in SUBSET S
      BY <1>1, <2>1
    <3>2. f[T \ {last[T]}] \in U
      BY <1>4, <1>5, <3>1
    <3> HIDE DEF last, op
    <3>3. f[T] = step[last[T]][f[T \ {last[T]}]]
      <4> HIDE DEF step
      <4> QED BY <1>5, <2>1 DEF IsTable
    <3> QED BY <3>1, <3>2, <3>3
  <2> HIDE DEF op, step, last
  <2> QED BY <1>5, <2>1 DEF IsTable
<1>7. table = rhs(table)
  <2> HIDE DEF rhs
  <2> QED BY <1>6
<1>8. table[S] \in W[S]
  <2> HIDE DEF table, op
  <2>1. table[{}] \in W[{}]
    BY <1>3, <1>7
  <2>2. ASSUME NEW T \in (SUBSET S) \ {{}}, table[T \ {last[T]}] \in W[T \ {last[T]}]
        PROVE  table[T] \in W[T]
    <3>1. last[T] \in T /\ last[T] = Greatest(T)
      BY <1>1
    <3>2. table[T] = op(table[T \ {last[T]}], last[T])
      BY <1>7, <3>1
    <3> HIDE DEF last, rhs
    <3> QED BY <1>2, <2>2, <3>1, <3>2
  <2> HIDE DEF last, rhs
  <2> QED BY <1>1, <2>1, <1>a, <2>2, LoopEnds
<1>9. VisitAll(w, scripts, S) = table[S]
  BY DEF VisitAll, InOrder, OneByOne
<1> HIDE DEF table
<1> QED BY <1>4, <1>8, <1>9 DEF U

\* A pause opens the next epoch (Paused).
LEMMA PausedLeads ==
  ASSUME NEW w, IsState(w), NEW Q, Consistent(w, Q), NEW scripts \in Seq(Scripts),
         ~IsStopped(w)
  PROVE  LET v == Paused(w, scripts)
         IN /\ Leads(v, w, Q, "paused", w.nextEpoch, w.nextEpoch + 1)
            /\ v.pause # NoPause /\ v.pause.epoch = w.nextEpoch
<1> DEFINE frames == [i \in DOMAIN scripts |-> [script |-> scripts[i], projected |-> "raw"]]
           pause == [epoch |-> w.nextEpoch, frames |-> frames]
           y == IF w.phase = "resuming" THEN w.pending \ {ResumeEffect(w.epoch)} ELSE w.pending
           u == WithExecution(w, "paused", w.nextEpoch, w.nextEpoch + 1, pause, w.waiting, y)
           v == VisitAll(u, scripts, DOMAIN scripts)
<1>1. w.phase \in {"running", "paused", "resuming"} /\ w.epoch \in Nat /\ w.nextEpoch \in Nat
      /\ w.waiting \in BOOLEAN
  BY StateFields DEF IsState, States
<1>2. Paused(w, scripts) = v
  <2>1. u = [w EXCEPT !.phase = "paused", !.epoch = w.nextEpoch, !.nextEpoch = @ + 1,
               !.pause = [epoch |-> w.nextEpoch, frames |-> frames],
               !.pending = IF w.phase = "resuming" THEN @ \ {ResumeEffect(w.epoch)} ELSE @]
    BY DEF WithExecution, IsState, States, StatesOver
  <2> HIDE DEF u
  <2>2. w.phase = "running"
    BY <1>1 DEF IsStopped
  <2> QED BY <2>1, <2>2 DEF Paused, VisitAll, InOrder, OneByOne, VisitFrame
<1>3. pause \in Pause /\ pause.epoch = w.nextEpoch /\ pause # NoPause
  <2>1. frames \in Seq(Frame)
    <3>1. DOMAIN scripts = 1..Len(scripts) /\ Len(scripts) \in Nat
      OBVIOUS
    <3>2. \A i \in DOMAIN scripts : frames[i] \in Frame
      BY DEF Frame
    <3> QED BY <3>1, <3>2
  <2>2. pause \in Pause
    <3> HIDE DEF frames
    <3> QED BY <1>1, <2>1 DEF Pause
  <2> QED BY <2>2, ReducerAssumption
<1> HIDE DEF pause
<1>4. y \in SUBSET Effects /\ \A e \in w.pending : IsPhysicalEffect(e) => e \in y
  <2>1. ~IsPhysicalEffect(ResumeEffect(w.epoch))
    BY <1>1, EffectKinds
  <2> QED BY <2>1, StateTyped
<1> HIDE DEF y
<1>5. HasExecution(u, w, Q, "paused", w.nextEpoch, w.nextEpoch + 1, pause)
  <2>1. w.nextEpoch + 1 \in Nat
    BY <1>1
  <2> QED BY <1>1, <1>3, <1>4, <2>1, ExecutionSet
<1> HIDE DEF u
<1>6. v \in Assessed(u, {})
  BY <1>5, VisitLoop DEF HasExecution
<1> HIDE DEF v
<1>7. Leads(v, w, Q, "paused", w.nextEpoch, w.nextEpoch + 1)
      /\ (v.pause = NoPause <=> pause = NoPause)
      /\ (pause # NoPause => v.pause.epoch = pause.epoch)
  BY <1>5, <1>6, ExecutionLeads
<1> QED BY <1>2, <1>3, <1>7

\* A resumed session runs (Resumed).
LEMMA ResumedLeads ==
  ASSUME NEW w, IsState(w), NEW Q, Consistent(w, Q),
         IsStopped(w), w.pause # NoPause, w.pause.epoch = w.epoch
  PROVE  Leads(Resumed(w, w.epoch), w, Q, "running", 0, w.nextEpoch)
<1> DEFINE y == {e \in w.pending : ~(e.kind = "frame" /\ e.epoch = w.epoch)}
           v == WithExecution(w, "running", 0, w.nextEpoch, NoPause, w.waiting, y)
<1>1. w.nextEpoch \in Nat /\ w.waiting \in BOOLEAN
  BY StateFields DEF IsState, States
<1>2. Resumed(w, w.epoch) = v
  BY DEF Resumed, WithExecution, IsState, States, StatesOver
<1>3. y \in SUBSET Effects /\ \A e \in w.pending : IsPhysicalEffect(e) => e \in y
  BY StateTyped DEF IsPhysicalEffect
<1> HIDE DEF y
<1>4. HasExecution(v, w, Q, "running", 0, w.nextEpoch, NoPause)
  BY <1>1, <1>3, ExecutionSet
<1> HIDE DEF v
<1>5. v \in Assessed(v, {})
  BY <1>4, AssessedReflexive DEF HasExecution
<1> QED BY <1>2, <1>4, <1>5, ExecutionLeads

\* A resume that is asked for keeps the pause (ResumeRequested).
LEMMA ResumeRequestedLeads ==
  ASSUME NEW w, IsState(w), NEW Q, Consistent(w, Q), w.phase = "paused"
  PROVE  LET v == ResumeRequested(w, w.epoch)
         IN /\ Leads(v, w, Q, "resuming", w.epoch, w.nextEpoch)
            /\ v.pause = NoPause <=> w.pause = NoPause
            /\ w.pause # NoPause => v.pause.epoch = w.pause.epoch
<1> DEFINE u == WithExecution(w, "resuming", w.epoch, w.nextEpoch, w.pause, w.waiting, w.pending)
           v == Emit(u, ResumeEffect(w.epoch))
<1>1. w.epoch \in Nat /\ w.nextEpoch \in Nat /\ w.waiting \in BOOLEAN
      /\ w.pause \in {NoPause} \cup Pause
  BY StateFields DEF IsState, States
<1>2. ResumeRequested(w, w.epoch) = v
  BY DEF ResumeRequested, WithExecution, IsState, States, StatesOver
<1>3. HasExecution(u, w, Q, "resuming", w.epoch, w.nextEpoch, w.pause)
  <2>1. w.pending \in SUBSET Effects
    BY StateTyped
  <2> QED BY <1>1, <2>1, ExecutionSet
<1> HIDE DEF u
<1>4. v \in Assessed(u, {})
  BY <1>1, <1>3, EffectKinds, EmitAssesses DEF HasExecution
<1> HIDE DEF v
<1> QED BY <1>2, <1>3, <1>4, ExecutionLeads

\* Releasing a waiting target changes nothing that is held (ReleaseIfWaiting).
LEMMA ReleaseIfWaitingContinues ==
  ASSUME NEW w, IsState(w), NEW Q, Consistent(w, Q)
  PROVE  Continues(ReleaseIfWaiting(w), w, Q)
<1>1. Emit(w, ReleaseEffect) \in Assessed(w, {}) /\ w \in Assessed(w, {})
  BY EffectKinds, EmitAssesses, AssessedReflexive
<1> QED BY <1>1, AssessedContinues DEF ReleaseIfWaiting

\* An accepted command changes nothing that is held (CommandAccepted).
LEMMA CommandAcceptedContinues ==
  ASSUME NEW w, IsState(w), NEW Q, Consistent(w, Q), NEW e, ~IsPhysicalEffect(e)
  PROVE  Continues(CommandAccepted(w, e), w, Q)
<1> DEFINE y == w.pending \ {e}
           v == WithExecution(w, w.phase, w.epoch, w.nextEpoch, w.pause, FALSE, y)
<1>1. w.phase \in {"running", "paused", "resuming"} /\ w.epoch \in Nat /\ w.nextEpoch \in Nat
      /\ w.pause \in {NoPause} \cup Pause
  BY StateFields DEF IsState, States
<1>2. CommandAccepted(w, e) \in {w, v, TakePending(w, e)}
  <2>1. [TakePending(w, e) EXCEPT !.waiting = FALSE] = v
    BY DEF TakePending, WithExecution, IsState, States, StatesOver
  <2> QED BY <2>1 DEF CommandAccepted
<1>3. Continues(w, w, Q)
  BY AssessedReflexive, AssessedContinues
<1>4. Continues(TakePending(w, e), w, Q)
  BY TakenContinues
<1>5. Continues(v, w, Q)
  <2>1. y \in SUBSET Effects /\ \A d \in w.pending : IsPhysicalEffect(d) => d \in y
    BY StateTyped
  <2>2. HasExecution(v, w, Q, w.phase, w.epoch, w.nextEpoch, w.pause)
    <3> HIDE DEF y
    <3> QED BY <1>1, <2>1, ExecutionSet
  <2> HIDE DEF v
  <2>3. v \in Assessed(v, {})
    BY <2>2, AssessedReflexive DEF HasExecution
  <2> QED BY <2>2, <2>3, ExecutionLeads DEF Leads, Continues, SameExecution
<1> QED BY <1>2, <1>3, <1>4, <1>5

\* The frames of the pause.
LEMMA FrameMappedContinues ==
  ASSUME NEW w, IsState(w), NEW Q, Consistent(w, Q), NEW e, e.kind = "frame"
  PROVE  Continues(FrameMapped(w, e), w, Q) /\ Continues(FrameFailed(w, e), w, Q)
<1> DEFINE t == TakePending(w, e)
<1>1. t \in Assessed(w, {}) /\ t.pause = w.pause
  <2>1. t \in Assessed(w, {})
    BY TakenAssesses DEF TakePending, IsPhysicalEffect
  <2> QED BY <2>1 DEF TakePending, IsState, States, StatesOver
<1> HIDE DEF t
<1>2. IsState(t) /\ t.pending \in SUBSET Effects /\ Frames(t) = Frames(w)
  BY <1>1, AssessedIsState, StateTyped DEF Frames
<1>3. ASSUME NEW S \in SUBSET DOMAIN Frames(w), NEW k \in {"resolved", "failed"}
      PROVE  SetFrames(t, S, k) \in Assessed(w, {})
  <2>1. SetFrames(t, S, k) \in Assessed(t, {})
    BY <1>2, SetFramesAssesses
  <2> QED BY <1>1, <2>1, AssessedTransitive
<1>4. FrameMapped(w, e) \in Assessed(w, {})
  <2>1. {e.index} \cap DOMAIN Frames(w) \in SUBSET DOMAIN Frames(w)
    OBVIOUS
  <2>2. FrameMapped(w, e) \in {t, SetFrames(t, {e.index} \cap DOMAIN Frames(w), "resolved")}
    BY DEF FrameMapped, t
  <2> QED BY <1>1, <1>3, <2>1, <2>2
<1>5. FrameFailed(w, e) \in Assessed(w, {})
  <2>1. \/ FrameFailed(w, e) = t
        \/ /\ e.index \in DOMAIN Frames(w)
           /\ FrameFailed(w, e) = SetFrames(t, {e.index}, "failed")
    BY DEF FrameFailed, t
  <2> QED BY <1>1, <1>3, <2>1
<1> QED BY <1>4, <1>5, AssessedContinues

-----------------------------------------------------------------------------
(***************************************************************************)
(* The queue.                                                              *)
(***************************************************************************)
\* The effects of a queue, and that none about a physical breakpoint is in it twice.
InQueue(q) == {q[i] : i \in DOMAIN q}

Distinct(q) ==
  \A i, j \in DOMAIN q : IsPhysicalEffect(q[i]) /\ q[i] = q[j] => i = j

\* What holds of the state, the queue and the breakpoints of the browser between
\* the steps of the task.
Sound(s, q, held, specs) ==
  /\ IsState(s) /\ s.out = <<>> /\ SpecsOf(s) \subseteq specs
  /\ q \in Seq(Effects) /\ Distinct(q) /\ Consistent(s, InQueue(q))
  /\ held \subseteq DOMAIN s.physical
  /\ \A p \in DOMAIN s.physical : s.physical[p].status = "installed" => p \in held

\* v is u once its effects were taken.
Emptied(v, u) ==
  /\ IsState(v) /\ v.out = <<>> /\ States(v) = States(u)
  /\ v.phase = u.phase /\ v.epoch = u.epoch /\ v.nextEpoch = u.nextEpoch /\ v.pause = u.pause
  /\ v.scripts = u.scripts /\ v.breakpoints = u.breakpoints /\ v.physical = u.physical
  /\ v.pending = u.pending

\* What taking the emitted effects changes: `out` only (reduce_recorded).
LEMMA EmptiedIs ==
  ASSUME NEW u, IsState(u)
  PROVE  Emptied([u EXCEPT !.out = <<>>], u)
<1> DEFINE v == [u EXCEPT !.out = <<>>]
<1>1. <<>> \in Seq(Effects)
  OBVIOUS
<1>2. v \in States(u)
  BY <1>1 DEF IsState, States, StatesOver
<1>3. /\ v.phase = u.phase /\ v.epoch = u.epoch /\ v.nextEpoch = u.nextEpoch
      /\ v.pause = u.pause /\ v.scripts = u.scripts /\ v.breakpoints = u.breakpoints
      /\ v.physical = u.physical /\ v.pending = u.pending /\ v.out = <<>>
  BY DEF IsState, States, StatesOver
<1> HIDE DEF v
<1>4. IsState(v) /\ States(v) = States(u)
  BY <1>2, <1>3 DEF IsState, States
<1>5. Emptied(v, u)
  BY <1>3, <1>4 DEF Emptied
<1> QED BY <1>5 DEF v

\* A queue with new effects at its end has none about a physical breakpoint twice.
LEMMA QueueAppended ==
  ASSUME NEW q \in Seq(Effects), NEW o \in Seq(Effects), Distinct(q),
         \A i \in DOMAIN o : IsPhysicalEffect(o[i]) =>
            /\ o[i] \notin InQueue(q)
            /\ \A j \in DOMAIN o : o[j] = o[i] => j = i
  PROVE  /\ q \o o \in Seq(Effects) /\ Distinct(q \o o)
         /\ InQueue(q \o o) = InQueue(q) \cup InQueue(o)
<1> DEFINE r == q \o o
<1>1. /\ Len(q) \in Nat /\ Len(o) \in Nat /\ Len(r) = Len(q) + Len(o)
      /\ DOMAIN q = 1..Len(q) /\ DOMAIN o = 1..Len(o) /\ DOMAIN r = 1..Len(r)
      /\ r \in Seq(Effects)
      /\ \A i \in 1..Len(r) : r[i] = IF i <= Len(q) THEN q[i] ELSE o[i - Len(q)]
  OBVIOUS
<1> HIDE DEF r
<1>2. \A i \in DOMAIN q : i \in DOMAIN r /\ r[i] = q[i]
  BY <1>1
<1>3. \A i \in DOMAIN o : i + Len(q) \in DOMAIN r /\ r[i + Len(q)] = o[i]
  BY <1>1
<1>4. \A i \in DOMAIN r : i \in DOMAIN q \/ (i - Len(q) \in DOMAIN o /\ r[i] = o[i - Len(q)])
  BY <1>1
<1>5. InQueue(r) = InQueue(q) \cup InQueue(o)
  BY <1>2, <1>3, <1>4 DEF InQueue
<1>6. ASSUME NEW i \in DOMAIN r, NEW j \in DOMAIN r, IsPhysicalEffect(r[i]), r[i] = r[j]
      PROVE  i = j
  <2>1. CASE i \in DOMAIN q /\ j \in DOMAIN q
    BY <1>2, <1>6, <2>1 DEF Distinct
  <2>2. CASE i \in DOMAIN q /\ j \notin DOMAIN q
    <3>1. j - Len(q) \in DOMAIN o /\ r[j] = o[j - Len(q)] /\ r[i] \in InQueue(q)
      BY <1>2, <1>4, <2>2 DEF InQueue
    <3> QED BY <1>6, <3>1
  <2>3. CASE i \notin DOMAIN q /\ j \in DOMAIN q
    <3>1. i - Len(q) \in DOMAIN o /\ r[i] = o[i - Len(q)] /\ r[j] \in InQueue(q)
      BY <1>2, <1>4, <2>3 DEF InQueue
    <3> QED BY <1>6, <3>1
  <2>4. CASE i \notin DOMAIN q /\ j \notin DOMAIN q
    <3>1. /\ i - Len(q) \in DOMAIN o /\ r[i] = o[i - Len(q)]
          /\ j - Len(q) \in DOMAIN o /\ r[j] = o[j - Len(q)]
      BY <1>4, <2>4
    <3>2. i - Len(q) = j - Len(q)
      BY <1>6, <3>1
    <3> QED BY <1>1, <3>2
  <2> QED BY <2>1, <2>2, <2>3, <2>4
<1>7. r \in Seq(Effects) /\ Distinct(r) /\ InQueue(r) = InQueue(q) \cup InQueue(o)
  BY <1>1, <1>5, <1>6 DEF Distinct
<1> QED BY <1>7 DEF r

\* A state whose effects go to the end of the queue.
LEMMA ReducedSound ==
  ASSUME NEW q \in Seq(Effects), Distinct(q), NEW u, IsState(u), Consistent(u, InQueue(q)),
         NEW held, held \subseteq DOMAIN u.physical,
         \A p \in DOMAIN u.physical : u.physical[p].status = "installed" => p \in held,
         NEW specs, SpecsOf(u) \subseteq specs
  PROVE  Sound([u EXCEPT !.out = <<>>], q \o u.out, held, specs)
<1> DEFINE v == [u EXCEPT !.out = <<>>]
           o == u.out
           r == q \o o
<1>1. Emptied(v, u)
  BY EmptiedIs
<1>2. o \in Seq(Effects)
  BY StateFields DEF IsState, States
<1>3. r \in Seq(Effects) /\ Distinct(r) /\ InQueue(r) = InQueue(q) \cup InQueue(o)
  <2>1. \A i \in DOMAIN o : IsPhysicalEffect(o[i]) =>
            /\ o[i] \notin InQueue(q)
            /\ \A j \in DOMAIN o : o[j] = o[i] => j = i
    BY DEF Consistent, Owed
  <2> HIDE DEF o
  <2> QED BY <1>2, <2>1, QueueAppended
<1>4. \A e \in InQueue(r) : IsPhysicalEffect(e) => Fits(v, e)
  <2>1. ASSUME NEW e \in InQueue(q) \cup InQueue(o), IsPhysicalEffect(e) PROVE Fits(u, e)
    BY <2>1 DEF InQueue, Consistent, Owed
  <2> HIDE DEF v, r
  <2> QED BY <1>1, <1>3, <2>1 DEF Emptied, Fits
<1> HIDE DEF v, r
<1>5. Consistent(v, InQueue(r))
  <2>1. Bound(v) /\ Asked(v)
    BY <1>1 DEF Emptied, Consistent, Bound, BoundAt, Asked, AskedAt
  <2>2. Owed(v, InQueue(r))
    <3>1. DOMAIN v.out = {}
      BY <1>1 DEF Emptied
    <3> QED BY <1>4, <3>1 DEF Owed
  <2> QED BY <2>1, <2>2 DEF Consistent
<1>6. Sound(v, r, held, specs)
  BY <1>1, <1>3, <1>5 DEF Sound, Emptied, SpecsOf
<1> QED BY <1>6 DEF v, r

\* What the steps of the task keep of the breakpoints that are held.
Steady(v, s) == \A c : Survives(v, s, c) => Stays(v, s, c)

\* Taking the emitted effects keeps what is held.
LEMMA EmptiedSteady ==
  ASSUME NEW s, NEW u, NEW v, Emptied(v, u), Steady(u, s)
  PROVE  Steady(v, s)
<1>1. \A c : Survives(v, s, c) => Survives(u, s, c)
  BY DEF Emptied, Survives, SameVersions
<1>2. \A c : Stays(u, s, c) => Stays(v, s, c)
  BY DEF Emptied, Stays, Holds, Nowhere, Desired, Decided
<1> QED BY <1>1, <1>2 DEF Steady

\* An input whose effects go to the end of the queue.
LEMMA FollowsSound ==
  ASSUME NEW s, NEW q, NEW held, NEW specs, Sound(s, q, held, specs),
         NEW r \in Seq(Effects), Distinct(r),
         NEW u, Follows(u, s, InQueue(r)), SpecsOf(u) \subseteq specs
  PROVE  /\ Sound([u EXCEPT !.out = <<>>], r \o u.out, held, specs)
         /\ Steady([u EXCEPT !.out = <<>>], s)
<1>1. /\ IsState(u) /\ Consistent(u, InQueue(r)) /\ held \subseteq DOMAIN u.physical
      /\ \A p \in DOMAIN u.physical : u.physical[p].status = "installed" => p \in held
  BY DEF Follows, Grows, Sound
<1>2. Steady(u, s)
  BY DEF Follows, Steady
<1> QED BY <1>1, <1>2, ReducedSound, EmptiedIs, EmptiedSteady

\* What the browser holds once an effect about p was answered, p having gone if
\* it is in S.
Renewed(now, held, u, s, p, S) ==
  /\ now \subseteq DOMAIN u.physical /\ held \ S \subseteq now /\ (p \in S \/ p \in now)
  /\ \A k \in S : k \in DOMAIN s.physical => s.physical[k].status # "installed"

\* The completion of a physical effect, whose effects go to the end of the queue.
LEMMA AnswersSound ==
  ASSUME NEW s, NEW q, NEW held, NEW specs, Sound(s, q, held, specs),
         NEW r \in Seq(Effects), Distinct(r), NEW p, NEW S,
         NEW u, Answers(u, s, InQueue(r), p, S),
         NEW now, Renewed(now, held, u, s, p, S)
  PROVE  /\ Sound([u EXCEPT !.out = <<>>], r \o u.out, now, specs)
         /\ Steady([u EXCEPT !.out = <<>>], s)
<1>1. IsState(u) /\ Consistent(u, InQueue(r)) /\ SpecsOf(u) \subseteq specs
  BY DEF Answers, Sound
<1>2. /\ now \subseteq DOMAIN u.physical
      /\ \A k \in DOMAIN u.physical : u.physical[k].status = "installed" => k \in now
  BY DEF Answers, Sound, Renewed
<1>3. Steady(u, s)
  BY DEF Answers, Steady
<1> QED BY <1>1, <1>2, <1>3, ReducedSound, EmptiedIs, EmptiedSteady

\* The first effect of the queue and the ones after it.
LEMMA QueueTail ==
  ASSUME NEW s, NEW q, NEW held, NEW specs, Sound(s, q, held, specs), q # <<>>
  PROVE  /\ Head(q) \in Effects /\ Tail(q) \in Seq(Effects) /\ Distinct(Tail(q))
         /\ InQueue(q) = InQueue(Tail(q)) \cup {Head(q)}
         /\ IsPhysicalEffect(Head(q)) => Head(q) \notin InQueue(Tail(q)) /\ Fits(s, Head(q))
         /\ Consistent(s, InQueue(Tail(q))) /\ Consistent(s, InQueue(Tail(q)) \cup {Head(q)})
<1> DEFINE e == Head(q)
           r == Tail(q)
<1>1. /\ Len(q) \in Nat \ {0} /\ DOMAIN q = 1..Len(q) /\ e = q[1] /\ e \in Effects
      /\ r \in Seq(Effects) /\ DOMAIN r = 1..(Len(q) - 1)
      /\ \A i \in 1..(Len(q) - 1) : r[i] = q[i + 1]
  BY DEF Sound
<1> HIDE DEF e, r
<1>2. \A i \in DOMAIN r : i + 1 \in DOMAIN q /\ r[i] = q[i + 1] /\ i \in Nat /\ i # 0
  BY <1>1
<1>3. \A i \in DOMAIN q : i = 1 \/ (i - 1 \in DOMAIN r /\ q[i] = r[i - 1])
  BY <1>1
<1>4. 1 \in DOMAIN q
  BY <1>1
<1>5. InQueue(q) = InQueue(r) \cup {e}
  <2>1. \A i \in DOMAIN q : q[i] = e \/ \E j \in DOMAIN r : q[i] = r[j]
    BY <1>1, <1>3
  <2>2. /\ \E i \in DOMAIN q : q[i] = e
        /\ \A j \in DOMAIN r : \E i \in DOMAIN q : q[i] = r[j]
    BY <1>1, <1>2, <1>4
  <2> QED BY <2>1, <2>2 DEF InQueue
<1>6. Distinct(r)
  <2>1. ASSUME NEW i \in DOMAIN r, NEW j \in DOMAIN r, IsPhysicalEffect(r[i]), r[i] = r[j]
        PROVE  i = j
    <3>1. i + 1 = j + 1
      BY <1>2, <2>1 DEF Sound, Distinct
    <3> QED BY <1>2, <3>1
  <2> QED BY <2>1 DEF Distinct
<1>7. IsPhysicalEffect(e) => e \notin InQueue(r)
  <2>1. ASSUME NEW i \in DOMAIN r, IsPhysicalEffect(e) PROVE r[i] # e
    BY <1>1, <1>2, <1>4, <2>1 DEF Sound, Distinct
  <2> QED BY <2>1 DEF InQueue
<1>8. Consistent(s, InQueue(r)) /\ Consistent(s, InQueue(r) \cup {e})
  BY <1>5 DEF Sound, Consistent, Owed
<1>9. IsPhysicalEffect(e) => Fits(s, e)
  BY <1>5 DEF Sound, Consistent, Owed
<1> QED BY <1>1, <1>5, <1>6, <1>7, <1>8, <1>9 DEF e, r

\* A queue that is lost.
LEMMA LostSound ==
  ASSUME NEW s, NEW q, NEW held, NEW specs, Sound(s, q, held, specs),
         NEW now, now \subseteq DOMAIN s.physical,
         \A p \in DOMAIN s.physical : s.physical[p].status = "installed" => p \in now
  PROVE  Sound(s, <<>>, now, specs)
<1>1. <<>> \in Seq(Effects) /\ DOMAIN <<>> = {}
  OBVIOUS
<1>2. Distinct(<<>>) /\ InQueue(<<>>) = {}
  BY <1>1 DEF Distinct, InQueue
<1>3. Consistent(s, {})
  BY DEF Sound, Consistent, Owed
<1> QED BY <1>1, <1>2, <1>3 DEF Sound

-----------------------------------------------------------------------------
(***************************************************************************)
(* The browser's events.                                                   *)
(***************************************************************************)
\* How often a session has paused, and whether it is in a pause.
Executions == [pauses : Nat, now : {"running", "stopped"}]

EventTypes ==
  [kind : {"parsed"}, script : Scripts] \cup [kind : {"paused"}, stack : Seq(Scripts)]
  \cup [kind : {"resumed"}]

\* The execution x becomes y with an event of the browser.
Turn(x, e, y) ==
  \/ e.kind = "parsed" /\ y = x
  \/ /\ e.kind = "paused" /\ x.now = "running"
     /\ y = [pauses |-> x.pauses + 1, now |-> "stopped"]
  \/ /\ e.kind = "resumed" /\ x.now = "stopped"
     /\ y = [pauses |-> x.pauses, now |-> "running"]

\* The events lead from the execution x to the execution z.
Explains(events, x, z) ==
  \E h \in [0..Len(events) -> Executions] :
     /\ h[0] = x /\ h[Len(events)] = z
     /\ \A i \in 1..Len(events) : Turn(h[i - 1], events[i], h[i])

ExecutionOf(s) ==
  [pauses |-> s.nextEpoch - 1, now |-> IF IsStopped(s) THEN "stopped" ELSE "running"]

BrowserExecution(br) ==
  [pauses |-> br.pauses, now |-> IF br.paused = 0 THEN "running" ELSE "stopped"]

\* A stopped state shows its latest pause.
ShowsPause(s) ==
  /\ s.nextEpoch \in Nat \ {0}
  /\ IsStopped(s) => s.pause # NoPause /\ s.pause.epoch = s.epoch /\ s.epoch = s.nextEpoch - 1

BrowserType == [paused : Nat, pauses : Nat, events : Seq(EventTypes)]

\* The events on their way lead from the state's execution to the browser's.
Recorded(s, br) ==
  /\ ShowsPause(s) /\ br \in BrowserType /\ br.paused \in {0, br.pauses}
  /\ Explains(br.events, ExecutionOf(s), BrowserExecution(br))

\* No events lead from an execution to itself only.
LEMMA ExplainsNothing ==
  ASSUME NEW x \in Executions, NEW z
  PROVE  Explains(<<>>, x, z) <=> z = x
<1>1. Len(<<>>) = 0 /\ 0..0 = {0} /\ 1..0 = {}
  OBVIOUS
<1>2. [i \in {0} |-> x] \in [{0} -> Executions]
  OBVIOUS
<1>3. ASSUME z = x PROVE Explains(<<>>, x, z)
  <2> DEFINE h == [i \in 0..Len(<<>>) |-> x]
  <2>1. h \in [0..Len(<<>>) -> Executions] /\ h[0] = x
    BY <1>1
  <2> HIDE DEF h
  <2> QED BY <1>1, <1>3, <2>1 DEF Explains
<1>4. ASSUME Explains(<<>>, x, z) PROVE z = x
  BY <1>1, <1>4 DEF Explains
<1> QED BY <1>3, <1>4

\* One event more at the end.
LEMMA ExplainsAppended ==
  ASSUME NEW q \in Seq(EventTypes), NEW x, NEW z, Explains(q, x, z),
         NEW e \in EventTypes, NEW y \in Executions, Turn(z, e, y)
  PROVE  Explains(Append(q, e), x, y)
<1> DEFINE n == Len(q)
           r == Append(q, e)
<1>1. /\ n \in Nat /\ Len(r) = n + 1 /\ r[n + 1] = e
      /\ \A i \in 1..n : r[i] = q[i]
  OBVIOUS
<1>2. PICK h \in [0..n -> Executions] :
        h[0] = x /\ h[n] = z /\ \A i \in 1..n : Turn(h[i - 1], q[i], h[i])
  BY DEF Explains
<1> HIDE DEF n, r
<1> DEFINE k == [i \in 0..(n + 1) |-> IF i = n + 1 THEN y ELSE h[i]]
<1>3. /\ k \in [0..(n + 1) -> Executions]
      /\ k[0] = x /\ k[n + 1] = y /\ k[n] = z
      /\ \A i \in 0..n : k[i] = h[i]
  BY <1>1, <1>2
<1>4. ASSUME NEW i \in 1..(n + 1) PROVE Turn(k[i - 1], r[i], k[i])
  <2>1. CASE i = n + 1
    <3>1. i - 1 = n
      BY <1>1, <2>1
    <3> HIDE DEF k
    <3> QED BY <1>1, <1>3, <2>1, <3>1
  <2>2. CASE i # n + 1
    <3>1. i \in 1..n /\ i \in 0..n /\ i - 1 \in 0..n
      BY <1>1, <2>2
    <3> HIDE DEF k
    <3>2. k[i] = h[i] /\ k[i - 1] = h[i - 1] /\ r[i] = q[i]
      BY <1>1, <1>3, <3>1
    <3> QED BY <1>2, <3>1, <3>2
  <2> QED BY <2>1, <2>2
<1>5. Explains(r, x, y)
  <2> HIDE DEF k
  <2> QED BY <1>1, <1>3, <1>4 DEF Explains
<1> QED BY <1>5 DEF r

\* The first event of several.
LEMMA ExplainsTail ==
  ASSUME NEW q \in Seq(EventTypes), q # <<>>, NEW x, NEW z, Explains(q, x, z)
  PROVE  \E y \in Executions : Turn(x, Head(q), y) /\ Explains(Tail(q), y, z)
<1> DEFINE n == Len(q)
           r == Tail(q)
<1>1. /\ n \in Nat /\ n >= 1 /\ Len(r) = n - 1 /\ Head(q) = q[1] /\ n - 1 \in Nat
      /\ \A i \in 1..(n - 1) : r[i] = q[i + 1]
  OBVIOUS
<1>2. PICK h \in [0..n -> Executions] :
        h[0] = x /\ h[n] = z /\ \A i \in 1..n : Turn(h[i - 1], q[i], h[i])
  BY DEF Explains
<1> HIDE DEF n, r
<1> DEFINE k == [i \in 0..(n - 1) |-> h[i + 1]]
<1>3. \A i \in 0..(n - 1) : i + 1 \in 0..n /\ k[i] = h[i + 1]
  BY <1>1
<1>4. /\ k \in [0..(n - 1) -> Executions]
      /\ k[0] = h[1] /\ k[n - 1] = z /\ h[1] \in Executions
  BY <1>1, <1>2, <1>3
<1>5. ASSUME NEW i \in 1..(n - 1) PROVE Turn(k[i - 1], r[i], k[i])
  <2>1. i + 1 \in 1..n /\ i \in 0..(n - 1) /\ i - 1 \in 0..(n - 1) /\ (i - 1) + 1 = i
        /\ (i + 1) - 1 = i
    BY <1>1
  <2>2. k[i] = h[i + 1] /\ k[i - 1] = h[i] /\ r[i] = q[i + 1]
    BY <1>1, <1>3, <2>1
  <2>3. Turn(h[(i + 1) - 1], q[i + 1], h[i + 1])
    BY <1>2, <2>1
  <2> HIDE DEF k
  <2> QED BY <2>1, <2>2, <2>3
<1>6. Explains(r, h[1], z)
  <2> HIDE DEF k
  <2> QED BY <1>1, <1>4, <1>5 DEF Explains
<1>7. Turn(x, Head(q), h[1])
  <2>1. 1 \in 1..n /\ 1 - 1 = 0
    BY <1>1
  <2>2. Turn(h[1 - 1], q[1], h[1])
    BY <1>2, <2>1
  <2> QED BY <1>1, <1>2, <2>1, <2>2
<1> QED BY <1>4, <1>6, <1>7 DEF r

\* The executions of the state and of the browser are executions.
LEMMA ExecutionsTyped ==
  /\ \A s : ShowsPause(s) => ExecutionOf(s) \in Executions
  /\ \A br \in BrowserType : BrowserExecution(br) \in Executions
BY DEF ShowsPause, ExecutionOf, Executions, BrowserType, BrowserExecution

\* An input that leaves the execution alone.
LEMMA SameExecutionRecorded ==
  ASSUME NEW s, NEW br, Recorded(s, br), NEW u, SameExecution(u, s), NEW v, Emptied(v, u)
  PROVE  Recorded(v, br)
<1>1. v.phase = s.phase /\ v.epoch = s.epoch /\ v.nextEpoch = s.nextEpoch
  BY DEF Emptied, SameExecution
<1>2. s.pause # NoPause => v.pause # NoPause /\ v.pause.epoch = s.pause.epoch
  BY DEF Emptied, SameExecution
<1>3. ShowsPause(v) /\ ExecutionOf(v) = ExecutionOf(s)
  BY <1>1, <1>2 DEF Recorded, ShowsPause, ExecutionOf, IsStopped
<1> QED BY <1>3 DEF Recorded

\* A resume that was asked for is not a resumed event yet.
LEMMA ResumingRecorded ==
  ASSUME NEW s, NEW br, Recorded(s, br), s.phase = "paused",
         NEW u, u.phase = "resuming", u.epoch = s.epoch, u.nextEpoch = s.nextEpoch,
         u.pause = NoPause <=> s.pause = NoPause,
         s.pause # NoPause => u.pause.epoch = s.pause.epoch,
         NEW v, Emptied(v, u)
  PROVE  Recorded(v, br)
<1>1. v.phase = "resuming" /\ v.epoch = s.epoch /\ v.nextEpoch = s.nextEpoch
  BY DEF Emptied
<1>2. s.pause # NoPause => v.pause # NoPause /\ v.pause.epoch = s.pause.epoch
  BY DEF Emptied
<1>3. ShowsPause(v) /\ ExecutionOf(v) = ExecutionOf(s)
  BY <1>1, <1>2 DEF Recorded, ShowsPause, ExecutionOf, IsStopped
<1> QED BY <1>3 DEF Recorded

\* An event of the browser that goes on its way.
LEMMA EventSent ==
  ASSUME NEW s, NEW br, Recorded(s, br), NEW e \in EventTypes,
         NEW now \in BrowserType, now.events = Append(br.events, e),
         now.paused \in {0, now.pauses}, Turn(BrowserExecution(br), e, BrowserExecution(now))
  PROVE  Recorded(s, now)
<1>1. br.events \in Seq(EventTypes) /\ BrowserExecution(now) \in Executions
  BY ExecutionsTyped DEF Recorded, BrowserType
<1> QED BY <1>1, ExplainsAppended DEF Recorded

\* An event of the browser that arrives.
LEMMA EventArrives ==
  ASSUME NEW s, NEW br, Recorded(s, br), br.events # <<>>,
         NEW v, ShowsPause(v), Turn(ExecutionOf(s), Head(br.events), ExecutionOf(v))
  PROVE  Recorded(v, [br EXCEPT !.events = Tail(@)])
<1> DEFINE now == [br EXCEPT !.events = Tail(@)]
<1>1. /\ br \in BrowserType /\ br.events \in Seq(EventTypes) /\ Tail(br.events) \in Seq(EventTypes)
      /\ br.paused \in {0, br.pauses}
  BY DEF Recorded, BrowserType
<1>2. /\ now \in BrowserType /\ now.events = Tail(br.events)
      /\ now.paused = br.paused /\ now.pauses = br.pauses
  BY <1>1 DEF BrowserType
<1>3. PICK y \in Executions :
        Turn(ExecutionOf(s), Head(br.events), y)
        /\ Explains(Tail(br.events), y, BrowserExecution(br))
  BY <1>1, ExplainsTail DEF Recorded
<1>4. y = ExecutionOf(v)
  BY <1>3 DEF Turn
<1> HIDE DEF now
<1>5. BrowserExecution(now) = BrowserExecution(br)
  BY <1>2 DEF BrowserExecution
<1>6. Recorded(v, now)
  BY <1>1, <1>2, <1>3, <1>4, <1>5 DEF Recorded
<1> QED BY <1>6 DEF now

\* What an event says of the state it arrives in.
LEMMA EventExpected ==
  ASSUME NEW s, NEW br, Recorded(s, br), br.events # <<>>
  PROVE  /\ Head(br.events) \in EventTypes
         /\ Head(br.events).kind = "paused" => ~IsStopped(s)
         /\ Head(br.events).kind = "resumed" => IsStopped(s)
<1>1. br.events \in Seq(EventTypes) /\ Head(br.events) \in EventTypes
  BY DEF Recorded, BrowserType
<1>2. PICK y \in Executions : Turn(ExecutionOf(s), Head(br.events), y)
  BY <1>1, ExplainsTail DEF Recorded
<1> QED BY <1>1, <1>2 DEF Turn, ExecutionOf

-----------------------------------------------------------------------------
(***************************************************************************)
(* The invariant and the steps of the task.                                *)
(***************************************************************************)
\* What RollBackNext puts back: a specification, or that there was none.
Priors(specs) == specs \cup {[NoSpec EXCEPT !.breakpoint = b] : b \in Breakpoints}

CommandsOver(specs) ==
  [todo : Seq(specs), applied : Seq(Priors(specs)), rollingBack : BOOLEAN]

TaskTyped ==
  /\ bound \in Bounds /\ command \in CommandsOver(bound.specs)
  /\ mode \in {"idle", "command", "event", "stopped"} /\ settling \in BOOLEAN

\* The inductive invariant.
IInv ==
  /\ TaskTyped
  /\ Sound(state, queue, installed, bound.specs)
  /\ Recorded(state, browser)

\* What a step keeps.
Keeps == IInv' /\ Steady(state', state)

\* What the bounds of a behaviour say of its specifications and stacks.
LEMMA BoundTyped ==
  ASSUME TaskTyped
  PROVE  /\ bound \in BoundsType /\ bound.stacks \subseteq Seq(Scripts)
         /\ \A spec \in bound.specs :
              /\ spec.breakpoint \in Breakpoints /\ spec.source \in Urls
              /\ spec.condition \in Conditions
              /\ SpecFor(spec.breakpoint, spec.source, spec.condition) = spec
<1>1. bound \in BoundsType
  BY DriverAssumption DEF TaskTyped
<1>2. bound.specs \subseteq Specification /\ bound.stacks \subseteq Seq(Scripts)
  BY <1>1 DEF BoundsType
<1>3. \A spec \in Specification :
        /\ spec.breakpoint \in Breakpoints /\ spec.source \in Urls
        /\ spec.condition \in Conditions
        /\ SpecFor(spec.breakpoint, spec.source, spec.condition) = spec
  BY DEF Specification, SpecFor
<1> QED BY <1>1, <1>2, <1>3

\* No command is a command.
LEMMA NoCommandTyped ==
  ASSUME NEW specs
  PROVE  NoCommand \in CommandsOver(specs)
<1>1. <<>> \in Seq(specs) /\ <<>> \in Seq(Priors(specs))
  OBVIOUS
<1> QED BY <1>1 DEF NoCommand, CommandsOver

\* A state that does not change keeps what is held.
LEMMA SteadyReflexive ==
  ASSUME NEW s
  PROVE  Steady(s, s)
BY DEF Steady, Stays

\* The initial states are sound.
LEMMA ConfiguredSound ==
  ASSUME NEW waiting \in BOOLEAN, NEW specs
  PROVE  LET s == ConfiguredState(waiting)
         IN Sound(s, <<>>, {}, specs) /\ ShowsPause(s)
            /\ ExecutionOf(s) = [pauses |-> 0, now |-> "running"]
<1> DEFINE s == ConfiguredState(waiting)
<1>1. /\ s.phase = "running" /\ s.epoch = 0 /\ s.nextEpoch = 1 /\ s.pause = NoPause
      /\ s.waiting = waiting /\ s.scripts = <<>> /\ s.breakpoints = <<>>
      /\ s.physical = <<>> /\ s.pending = {} /\ s.out = <<>>
  BY DEF ConfiguredState
<1>2. DOMAIN <<>> = {} /\ IsFiniteSet({}) /\ <<>> \in Seq(Effects)
  BY FS_EmptySet
<1>3. s \in StatesOver({}, {})
  <2>1. /\ <<>> \in [{} -> ScriptState] /\ <<>> \in [{} -> BreakpointOver({})]
    OBVIOUS
  <2>2. <<>> \in Maps(KeysOver({}), PhysicalOver({}))
    BY MapsEmpty
  <2> QED BY <1>2, <2>1, <2>2 DEF ConfiguredState, StatesOver
<1> HIDE DEF s
<1>4. IsState(s)
  BY <1>1, <1>2, <1>3 DEF IsState, States, KeySets, BreakpointSets
<1>5. InQueue(<<>>) = {} /\ Distinct(<<>>)
  BY <1>2 DEF InQueue, Distinct
<1>6. Consistent(s, {}) /\ SpecsOf(s) = {}
  BY <1>1, <1>2 DEF Consistent, Bound, Asked, Owed, SpecsOf
<1>7. Sound(s, <<>>, {}, specs)
  BY <1>1, <1>2, <1>4, <1>5, <1>6 DEF Sound
<1>8. ShowsPause(s) /\ ExecutionOf(s) = [pauses |-> 0, now |-> "running"]
  BY <1>1 DEF ShowsPause, ExecutionOf, IsStopped
<1> QED BY <1>7, <1>8 DEF s

\* The initial states satisfy the invariant.
LEMMA InitEstablishes ==
  Init => IInv
<1> SUFFICES ASSUME Init PROVE IInv
  OBVIOUS
<1>1. TaskTyped
  BY NoCommandTyped DEF Init, TaskTyped
<1>2. PICK waiting \in BOOLEAN : state = ConfiguredState(waiting)
  BY DEF Init
<1>3. Sound(state, queue, installed, bound.specs)
  BY <1>2, ConfiguredSound DEF Init
<1>4. Recorded(state, browser)
  <2>1. /\ browser \in BrowserType /\ browser.paused \in {0, browser.pauses}
        /\ browser.events = <<>> /\ BrowserExecution(browser) = [pauses |-> 0, now |-> "running"]
    BY DEF Init, BrowserType, BrowserExecution
  <2>2. ShowsPause(state) /\ ExecutionOf(state) = [pauses |-> 0, now |-> "running"]
    BY <1>2, ConfiguredSound
  <2>3. ExecutionOf(state) \in Executions
    BY <2>2, ExecutionsTyped
  <2> QED BY <2>1, <2>2, <2>3, ExplainsNothing DEF Recorded
<1> QED BY <1>1, <1>3, <1>4 DEF IInv

\* Steps that leave the reducer's state alone.
LEMMA StateUnchanged ==
  ASSUME IInv, UNCHANGED <<state, queue, installed, bound>>, TaskTyped', Recorded(state, browser')
  PROVE  Keeps
<1>1. Sound(state', queue', installed', bound'.specs) /\ Steady(state', state)
  BY SteadyReflexive DEF IInv
<1>2. Recorded(state', browser')
  OBVIOUS
<1> QED BY <1>1, <1>2 DEF Keeps, IInv

\* BrowserAnnounces keeps the invariant.
LEMMA BrowserAnnouncesKeeps ==
  ASSUME IInv, NEW s \in Scripts, BrowserAnnounces(s)
  PROVE  Keeps
<1> DEFINE e == Announces(s)
<1>1. e \in EventTypes /\ e.kind = "parsed"
  BY DEF Announces, EventTypes
<1>2. /\ browser \in BrowserType /\ browser.events \in Seq(EventTypes)
      /\ browser.paused \in {0, browser.pauses} /\ Recorded(state, browser)
  BY DEF IInv, Recorded, BrowserType
<1> HIDE DEF e
<1>3. browser' = [browser EXCEPT !.events = Append(@, e)]
  BY DEF BrowserAnnounces, e
<1>4. /\ browser' \in BrowserType /\ browser'.events = Append(browser.events, e)
      /\ browser'.paused = browser.paused /\ browser'.pauses = browser.pauses
  BY <1>1, <1>2, <1>3 DEF BrowserType
<1>5. Turn(BrowserExecution(browser), e, BrowserExecution(browser'))
  BY <1>1, <1>4 DEF Turn, BrowserExecution
<1>6. Recorded(state, browser')
  BY <1>1, <1>2, <1>4, <1>5, EventSent
<1>7. TaskTyped'
  BY DEF BrowserAnnounces, IInv, TaskTyped
<1> QED BY <1>6, <1>7, StateUnchanged DEF BrowserAnnounces

\* BrowserPauses keeps the invariant: the browser was not in a pause.
LEMMA BrowserPausesKeeps ==
  ASSUME IInv, NEW stack \in bound.stacks, BrowserPauses(stack)
  PROVE  Keeps
<1> DEFINE e == [kind |-> "paused", stack |-> stack]
<1>1. e \in EventTypes /\ e.kind = "paused"
  BY BoundTyped DEF EventTypes, IInv
<1>2. /\ browser \in BrowserType /\ browser.events \in Seq(EventTypes) /\ browser.pauses \in Nat
      /\ browser.paused \in {0, browser.pauses} /\ Recorded(state, browser)
  BY DEF IInv, Recorded, BrowserType
<1> HIDE DEF e
<1>3. browser' = [paused |-> browser.pauses + 1, pauses |-> browser.pauses + 1,
                  events |-> Append(browser.events, e)]
  BY DEF BrowserPauses, e
<1>4. /\ browser' \in BrowserType /\ browser'.events = Append(browser.events, e)
      /\ browser'.paused = browser.pauses + 1 /\ browser'.pauses = browser.pauses + 1
      /\ browser.paused = 0
  BY <1>1, <1>2, <1>3 DEF BrowserType, BrowserPauses
<1>5. Turn(BrowserExecution(browser), e, BrowserExecution(browser'))
  BY <1>1, <1>2, <1>4 DEF Turn, BrowserExecution
<1>6. Recorded(state, browser')
  BY <1>1, <1>2, <1>4, <1>5, EventSent
<1>7. TaskTyped'
  BY DEF BrowserPauses, IInv, TaskTyped
<1> QED BY <1>6, <1>7, StateUnchanged DEF BrowserPauses

\* The target resumes, by whoever resumed it.
LEMMA ResumedRecorded ==
  ASSUME IInv, browser.paused # 0, browser' = WithResumed
  PROVE  Recorded(state, browser')
<1> DEFINE e == [kind |-> "resumed"]
<1>1. e \in EventTypes /\ e.kind = "resumed"
  BY DEF EventTypes
<1>2. /\ browser \in BrowserType /\ browser.events \in Seq(EventTypes) /\ browser.pauses \in Nat
      /\ browser.paused \in {0, browser.pauses} /\ Recorded(state, browser)
  BY DEF IInv, Recorded, BrowserType
<1> HIDE DEF e
<1>3. browser' = [browser EXCEPT !.paused = 0, !.events = Append(@, e)]
  BY DEF WithResumed, e
<1>4. /\ browser' \in BrowserType /\ browser'.events = Append(browser.events, e)
      /\ browser'.paused = 0 /\ browser'.pauses = browser.pauses
  <2>1. Append(browser.events, e) \in Seq(EventTypes)
    BY <1>1, <1>2
  <2>2. browser' = [paused |-> 0, pauses |-> browser.pauses, events |-> Append(browser.events, e)]
    BY <1>2, <1>3 DEF BrowserType
  <2> QED BY <1>2, <2>1, <2>2 DEF BrowserType
<1>5. Turn(BrowserExecution(browser), e, BrowserExecution(browser'))
  <2>1. BrowserExecution(browser) = [pauses |-> browser.pauses, now |-> "stopped"]
    BY DEF BrowserExecution
  <2>2. BrowserExecution(browser') = [pauses |-> browser.pauses, now |-> "running"]
    BY <1>4 DEF BrowserExecution
  <2> QED BY <1>1, <2>1, <2>2 DEF Turn
<1> QED BY <1>1, <1>2, <1>4, <1>5, EventSent

\* BrowserResumes keeps the invariant.
LEMMA BrowserResumesKeeps ==
  ASSUME IInv, BrowserResumes
  PROVE  Keeps
<1>1. Recorded(state, browser')
  BY ResumedRecorded DEF BrowserResumes
<1>2. TaskTyped'
  BY DEF BrowserResumes, IInv, TaskTyped
<1> QED BY <1>1, <1>2, StateUnchanged DEF BrowserResumes

\* SetBreakpoints keeps the invariant.
LEMMA SetBreakpointsKeeps ==
  ASSUME IInv, NEW batch \in Batches, SetBreakpoints(batch)
  PROVE  Keeps
<1>1. batch \in Seq(bound.specs)
  <2>1. PICK n \in 1..bound.batch : batch \in [1..n -> bound.specs]
    BY DEF Batches
  <2>2. bound.batch \in Nat
    BY BoundTyped DEF IInv, BoundsType
  <2> QED BY <2>1, <2>2
<1>2. command' \in CommandsOver(bound.specs)
  <2>1. NoCommand \in CommandsOver(bound.specs)
    BY NoCommandTyped
  <2>2. command' = [NoCommand EXCEPT !.todo = batch]
    BY DEF SetBreakpoints
  <2> QED BY <1>1, <2>1, <2>2 DEF CommandsOver
<1>3. TaskTyped'
  BY <1>2 DEF SetBreakpoints, IInv, TaskTyped
<1> QED BY <1>3, StateUnchanged DEF SetBreakpoints, IInv

\* The end of a command, a settling and a drain keep the invariant.
LEMMA RestKeeps ==
  ASSUME IInv, CommandEnds \/ Settles \/ DrainEnds
  PROVE  Keeps
<1>1. TaskTyped'
  BY NoCommandTyped DEF CommandEnds, Settles, DrainEnds, IInv, TaskTyped
<1>2. UNCHANGED <<state, queue, installed, bound, browser>>
  BY DEF CommandEnds, Settles, DrainEnds
<1> QED BY <1>1, <1>2, StateUnchanged DEF IInv

\* The inputs of the reducer.
LEMMA InputSound ==
  ASSUME IInv, NEW u, Follows(u, state, InQueue(queue)), SpecsOf(u) \subseteq bound.specs,
         Reduce(u), UNCHANGED <<installed, bound>>
  PROVE  /\ Sound(state', queue', installed', bound'.specs) /\ Steady(state', state)
         /\ Emptied(state', u)
<1>1. Sound(state, queue, installed, bound.specs) /\ queue \in Seq(Effects) /\ Distinct(queue)
  BY DEF IInv, Sound
<1>2. IsState(u)
  BY DEF Follows
<1>3. state' = [u EXCEPT !.out = <<>>] /\ queue' = queue \o u.out
  BY DEF Reduce
<1>4. /\ Sound([u EXCEPT !.out = <<>>], queue \o u.out, installed, bound.specs)
      /\ Steady([u EXCEPT !.out = <<>>], state)
  BY <1>1, FollowsSound
<1> QED BY <1>2, <1>3, <1>4, EmptiedIs

\* An input of a command that leaves the execution alone.
LEMMA CommandKeeps ==
  ASSUME IInv, NEW u, Reduce(u), UNCHANGED <<installed, bound, browser>>, TaskTyped',
         Follows(u, state, InQueue(queue)), SameExecution(u, state),
         SpecsOf(u) \subseteq bound.specs
  PROVE  Keeps
<1>1. /\ Sound(state', queue', installed', bound'.specs) /\ Steady(state', state)
      /\ Emptied(state', u)
  BY InputSound
<1>2. Recorded(state, browser)
  BY DEF IInv
<1>3. Recorded(state', browser)
  BY <1>1, <1>2, SameExecutionRecorded
<1> QED BY <1>1, <1>3 DEF Keeps, IInv

\* What the invariant says of the state and the queue, for the reducer's inputs.
LEMMA StateReady ==
  ASSUME IInv
  PROVE  /\ IsState(state) /\ state.out = <<>> /\ Consistent(state, InQueue(queue))
         /\ SpecsOf(state) \subseteq bound.specs
         /\ queue \in Seq(Effects) /\ Distinct(queue)
BY DEF IInv, Sound

\* ApplyNext keeps the invariant: what it remembers can be put back.
LEMMA ApplyNextKeeps ==
  ASSUME IInv, ApplyNext
  PROVE  Keeps
<1> DEFINE spec == Head(command.todo)
           b == spec.breakpoint
           u == SetBreakpoint(state, b, spec.source, spec.condition)
<1>1. command \in CommandsOver(bound.specs) /\ command.todo # <<>>
  BY DEF ApplyNext, BatchOver, IInv, TaskTyped
<1>2. /\ spec \in bound.specs /\ Tail(command.todo) \in Seq(bound.specs)
  BY <1>1 DEF CommandsOver
<1>3. /\ b \in Breakpoints /\ spec.source \in Urls /\ spec.condition \in Conditions
      /\ SpecFor(b, spec.source, spec.condition) = spec
  BY <1>2, BoundTyped DEF IInv
<1>4. Sets(u, state, InQueue(queue), {spec})
  <2> HIDE DEF b, u
  <2>1. Sets(SetBreakpoint(state, b, spec.source, spec.condition), state, InQueue(queue),
             {SpecFor(b, spec.source, spec.condition)})
    BY <1>3, StateReady, SetBreakpointSets
  <2> QED BY <1>3, <2>1 DEF u
<1>5. SpecOf(b) \in Priors(bound.specs)
  <2>1. CASE b \in DOMAIN state.breakpoints
    <3>1. SpecOf(b) \in SpecsOf(state)
      BY <2>1 DEF SpecOf, SpecsOf
    <3> QED BY <3>1, StateReady DEF Priors
  <2>2. CASE b \notin DOMAIN state.breakpoints
    BY <1>3, <2>2 DEF SpecOf, Priors
  <2> QED BY <2>1, <2>2
<1>6. command' \in CommandsOver(bound.specs)
  <2>1. command' = [command EXCEPT !.todo = Tail(command.todo),
                                   !.applied = Append(command.applied, SpecOf(b))]
    BY DEF ApplyNext
  <2>2. command.applied \in Seq(Priors(bound.specs))
    BY <1>1 DEF CommandsOver
  <2>3. Append(command.applied, SpecOf(b)) \in Seq(Priors(bound.specs))
    <3> HIDE DEF b
    <3> QED BY <1>5, <2>2
  <2> HIDE DEF b
  <2> QED BY <1>1, <1>2, <2>1, <2>3 DEF CommandsOver
<1>7. TaskTyped'
  BY <1>6 DEF ApplyNext, IInv, TaskTyped
<1>8. Reduce(u)
  BY DEF ApplyNext
<1> HIDE DEF u
<1>9. /\ Follows(u, state, InQueue(queue)) /\ SameExecution(u, state)
      /\ SpecsOf(u) \subseteq bound.specs
  BY <1>2, <1>4, StateReady DEF Sets
<1> QED BY <1>7, <1>8, <1>9, CommandKeeps DEF ApplyNext

\* RollBackNext keeps the invariant: it puts back what was there, or nothing.
LEMMA RollBackNextKeeps ==
  ASSUME IInv, RollBackNext
  PROVE  Keeps
<1> DEFINE prior == Last(command.applied)
           b == prior.breakpoint
           removed == RemoveBreakpoint(state, b)
           restored == SetBreakpoint(state, b, prior.source, prior.condition)
           u == IF prior.source = "none" THEN removed ELSE restored
<1>1. command \in CommandsOver(bound.specs) /\ command.applied # <<>>
  BY DEF RollBackNext, IInv, TaskTyped
<1>2. prior \in Priors(bound.specs) /\ Front(command.applied) \in Seq(Priors(bound.specs))
  <2>1. command.applied \in Seq(Priors(bound.specs))
    BY <1>1 DEF CommandsOver
  <2>2. /\ Len(command.applied) \in DOMAIN command.applied
        /\ Len(command.applied) - 1 \in Nat
        /\ 1..(Len(command.applied) - 1) \subseteq DOMAIN command.applied
    BY <1>1, <2>1
  <2>3. \A i \in DOMAIN command.applied : command.applied[i] \in Priors(bound.specs)
    BY <2>1
  <2> QED BY <2>2, <2>3 DEF Last, Front
<1>3. Sets(removed, state, InQueue(queue), {})
  BY StateReady, RemoveBreakpointSets
<1>4. ASSUME prior.source # "none"
      PROVE  Sets(restored, state, InQueue(queue), {prior}) /\ prior \in bound.specs
  <2>1. prior \in bound.specs
    BY <1>2, <1>4 DEF Priors, NoSpec
  <2>2. /\ b \in Breakpoints /\ prior.source \in Urls /\ prior.condition \in Conditions
        /\ SpecFor(b, prior.source, prior.condition) = prior
    BY <2>1, BoundTyped DEF IInv
  <2> HIDE DEF b, prior
  <2>3. Sets(SetBreakpoint(state, b, prior.source, prior.condition), state, InQueue(queue),
             {SpecFor(b, prior.source, prior.condition)})
    BY <2>2, StateReady, SetBreakpointSets
  <2> QED BY <2>1, <2>2, <2>3
<1>5. command' \in CommandsOver(bound.specs)
  BY <1>1, <1>2 DEF RollBackNext, CommandsOver
<1>6. TaskTyped'
  BY <1>5 DEF RollBackNext, IInv, TaskTyped
<1>7. Reduce(u)
  BY DEF RollBackNext
<1>8. /\ Follows(u, state, InQueue(queue)) /\ SameExecution(u, state)
      /\ SpecsOf(u) \subseteq bound.specs
  <2>1. CASE prior.source = "none"
    <3>1. u = removed
      BY <2>1
    <3> HIDE DEF removed, u
    <3> QED BY <1>3, <3>1, StateReady DEF Sets
  <2>2. CASE prior.source # "none"
    <3>1. u = restored
      BY <2>2
    <3> HIDE DEF restored, u
    <3> QED BY <1>4, <2>2, <3>1, StateReady DEF Sets
  <2> QED BY <2>1, <2>2
<1> HIDE DEF u
<1> QED BY <1>6, <1>7, <1>8, CommandKeeps DEF RollBackNext

\* RemoveBreakpointCommand keeps the invariant.
LEMMA RemoveBreakpointKeeps ==
  ASSUME IInv, NEW b \in Breakpoints, RemoveBreakpointCommand(b)
  PROVE  Keeps
<1> DEFINE u == RemoveBreakpoint(state, b)
<1>1. Sets(u, state, InQueue(queue), {}) /\ Reduce(u)
  BY StateReady, RemoveBreakpointSets DEF RemoveBreakpointCommand
<1>2. TaskTyped'
  BY DEF RemoveBreakpointCommand, IInv, TaskTyped
<1> HIDE DEF u
<1>3. /\ Follows(u, state, InQueue(queue)) /\ SameExecution(u, state)
      /\ SpecsOf(u) \subseteq bound.specs
  BY <1>1, StateReady DEF Sets
<1> QED BY <1>1, <1>2, <1>3, CommandKeeps DEF RemoveBreakpointCommand

\* RequestScriptSourceCommand keeps the invariant.
LEMMA RequestScriptSourceKeeps ==
  ASSUME IInv, NEW s \in Scripts, RequestScriptSourceCommand(s)
  PROVE  Keeps
<1> DEFINE u == RequestScriptSource(state, s)
<1>1. Continues(u, state, InQueue(queue)) /\ Reduce(u)
  BY StateReady, RequestScriptSourceContinues DEF RequestScriptSourceCommand
<1>2. TaskTyped'
  BY DEF RequestScriptSourceCommand, IInv, TaskTyped
<1> HIDE DEF u
<1>3. /\ Follows(u, state, InQueue(queue)) /\ SameExecution(u, state)
      /\ SpecsOf(u) \subseteq bound.specs
  BY <1>1, StateReady DEF Continues
<1> QED BY <1>1, <1>2, <1>3, CommandKeeps DEF RequestScriptSourceCommand

\* ReleaseIfWaitingCommand keeps the invariant.
LEMMA ReleaseIfWaitingKeeps ==
  ASSUME IInv, ReleaseIfWaitingCommand
  PROVE  Keeps
<1> DEFINE u == ReleaseIfWaiting(state)
<1>1. Continues(u, state, InQueue(queue)) /\ Reduce(u)
  BY StateReady, ReleaseIfWaitingContinues DEF ReleaseIfWaitingCommand
<1>2. TaskTyped'
  BY DEF ReleaseIfWaitingCommand, IInv, TaskTyped
<1> HIDE DEF u
<1>3. /\ Follows(u, state, InQueue(queue)) /\ SameExecution(u, state)
      /\ SpecsOf(u) \subseteq bound.specs
  BY <1>1, StateReady DEF Continues
<1> QED BY <1>1, <1>2, <1>3, CommandKeeps DEF ReleaseIfWaitingCommand

\* ResumeCommand keeps the invariant: no resumed event is on its way by it.
LEMMA ResumeKeeps ==
  ASSUME IInv, ResumeCommand
  PROVE  Keeps
<1> DEFINE u == ResumeRequested(state, state.epoch)
<1>1. /\ Leads(u, state, InQueue(queue), "resuming", state.epoch, state.nextEpoch)
      /\ u.pause = NoPause <=> state.pause = NoPause
      /\ state.pause # NoPause => u.pause.epoch = state.pause.epoch
  BY StateReady, ResumeRequestedLeads DEF ResumeCommand
<1>2. Reduce(u) /\ UNCHANGED <<installed, bound, browser>> /\ state.phase = "paused"
  BY DEF ResumeCommand
<1>3. TaskTyped'
  BY DEF ResumeCommand, IInv, TaskTyped
<1> HIDE DEF u
<1>4. Follows(u, state, InQueue(queue)) /\ SpecsOf(u) \subseteq bound.specs
  BY <1>1, StateReady DEF Leads
<1>5. /\ Sound(state', queue', installed', bound'.specs) /\ Steady(state', state)
      /\ Emptied(state', u)
  BY <1>2, <1>4, InputSound
<1>6. Recorded(state, browser)
  BY DEF IInv
<1>7. u.phase = "resuming" /\ u.epoch = state.epoch /\ u.nextEpoch = state.nextEpoch
  BY <1>1 DEF Leads
<1>8. Recorded(state', browser)
  BY <1>1, <1>2, <1>5, <1>6, <1>7, ResumingRecorded
<1>9. Recorded(state', browser')
  BY <1>2, <1>8
<1> QED BY <1>3, <1>5, <1>9 DEF Keeps, IInv

\* A parsed event keeps the invariant.
LEMMA ParsedKeeps ==
  ASSUME IInv, ProcessNextEvent, Head(browser.events).kind = "parsed"
  PROVE  Keeps
<1> DEFINE e == Head(browser.events)
           u == ScriptParsed(state, e.script)
<1>1. Recorded(state, browser) /\ browser.events # <<>>
  BY DEF IInv, ProcessNextEvent
<1>2. e \in EventTypes /\ e.script \in Scripts
  BY <1>1, EventExpected DEF EventTypes
<1>3. Reduce(u) /\ UNCHANGED <<installed, bound>> /\ browser' = [browser EXCEPT !.events = Tail(@)]
  BY DEF ProcessNextEvent, InputOf
<1>4. Continues(u, state, InQueue(queue))
  BY <1>2, StateReady, ScriptParsedContinues
<1>5. TaskTyped'
  BY DEF ProcessNextEvent, IInv, TaskTyped
<1> HIDE DEF u
<1>6. /\ Follows(u, state, InQueue(queue)) /\ SameExecution(u, state)
      /\ SpecsOf(u) \subseteq bound.specs
  BY <1>4, StateReady DEF Continues
<1>7. /\ Sound(state', queue', installed', bound'.specs) /\ Steady(state', state)
      /\ Emptied(state', u)
  BY <1>3, <1>6, InputSound
<1>8. Recorded(state', browser)
  BY <1>1, <1>6, <1>7, SameExecutionRecorded
<1>9. ShowsPause(state') /\ Recorded(state', browser')
  <2>1. ShowsPause(state')
    BY <1>8 DEF Recorded
  <2>2. Turn(ExecutionOf(state'), e, ExecutionOf(state'))
    BY DEF Turn
  <2>3. Recorded(state', [browser EXCEPT !.events = Tail(@)])
    BY <1>1, <1>8, <2>1, <2>2, EventArrives
  <2> QED BY <1>3, <2>1, <2>3
<1> QED BY <1>5, <1>7, <1>9 DEF Keeps, IInv

\* A paused event keeps the invariant: it opens the pause the browser counted.
LEMMA PausedKeeps ==
  ASSUME IInv, ProcessNextEvent, Head(browser.events).kind = "paused"
  PROVE  Keeps
<1> DEFINE e == Head(browser.events)
           u == Paused(state, e.stack)
<1>1. Recorded(state, browser) /\ browser.events # <<>>
  BY DEF IInv, ProcessNextEvent
<1>2. e \in EventTypes /\ e.stack \in Seq(Scripts) /\ ~IsStopped(state)
  BY <1>1, EventExpected DEF EventTypes
<1>3. Reduce(u) /\ UNCHANGED <<installed, bound>> /\ browser' = [browser EXCEPT !.events = Tail(@)]
  BY DEF ProcessNextEvent, InputOf
<1>4. /\ Leads(u, state, InQueue(queue), "paused", state.nextEpoch, state.nextEpoch + 1)
      /\ u.pause # NoPause /\ u.pause.epoch = state.nextEpoch
  BY <1>2, StateReady, PausedLeads
<1>5. TaskTyped'
  BY DEF ProcessNextEvent, IInv, TaskTyped
<1> HIDE DEF u
<1>6. Follows(u, state, InQueue(queue)) /\ SpecsOf(u) \subseteq bound.specs
  BY <1>4, StateReady DEF Leads
<1>7. /\ Sound(state', queue', installed', bound'.specs) /\ Steady(state', state)
      /\ Emptied(state', u)
  BY <1>3, <1>6, InputSound
<1>8. /\ state'.phase = "paused" /\ state'.epoch = state.nextEpoch
      /\ state'.nextEpoch = state.nextEpoch + 1
      /\ state'.pause # NoPause /\ state'.pause.epoch = state.nextEpoch
  BY <1>4, <1>7 DEF Leads, Emptied
<1>9. state.nextEpoch \in Nat \ {0}
  BY <1>1 DEF Recorded, ShowsPause
<1>10. ShowsPause(state')
  BY <1>8, <1>9 DEF ShowsPause
<1>11. Turn(ExecutionOf(state), e, ExecutionOf(state'))
  <2>1. ExecutionOf(state) = [pauses |-> state.nextEpoch - 1, now |-> "running"]
    BY <1>2 DEF ExecutionOf
  <2>2. ExecutionOf(state') = [pauses |-> state.nextEpoch, now |-> "stopped"]
    BY <1>8, <1>9 DEF ExecutionOf, IsStopped
  <2> HIDE DEF e
  <2> QED BY <1>9, <2>1, <2>2 DEF Turn, e
<1>12. Recorded(state', [browser EXCEPT !.events = Tail(@)])
  BY <1>1, <1>10, <1>11, EventArrives
<1> QED BY <1>3, <1>5, <1>7, <1>12 DEF Keeps, IInv

\* A resumed event keeps the invariant: it ends the pause the state shows.
LEMMA ResumedKeeps ==
  ASSUME IInv, ProcessNextEvent, Head(browser.events).kind = "resumed"
  PROVE  Keeps
<1> DEFINE e == Head(browser.events)
           u == Resumed(state, state.epoch)
<1>1. Recorded(state, browser) /\ browser.events # <<>>
  BY DEF IInv, ProcessNextEvent
<1>2. e \in EventTypes /\ IsStopped(state) /\ state.nextEpoch \in Nat \ {0}
      /\ state.pause # NoPause /\ state.pause.epoch = state.epoch
  BY <1>1, EventExpected DEF Recorded, ShowsPause
<1>3. Reduce(u) /\ UNCHANGED <<installed, bound>> /\ browser' = [browser EXCEPT !.events = Tail(@)]
  BY DEF ProcessNextEvent, InputOf
<1>4. Leads(u, state, InQueue(queue), "running", 0, state.nextEpoch)
  BY <1>2, StateReady, ResumedLeads
<1>5. TaskTyped'
  BY DEF ProcessNextEvent, IInv, TaskTyped
<1> HIDE DEF u
<1>6. Follows(u, state, InQueue(queue)) /\ SpecsOf(u) \subseteq bound.specs
  BY <1>4, StateReady DEF Leads
<1>7. /\ Sound(state', queue', installed', bound'.specs) /\ Steady(state', state)
      /\ Emptied(state', u)
  BY <1>3, <1>6, InputSound
<1>8. state'.phase = "running" /\ state'.nextEpoch = state.nextEpoch
  BY <1>4, <1>7 DEF Leads, Emptied
<1>9. ShowsPause(state')
  BY <1>2, <1>8 DEF ShowsPause, IsStopped
<1>10. Turn(ExecutionOf(state), e, ExecutionOf(state'))
  <2>1. ExecutionOf(state) = [pauses |-> state.nextEpoch - 1, now |-> "stopped"]
    BY <1>2 DEF ExecutionOf
  <2>2. ExecutionOf(state') = [pauses |-> state.nextEpoch - 1, now |-> "running"]
    BY <1>8 DEF ExecutionOf, IsStopped
  <2> HIDE DEF e
  <2> QED BY <2>1, <2>2 DEF Turn, e
<1>11. Recorded(state', [browser EXCEPT !.events = Tail(@)])
  BY <1>1, <1>9, <1>10, EventArrives
<1> QED BY <1>3, <1>5, <1>7, <1>11 DEF Keeps, IInv

\* ProcessNextEvent keeps the invariant.
LEMMA ProcessNextEventKeeps ==
  ASSUME IInv, ProcessNextEvent
  PROVE  Keeps
<1>1. Head(browser.events) \in EventTypes
  BY EventExpected DEF IInv, ProcessNextEvent
<1>2. Head(browser.events).kind \in {"parsed", "paused", "resumed"}
  BY <1>1 DEF EventTypes
<1> QED BY <1>2, ParsedKeeps, PausedKeeps, ResumedKeeps

\* The effect that is carried out.
LEMMA DrainReady ==
  ASSUME IInv, InDrain
  PROVE  /\ queue # <<>> /\ Head(queue) \in Effects
         /\ Tail(queue) \in Seq(Effects) /\ Distinct(Tail(queue))
         /\ IsPhysicalEffect(Head(queue)) =>
               Head(queue) \notin InQueue(Tail(queue)) /\ Fits(state, Head(queue))
         /\ Consistent(state, InQueue(Tail(queue)))
         /\ Consistent(state, InQueue(Tail(queue)) \cup {Head(queue)})
         /\ IsState(state) /\ state.out = <<>> /\ SpecsOf(state) \subseteq bound.specs
<1>1. queue # <<>> /\ Sound(state, queue, installed, bound.specs)
  BY DEF InDrain, IInv
<1> QED BY <1>1, QueueTail, StateReady

\* A completion leaves what the task does alone.
LEMMA CompleteTyped ==
  ASSUME IInv, NEW u, Complete(u)
  PROVE  TaskTyped'
BY DEF Complete, IInv, TaskTyped

\* A completion of an effect that is not about a physical breakpoint.
LEMMA CompletionKeeps ==
  ASSUME IInv, InDrain, NEW u, Complete(u), UNCHANGED installed,
         Continues(u, state, InQueue(Tail(queue))), Recorded(state, browser')
  PROVE  Keeps
<1>1. Follows(u, state, InQueue(Tail(queue))) /\ SameExecution(u, state) /\ IsState(u)
      /\ SpecsOf(u) \subseteq bound.specs
  BY DrainReady DEF Continues, Follows
<1>2. state' = [u EXCEPT !.out = <<>>] /\ queue' = Tail(queue) \o u.out /\ bound' = bound
  BY DEF Complete
<1>3. Sound(state, queue, installed, bound.specs)
  BY DEF IInv
<1>4. /\ Sound([u EXCEPT !.out = <<>>], Tail(queue) \o u.out, installed, bound.specs)
      /\ Steady([u EXCEPT !.out = <<>>], state)
  BY <1>1, <1>3, DrainReady, FollowsSound
<1>5. Emptied(state', u)
  BY <1>1, <1>2, EmptiedIs
<1>6. Recorded(state', browser')
  BY <1>1, <1>5, SameExecutionRecorded
<1> QED BY <1>2, <1>4, <1>6, CompleteTyped DEF Keeps, IInv

\* A completion of an effect about a physical breakpoint.
LEMMA PhysicalCompletionKeeps ==
  ASSUME IInv, InDrain, NEW u, Complete(u), UNCHANGED browser, NEW p, NEW S,
         Answers(u, state, InQueue(Tail(queue)), p, S),
         Renewed(installed', installed, u, state, p, S)
  PROVE  Keeps
<1>1. IsState(u) /\ SameExecution(u, state)
  BY DEF Answers
<1>2. state' = [u EXCEPT !.out = <<>>] /\ queue' = Tail(queue) \o u.out /\ bound' = bound
  BY DEF Complete
<1>3. Sound(state, queue, installed, bound.specs)
  BY DEF IInv
<1>4. /\ Sound([u EXCEPT !.out = <<>>], Tail(queue) \o u.out, installed', bound.specs)
      /\ Steady([u EXCEPT !.out = <<>>], state)
  <2> DEFINE now == installed'
             r == Tail(queue)
  <2>1. r \in Seq(Effects) /\ Distinct(r) /\ Answers(u, state, InQueue(r), p, S)
    BY DrainReady
  <2>2. Renewed(now, installed, u, state, p, S)
    OBVIOUS
  <2> HIDE DEF now, r
  <2>3. /\ Sound([u EXCEPT !.out = <<>>], r \o u.out, now, bound.specs)
        /\ Steady([u EXCEPT !.out = <<>>], state)
    BY <1>3, <2>1, <2>2, AnswersSound
  <2> QED BY <2>3 DEF now, r
<1>5. Emptied(state', u)
  BY <1>1, <1>2, EmptiedIs
<1>6. Recorded(state, browser)
  BY DEF IInv
<1>7. Recorded(state', browser)
  BY <1>1, <1>5, <1>6, SameExecutionRecorded
<1> QED BY <1>2, <1>4, <1>7, CompleteTyped DEF Keeps, IInv

\* FetchScriptSource keeps the invariant.
LEMMA FetchKeeps ==
  ASSUME IInv, InDrain, FetchScriptSource(Head(queue))
  PROVE  Keeps
<1> DEFINE e == Head(queue)
<1>1. e.kind = "fetch" /\ UNCHANGED <<installed, browser>> /\ Recorded(state, browser)
  BY DEF FetchScriptSource, IInv
<1>2. Recorded(state, browser')
  BY <1>1
<1> DEFINE content == ScriptText[e.script]
<1>3. ASSUME Succeeds(ScriptSourceFetched(state, e, content))
      PROVE  Keeps
  <2>1. Continues(ScriptSourceFetched(state, e, content), state, InQueue(Tail(queue)))
    <3>1. content \in Contents
      BY <1>1, DrainReady, DriverAssumption
         DEF Effects, MapEffects, SourceEffects, PhysicalEffects, FrameEffects, SessionEffects
    <3> HIDE DEF content
    <3> QED BY <1>1, <3>1, DrainReady, ScriptSourceFetchedContinues
  <2>2. Complete(ScriptSourceFetched(state, e, content))
    BY <1>3 DEF Succeeds
  <2> QED BY <1>1, <1>2, <2>1, <2>2, CompletionKeeps
<1>4. ASSUME Complete(SourceFailed(state, e)) PROVE Keeps
  <2>1. Continues(SourceFailed(state, e), state, InQueue(Tail(queue)))
    BY <1>1, DrainReady, SourceFailedContinues
  <2> QED BY <1>1, <1>2, <1>4, <2>1, CompletionKeeps
<1> QED BY <1>3, <1>4 DEF FetchScriptSource

\* BuildSourceView keeps the invariant: the view of a script without a map is its own
\* content, which a current script has.
LEMMA BuildKeeps ==
  ASSUME IInv, InDrain, BuildSourceView(Head(queue))
  PROVE  Keeps
<1> DEFINE e == Head(queue)
           s == e.script
<1>1. e.kind = "build" /\ UNCHANGED <<installed, browser>> /\ Recorded(state, browser)
  BY DEF BuildSourceView, IInv
<1>2. Recorded(state, browser')
  BY <1>1
<1>3. ASSUME NEW view \in ViewsOf(s), Succeeds(SourceViewBuilt(state, e, view))
      PROVE  Keeps
  <2>1. Continues(SourceViewBuilt(state, e, view), state, InQueue(Tail(queue)))
    <3>1. CASE e \in state.pending /\ IsCurrentScript(state, e)
      <4>1. s \in DOMAIN state.scripts /\ s \in Scripts /\ state.scripts[s] \in ScriptState
        BY <3>1, DrainReady, StateTyped DEF IsCurrentScript
      <4>2. [url |-> ScriptUrl[s], content |-> state.scripts[s].captured] \in AnyCandidate
        BY <4>1, ReducerAssumption DEF ScriptState, AnyCandidate
      <4>3. Views \subseteq SUBSET AnyCandidate
        BY DriverAssumption DEF Candidate, AnyCandidate
      <4>4. view \in SUBSET AnyCandidate
        <5>1. \/ view \in Views
              \/ view = {[url |-> ScriptUrl[s], content |-> state.scripts[s].captured]}
          BY <1>3 DEF ViewsOf
        <5> QED BY <4>2, <4>3, <5>1
      <4> QED BY <1>1, <4>4, DrainReady, SourceViewBuiltContinues
    <3>2. CASE ~(e \in state.pending /\ IsCurrentScript(state, e))
      <4>1. SourceViewBuilt(state, e, view) = TakePending(state, e)
        BY <3>2 DEF SourceViewBuilt
      <4>2. ~IsPhysicalEffect(e)
        BY <1>1 DEF IsPhysicalEffect
      <4> QED BY <4>1, <4>2, DrainReady, TakenContinues
    <3> QED BY <3>1, <3>2
  <2>2. Complete(SourceViewBuilt(state, e, view))
    BY <1>3 DEF Succeeds
  <2> QED BY <1>1, <1>2, <2>1, <2>2, CompletionKeeps
<1>4. ASSUME Complete(SourceFailed(state, e)) PROVE Keeps
  <2>1. Continues(SourceFailed(state, e), state, InQueue(Tail(queue)))
    BY <1>1, DrainReady, SourceFailedContinues
  <2> QED BY <1>1, <1>2, <1>4, <2>1, CompletionKeeps
<1> QED BY <1>3, <1>4 DEF BuildSourceView

\* MapBreakpoint keeps the invariant.
LEMMA MapKeeps ==
  ASSUME IInv, InDrain, MapBreakpoint(Head(queue))
  PROVE  Keeps
<1> DEFINE e == Head(queue)
<1>1. e.kind = "map" /\ UNCHANGED <<installed, browser>> /\ Recorded(state, browser)
  BY DEF MapBreakpoint, IInv
<1>2. Recorded(state, browser')
  BY <1>1
<1>3. PICK positions \in MappingResults : Succeeds(BreakpointMapped(state, e, positions))
  BY DEF MapBreakpoint
<1>4. positions \in SUBSET Positions /\ IsFiniteSet(positions)
  BY <1>3, DriverAssumption
<1>5. Continues(BreakpointMapped(state, e, positions), state, InQueue(Tail(queue)))
  BY <1>1, <1>4, DrainReady, BreakpointMappedContinues
<1>6. Complete(BreakpointMapped(state, e, positions))
  BY <1>3 DEF Succeeds
<1> QED BY <1>1, <1>2, <1>5, <1>6, CompletionKeeps

\* MapFrame keeps the invariant.
LEMMA MapFrameKeeps ==
  ASSUME IInv, InDrain, MapFrame(Head(queue))
  PROVE  Keeps
<1> DEFINE e == Head(queue)
<1>1. e.kind = "frame" /\ UNCHANGED <<installed, browser>> /\ Recorded(state, browser)
  BY DEF MapFrame, IInv
<1>2. Recorded(state, browser')
  BY <1>1
<1>3. /\ Continues(FrameMapped(state, e), state, InQueue(Tail(queue)))
      /\ Continues(FrameFailed(state, e), state, InQueue(Tail(queue)))
  BY <1>1, DrainReady, FrameMappedContinues
<1>4. Complete(FrameMapped(state, e)) \/ Complete(FrameFailed(state, e))
  BY DEF MapFrame, Succeeds
<1> QED BY <1>1, <1>2, <1>3, <1>4, CompletionKeeps

\* ResumeTarget and RunIfWaitingForDebugger keep the invariant.
LEMMA AcceptedKeeps ==
  ASSUME IInv, InDrain, ResumeTarget(Head(queue)) \/ RunIfWaitingForDebugger(Head(queue))
  PROVE  Keeps
<1> DEFINE e == Head(queue)
<1>1. /\ e.kind \in {"resume", "release"} /\ UNCHANGED installed
      /\ Complete(CommandAccepted(state, e))
  BY DEF ResumeTarget, RunIfWaitingForDebugger, Succeeds
<1>2. Recorded(state, browser')
  <2>1. CASE ResumeTarget(e)
    BY <2>1, ResumedRecorded DEF ResumeTarget
  <2>2. CASE RunIfWaitingForDebugger(e)
    <3>1. Recorded(state, browser) /\ browser' = browser
      BY <2>2 DEF RunIfWaitingForDebugger, IInv
    <3> QED BY <3>1
  <2> QED BY <2>1, <2>2
<1>3. Continues(CommandAccepted(state, e), state, InQueue(Tail(queue)))
  <2>1. ~IsPhysicalEffect(e)
    BY <1>1 DEF IsPhysicalEffect
  <2> QED BY <2>1, DrainReady, CommandAcceptedContinues
<1> QED BY <1>1, <1>2, <1>3, CompletionKeeps

\* InstallBreakpoint keeps the invariant: the key it installs is in the state.
LEMMA InstallKeeps ==
  ASSUME IInv, InDrain, InstallBreakpoint(Head(queue))
  PROVE  Keeps
<1> DEFINE e == Head(queue)
           p == e.physical
           u == BreakpointInstalled(state, e)
<1>1. e.kind = "install" /\ Complete(u) /\ installed' = installed \cup {p} /\ UNCHANGED browser
  BY DEF InstallBreakpoint, Succeeds
<1>2. IsPhysicalEffect(e)
  BY <1>1 DEF IsPhysicalEffect
<1>3. p \in DOMAIN state.physical
  BY <1>2, DrainReady DEF Fits
<1>4. Answers(u, state, InQueue(Tail(queue)), p, {})
  BY <1>1, <1>2, DrainReady, BreakpointInstalledAnswers
<1> HIDE DEF u
<1>5. installed' \subseteq DOMAIN u.physical
  <2>1. DOMAIN state.physical \subseteq DOMAIN u.physical
    BY <1>4 DEF Answers
  <2>2. installed \subseteq DOMAIN state.physical
    BY DEF IInv, Sound
  <2> QED BY <1>1, <1>3, <2>1, <2>2
<1>6. installed \ {} \subseteq installed' /\ p \in installed'
  BY <1>1
<1>7. Renewed(installed', installed, u, state, p, {})
  BY <1>5, <1>6 DEF Renewed
<1> QED BY <1>1, <1>4, <1>7, PhysicalCompletionKeeps

\* RemovePhysical keeps the invariant: the key it removes is not taken for installed.
LEMMA RemoveKeeps ==
  ASSUME IInv, InDrain, RemovePhysical(Head(queue))
  PROVE  Keeps
<1> DEFINE e == Head(queue)
           p == e.physical
           S == {p}
           u == BreakpointRemoved(state, e)
<1>1. e.kind = "remove" /\ Complete(u) /\ installed' = installed \ {p} /\ UNCHANGED browser
  BY DEF RemovePhysical, Succeeds
<1>2. IsPhysicalEffect(e)
  BY <1>1 DEF IsPhysicalEffect
<1>3. p \in DOMAIN state.physical /\ state.physical[p].status = "removing"
  BY <1>1, <1>2, DrainReady DEF Fits
<1>4. Answers(u, state, InQueue(Tail(queue)), p, S)
  BY <1>1, <1>2, DrainReady, BreakpointRemovedAnswers
<1>5. \A k \in S : k \in DOMAIN state.physical => state.physical[k].status # "installed"
  BY <1>3
<1>6. installed \ S \subseteq installed' /\ p \in S /\ installed' = installed \ S
  BY <1>1
<1> HIDE DEF u, S
<1>7. installed' \subseteq DOMAIN u.physical
  <2>1. DOMAIN state.physical \ S \subseteq DOMAIN u.physical
    BY <1>4 DEF Answers
  <2>2. installed \subseteq DOMAIN state.physical
    BY DEF IInv, Sound
  <2> QED BY <1>6, <2>1, <2>2
<1>8. Renewed(installed', installed, u, state, p, S)
  BY <1>5, <1>6, <1>7 DEF Renewed
<1> QED BY <1>1, <1>4, <1>8, PhysicalCompletionKeeps

\* ExecuteEffect keeps the invariant.
LEMMA ExecuteEffectKeeps ==
  ASSUME IInv, ExecuteEffect
  PROVE  Keeps
<1>1. InDrain
  BY DEF ExecuteEffect
<1> QED BY <1>1, FetchKeeps, BuildKeeps, MapKeeps, MapFrameKeeps, InstallKeeps, RemoveKeeps,
          AcceptedKeeps DEF ExecuteEffect

\* A drain that ends early loses its queue.
LEMMA EffectFailsKeeps ==
  ASSUME IInv, EffectFails
  PROVE  Keeps
<1>1. UNCHANGED <<state, installed, browser, bound>> /\ queue' = <<>>
  BY DEF EffectFails
<1>2. command' \in CommandsOver(bound.specs)
  BY DEF EffectFails, IInv, TaskTyped, CommandsOver
<1>3. TaskTyped'
  BY <1>2 DEF EffectFails, IInv, TaskTyped
<1>4. Sound(state, <<>>, installed, bound.specs)
  <2>1. /\ Sound(state, queue, installed, bound.specs) /\ installed \subseteq DOMAIN state.physical
        /\ \A p \in DOMAIN state.physical : state.physical[p].status = "installed" =>
              p \in installed
    BY DEF IInv, Sound
  <2> QED BY <2>1, LostSound
<1>5. Sound(state', queue', installed', bound'.specs) /\ Recorded(state', browser')
  BY <1>1, <1>4 DEF IInv
<1>6. Steady(state', state)
  BY <1>1, SteadyReflexive
<1> QED BY <1>3, <1>5, <1>6 DEF Keeps, IInv

\* A drain that is dropped keeps the invariant, whether or not the browser took the
\* request.
LEMMA DrainIsDroppedKeeps ==
  ASSUME IInv, DrainIsDropped
  PROVE  Keeps
<1> DEFINE e == Head(queue)
           p == e.physical
<1>1. UNCHANGED <<state, browser, bound>> /\ queue' = <<>> /\ InDrain /\ IsAwaited(e)
  BY DEF DrainIsDropped, InDrain
<1>2. TaskTyped'
  BY DEF DrainIsDropped, IInv, TaskTyped
<1>3. /\ Sound(state, queue, installed, bound.specs) /\ installed \subseteq DOMAIN state.physical
      /\ \A k \in DOMAIN state.physical : state.physical[k].status = "installed" => k \in installed
  BY DEF IInv, Sound
<1>4. \/ installed' = installed
      \/ e.kind = "install" /\ installed' = installed \cup {p}
      \/ e.kind = "remove" /\ installed' = installed \ {p}
  BY <1>1 DEF DrainIsDropped, IsAwaited
<1>5. e.kind \in {"install", "remove"} => Fits(state, e)
  BY <1>1, DrainReady DEF IsPhysicalEffect
<1>6. /\ installed' \subseteq DOMAIN state.physical
      /\ \A k \in DOMAIN state.physical : state.physical[k].status = "installed" => k \in installed'
  <2>1. CASE installed' = installed
    BY <1>3, <2>1
  <2>2. CASE e.kind = "install" /\ installed' = installed \cup {p}
    BY <1>3, <1>5, <2>2 DEF Fits
  <2>3. CASE e.kind = "remove" /\ installed' = installed \ {p}
    BY <1>3, <1>5, <2>3 DEF Fits
  <2> QED BY <1>4, <2>1, <2>2, <2>3
<1>7. Sound(state, <<>>, installed', bound.specs)
  BY <1>3, <1>6, LostSound
<1>8. Sound(state', queue', installed', bound'.specs) /\ Recorded(state', browser')
  BY <1>1, <1>7 DEF IInv
<1>9. Steady(state', state)
  BY <1>1, SteadyReflexive
<1> QED BY <1>2, <1>8, <1>9 DEF Keeps, IInv

\* A step that changes nothing keeps the invariant.
LEMMA StutterKeeps ==
  ASSUME IInv, UNCHANGED vars
  PROVE  Keeps
<1>1. TaskTyped' /\ UNCHANGED <<state, queue, installed, bound, browser>>
  BY DEF vars, IInv, TaskTyped
<1> QED BY <1>1, StateUnchanged DEF IInv

\* Every step keeps the invariant and what is held.
LEMMA NextKeeps ==
  ASSUME IInv, [Next]_vars
  PROVE  Keeps
<1>1. CASE BrowserNext
  BY <1>1, BrowserAnnouncesKeeps, BrowserPausesKeeps, BrowserResumesKeeps DEF BrowserNext
<1>2. CASE CommandNext
  BY <1>2, SetBreakpointsKeeps, ApplyNextKeeps, RollBackNextKeeps, RestKeeps,
     RemoveBreakpointKeeps, RequestScriptSourceKeeps, ResumeKeeps, ReleaseIfWaitingKeeps
     DEF CommandNext
<1>3. CASE ProcessNextEvent
  BY <1>3, ProcessNextEventKeeps
<1>4. CASE DrainNext
  BY <1>4, ExecuteEffectKeeps, EffectFailsKeeps, DrainIsDroppedKeeps, RestKeeps DEF DrainNext
<1>5. CASE UNCHANGED vars
  BY <1>5, StutterKeeps
<1> QED BY <1>1, <1>2, <1>3, <1>4, <1>5 DEF Next

\* The inductive invariant holds of every reachable state.
THEOREM Invariance == Spec => []IInv
<1>1. Init => IInv
  BY InitEstablishes
<1>2. IInv /\ [Next]_vars => IInv'
  BY NextKeeps DEF Keeps
<1> QED BY <1>1, <1>2, PTL DEF Spec

-----------------------------------------------------------------------------
(***************************************************************************)
(* What follows from the invariant.                                        *)
(***************************************************************************)
\* TypeOK: the variables keep their types, the reducer's state is drained between
\* the inputs, and every breakpoint that is set was asked for.
THEOREM TypeCorrectness == Spec => []TypeOK
<1>1. IInv => TypeOK
  <2> SUFFICES ASSUME IInv PROVE TypeOK
    OBVIOUS
  <2>1. /\ IsState(state) /\ state.out = <<>> /\ SpecsOf(state) \subseteq bound.specs
        /\ installed \subseteq DOMAIN state.physical
    BY DEF IInv, Sound
  <2>2. /\ DOMAIN state.scripts \subseteq Scripts
        /\ DOMAIN state.breakpoints \subseteq Breakpoints
        /\ state.phase \in {"running", "paused", "resuming"}
    BY <2>1, StateFields DEF IsState, States, KeySets, BreakpointSets
  <2>3. DOMAIN state.physical \subseteq PhysicalKey
    BY <2>1, PhysicalTyped
  <2>4. {SpecOf(b) : b \in DOMAIN state.breakpoints} \subseteq bound.specs
    BY <2>1 DEF SpecOf, SpecsOf
  <2> QED BY <2>1, <2>2, <2>3, <2>4 DEF TypeOK, IInv, TaskTyped
<1> QED BY <1>1, Invariance, PTL

\* BindingsMatchOwners: bind_physical, release_physical_binding, release_breakpoint
\* and release_script_version change a binding and its owner together.
THEOREM BindingsAgree == Spec => []BindingsMatchOwners
<1>1. IInv => BindingsMatchOwners
  <2> SUFFICES ASSUME IInv PROVE BindingsMatchOwners
    OBVIOUS
  <2>1. IsState(state) /\ Bound(state)
    BY DEF IInv, Sound, Consistent
  <2>2. \A p \in DOMAIN state.physical : state.physical[p].owners \subseteq DOMAIN state.breakpoints
    BY <2>1, PhysicalTyped
  <2>3. ASSUME NEW b \in DOMAIN state.breakpoints
        PROVE  LET bindings == state.breakpoints[b].bindings
                   owned == {p \in DOMAIN state.physical : b \in state.physical[p].owners}
               IN /\ DOMAIN bindings = owned
                  /\ \A p \in owned : bindings[p] = BindingFor(state.physical[p].status)
    <3> DEFINE bindings == state.breakpoints[b].bindings
               owned == {p \in DOMAIN state.physical : b \in state.physical[p].owners}
    <3>1. DOMAIN bindings \subseteq PhysicalKey /\ owned \subseteq PhysicalKey
      BY <2>1, PhysicalTyped
    <3>2. \A p \in PhysicalKey : BoundAt(state, b, p)
      BY <2>1 DEF Bound
    <3>3. \A p \in PhysicalKey :
             /\ p \in DOMAIN bindings <=> p \in owned
             /\ p \in DOMAIN bindings => bindings[p] = BindingFor(state.physical[p].status)
      BY <3>2 DEF BoundAt
    <3>4. DOMAIN bindings = owned
      BY <3>1, <3>3
    <3> HIDE DEF bindings, owned
    <3>5. \A p \in owned : bindings[p] = BindingFor(state.physical[p].status)
      BY <3>1, <3>3, <3>4
    <3> QED BY <3>4, <3>5 DEF bindings, owned
  <2> QED BY <2>2, <2>3 DEF BindingsMatchOwners
<1> QED BY <1>1, Invariance, PTL

\* BrowserHoldsTheOwned: when nothing is pending the browser holds exactly the
\* breakpoints the reducer takes for installed, each with an owner, whatever failed
\* or was dropped before.
THEOREM BrowserAgrees == Spec => []BrowserHoldsTheOwned
<1>1. IInv => BrowserHoldsTheOwned
  <2> SUFFICES ASSUME IInv, AtRest
               PROVE  /\ installed = DOMAIN state.physical
                      /\ \A p \in installed :
                            IsInstalled(state, p) /\ state.physical[p].owners # {}
    BY DEF BrowserHoldsTheOwned
  <2>1. /\ IsState(state) /\ Asked(state) /\ installed \subseteq DOMAIN state.physical
        /\ \A p \in DOMAIN state.physical :
              state.physical[p].status = "installed" => p \in installed
    BY DEF IInv, Sound, Consistent
  <2>2. ASSUME NEW p \in DOMAIN state.physical
        PROVE  state.physical[p].status = "installed" /\ state.physical[p].owners # {}
    <3>1. AskedAt(state, p) /\ state.pending = {}
      BY <2>1 DEF Asked, AtRest
    <3>2. state.physical[p].status \in {"installing", "installed", "removing"}
      BY <2>1, PhysicalTyped
    <3> QED BY <3>1, <3>2 DEF AskedAt
  <2> QED BY <2>1, <2>2 DEF IsInstalled
<1> QED BY <1>1, Invariance, PTL

\* EveryResumeEndsAPause: process_next_event never meets MissingPauseEpoch.
THEOREM ResumesEndPauses == Spec => []EveryResumeEndsAPause
<1>1. IInv => EveryResumeEndsAPause
  BY EventExpected DEF IInv, EveryResumeEndsAPause
<1> QED BY <1>1, Invariance, PTL

\* PauseIsTheBrowsers: a task that caught up shows the browser's pause and its epoch.
THEOREM PauseIsShown == Spec => []PauseIsTheBrowsers
<1>1. IInv => PauseIsTheBrowsers
  <2> SUFFICES ASSUME IInv, CaughtUp
               PROVE  IF browser.paused = 0 THEN state.phase = "running"
                      ELSE state.epoch = browser.paused /\ IsStopped(state)
    BY DEF PauseIsTheBrowsers
  <2>1. /\ ShowsPause(state) /\ browser \in BrowserType /\ browser.paused \in {0, browser.pauses}
        /\ Explains(<<>>, ExecutionOf(state), BrowserExecution(browser))
    BY DEF IInv, Recorded, CaughtUp
  <2>2. BrowserExecution(browser) = ExecutionOf(state)
    BY <2>1, ExplainsNothing, ExecutionsTyped
  <2>3. state.phase \in {"running", "paused", "resuming"}
    BY StateReady, StateFields DEF IsState, States
  <2>4. CASE browser.paused = 0
    <3>1. ~IsStopped(state)
      BY <2>2, <2>4 DEF BrowserExecution, ExecutionOf
    <3> QED BY <2>3, <2>4, <3>1 DEF IsStopped
  <2>5. CASE browser.paused # 0
    <3>1. IsStopped(state) /\ state.nextEpoch - 1 = browser.pauses
      BY <2>2, <2>5 DEF BrowserExecution, ExecutionOf
    <3> QED BY <2>1, <2>5, <3>1 DEF ShowsPause
  <2> QED BY <2>4, <2>5
<1> QED BY <1>1, Invariance, PTL

\* The breakpoints that are held for b are the installed ones it owns.
LEMMA HeldForIs ==
  ASSUME IInv, NEW b \in DOMAIN state.breakpoints
  PROVE  HeldFor(b) = {p \in PhysicalKey : Holds(state, b, p)}
<1>1. /\ IsState(state) /\ Bound(state)
      /\ \A p \in DOMAIN state.physical :
            state.physical[p].status = "installed" => p \in installed
  BY DEF IInv, Sound, Consistent
<1>2. /\ DOMAIN state.breakpoints[b].bindings \subseteq PhysicalKey
      /\ \A p \in DOMAIN state.physical :
            state.physical[p].status \in {"installing", "installed", "removing"}
  BY <1>1, PhysicalTyped
<1>3. \A p \in PhysicalKey : BoundAt(state, b, p)
  BY <1>1 DEF Bound
<1>4. ASSUME NEW p \in PhysicalKey PROVE p \in HeldFor(b) <=> Holds(state, b, p)
  <2>1. BoundAt(state, b, p)
    BY <1>3
  <2>2. p \in DOMAIN state.physical =>
          (BindingFor(state.physical[p].status) = "installed"
             <=> state.physical[p].status = "installed")
    BY <1>2 DEF BindingFor
  <2> QED BY <1>1, <2>1, <2>2 DEF HeldFor, Holds, BoundAt
<1>5. HeldFor(b) \subseteq PhysicalKey
  BY <1>2 DEF HeldFor
<1> QED BY <1>4, <1>5

\* StaysHeld: an installed breakpoint stays installed somewhere until it is replaced,
\* removed, decided to belong nowhere, or a script is announced again.
THEOREM HeldStaysHeld == Spec => StaysHeld
<1> DEFINE A == \A b \in Breakpoints :
              (SameBreakpoint(b) /\ HeldFor(b) # {}) => (HeldFor(b)' # {} \/ BelongsNowhere(b)')
<1>1. ASSUME IInv, [Next]_vars PROVE A
  <2>1. IInv' /\ Steady(state', state)
    BY <1>1, NextKeeps DEF Keeps
  <2>2. ASSUME NEW b \in Breakpoints, SameBreakpoint(b), HeldFor(b) # {}
        PROVE  HeldFor(b)' # {} \/ BelongsNowhere(b)'
    <3>1. Survives(state', state, b)
      BY <2>2 DEF SameBreakpoint, Survives, SameVersions
    <3>2. Stays(state', state, b)
      BY <2>1, <3>1 DEF Steady
    <3>3. HeldFor(b) = {p \in PhysicalKey : Holds(state, b, p)}
      BY <1>1, <2>2, HeldForIs DEF SameBreakpoint
    <3>4. HeldFor(b)' = {p \in PhysicalKey : Holds(state', b, p)}
      <4>1. b \in DOMAIN state'.breakpoints
        BY <2>2 DEF SameBreakpoint
      <4>2. (IInv /\ b \in DOMAIN state.breakpoints
               => HeldFor(b) = {p \in PhysicalKey : Holds(state, b, p)})'
        BY HeldForIs, PTL
      <4> QED BY <2>1, <4>1, <4>2
    <3>5. Nowhere(state', b) => BelongsNowhere(b)'
      BY DEF Nowhere, BelongsNowhere, Decided, IsUndecided
    <3> QED BY <2>2, <3>2, <3>3, <3>4, <3>5 DEF Stays
  <2> QED BY <2>2
<1> QED BY <1>1, Invariance, PTL DEF Spec, StaysHeld

=============================================================================
