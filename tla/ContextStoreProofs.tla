-------------------------- MODULE ContextStoreProofs --------------------------
(***************************************************************************)
(* What ContextStore promises its clients, for every set of breakpoints,   *)
(* requests and observers and for all bounds.                              *)
(***************************************************************************)
EXTENDS ContextStore, SequenceTheorems, TLAPS

SentRequest ==
    [state : {"pending", "answered"}, command : Commands, guarded : BOOLEAN,
     basis : Basis]

ObserverState ==
    [pc : {"absent", "new", "idle", "checking", "waiting"}, cursor : Nat,
     valid : BOOLEAN, woken : BOOLEAN, answer : Answers]

Typed ==
    /\ context \in ContextState
    /\ completed \subseteq Requests
    /\ history \in Seq(Nat) /\ Len(history) <= HistoryLimit
    /\ disk \in [context : ContextState, completed : SUBSET Requests]
    /\ request \in [Requests -> {Unsent, NoRequest} \cup SentRequest]
    /\ observer \in [Observers -> ObserverState]
    /\ epoch \in Nat
    /\ applied \in [Requests -> Nat]

\* A request that took effect is known by its id, so it has none again.
AppliedAreCompleted ==
    \A q \in Requests : applied[q] = 0 \/ (applied[q] = 1 /\ q \in completed)

\* What a client has read is still the intent, unless an intent newer than its
\* revision has reached the disk.
BasesAreCurrent ==
    \A q \in Requests :
        request[q] \in SentRequest /\ request[q].basis.valid =>
            /\ request[q].basis.revision <= context.revision
            /\ request[q].basis.revision >= disk.context.revision =>
                   request[q].basis.breakpoints = context.breakpoints

\* A history that ends with revision r and leaves out none since its first one.
Gapless(h, r) ==
    /\ \A i, j \in 1..Len(h) : i <= j => h[i] <= h[j]
    /\ \A i \in 1..Len(h) : h[i] <= r
    /\ h # <<>> => h[Len(h)] = r
    /\ h # <<>> => \A n \in h[1]..r : \E i \in 1..Len(h) : h[i] = n

IInv ==
    /\ Typed /\ DiskHoldsIntent /\ AppliedAreCompleted /\ BasesAreCurrent
    /\ Gapless(history, context.revision) /\ AnswerIsComplete

-----------------------------------------------------------------------------
(***************************************************************************)
(* The bounded history                                                     *)
(***************************************************************************)
\* A commit appends the same or the next revision.
LEMMA AppendIsGapless ==
    ASSUME NEW h \in Seq(Nat), NEW r \in Nat, NEW n \in {r, r + 1}, Gapless(h, r)
    PROVE  Gapless(Append(h, n), n)
<1> DEFINE s == Append(h, n)
<1>1. /\ s \in Seq(Nat) /\ Len(s) = Len(h) + 1 /\ Len(h) \in Nat
      /\ s[Len(s)] = n /\ s # <<>>
      /\ \A i \in 1..Len(h) : s[i] = h[i]
  OBVIOUS
<1>2. \A i \in 1..Len(s) : i = Len(s) \/ i \in 1..Len(h)
  BY <1>1
<1>3. \A i \in 1..Len(h) : h[i] \in Nat /\ h[i] <= r
  BY DEF Gapless
<1>4. \A i \in 1..Len(s) : s[i] <= n
  BY <1>1, <1>2, <1>3
<1>5. \A i, j \in 1..Len(s) : i <= j => s[i] <= s[j]
  <2> SUFFICES ASSUME NEW i \in 1..Len(s), NEW j \in 1..Len(s), i <= j
               PROVE  s[i] <= s[j]
    OBVIOUS
  <2>1. CASE j = Len(s)
    BY <2>1, <1>1, <1>4
  <2>2. CASE j # Len(s)
    <3>1. j \in 1..Len(h) /\ i \in 1..Len(h)
      BY <2>2, <1>1
    <3> QED BY <3>1, <1>1 DEF Gapless
  <2> QED BY <2>1, <2>2
<1>6. \A m \in s[1]..n : \E i \in 1..Len(s) : s[i] = m
  <2> SUFFICES ASSUME NEW m \in s[1]..n
               PROVE  \E i \in 1..Len(s) : s[i] = m
    OBVIOUS
  <2>0. s[1] \in Nat
    BY <1>1
  <2>1. CASE m = n
    BY <2>1, <1>1
  <2>2. CASE m # n /\ h # <<>>
    <3>1. 1 \in 1..Len(h) /\ s[1] = h[1]
      BY <2>2, <1>1
    <3>2. m \in h[1]..r
      BY <2>2, <2>0, <3>1
    <3>3. PICK i \in 1..Len(h) : h[i] = m
      BY <2>2, <3>2 DEF Gapless
    <3> QED BY <3>3, <1>1
  <2>3. CASE m # n /\ h = <<>>
    <3>1. s[1] = n
      BY <2>3, <1>1
    <3> QED BY <2>3, <2>0, <3>1
  <2> QED BY <2>1, <2>2, <2>3
<1> HIDE DEF s
<1>7. Gapless(s, n)
  BY <1>1, <1>4, <1>5, <1>6 DEF Gapless
<1> QED BY <1>7 DEF s

\* Dropping the oldest snapshot leaves the later revisions complete.
LEMMA TailIsGapless ==
    ASSUME NEW h \in Seq(Nat), NEW r \in Nat, Gapless(h, r), Len(h) >= 2
    PROVE  /\ SubSeq(h, 2, Len(h)) \in Seq(Nat)
           /\ Len(SubSeq(h, 2, Len(h))) = Len(h) - 1
           /\ Gapless(SubSeq(h, 2, Len(h)), r)
<1> DEFINE t == SubSeq(h, 2, Len(h))
<1>1. /\ t \in Seq(Nat) /\ Len(t) = Len(h) - 1
      /\ \A i \in 1..Len(t) : t[i] = h[i + 1]
      /\ Len(h) \in Nat
  BY SubSeqProperties
<1> HIDE DEF t
<1>2. t # <<>>
  BY <1>1
<1>3. \A i \in 1..Len(t) : i + 1 \in 1..Len(h)
  BY <1>1
<1>4. \A i, j \in 1..Len(t) : i <= j => t[i] <= t[j]
  <2> SUFFICES ASSUME NEW i \in 1..Len(t), NEW j \in 1..Len(t), i <= j
               PROVE  t[i] <= t[j]
    OBVIOUS
  <2>1. i + 1 <= j + 1
    BY <1>1
  <2>2. i + 1 \in 1..Len(h) /\ j + 1 \in 1..Len(h)
    BY <1>3
  <2> QED BY <1>1, <2>1, <2>2 DEF Gapless
<1>5. \A i \in 1..Len(t) : t[i] <= r
  BY <1>1, <1>3 DEF Gapless
<1>6. t[Len(t)] = r
  BY <1>1, <1>2 DEF Gapless
<1>7. \A n \in t[1]..r : \E i \in 1..Len(t) : t[i] = n
  <2> SUFFICES ASSUME NEW n \in t[1]..r
               PROVE  \E i \in 1..Len(t) : t[i] = n
    OBVIOUS
  <2>0. 1 \in 1..Len(t) /\ 1 \in 1..Len(h) /\ 2 \in 1..Len(h)
    BY <1>1
  <2>a. h[1] \in Nat /\ h[2] \in Nat
    BY <2>0
  <2>b. t[1] = h[2]
    BY <1>1, <2>0
  <2>c. h[1] <= h[2]
    BY <2>0 DEF Gapless
  <2>1. t[1] = h[2] /\ h[1] \in Nat /\ h[2] \in Nat /\ h[1] <= h[2] /\ n \in Nat
    BY <2>a, <2>b, <2>c
  <2>2. n \in h[1]..r /\ h # <<>>
    BY <2>1
  <2>3. PICK i \in 1..Len(h) : h[i] = n
    BY <2>2 DEF Gapless
  <2>4. CASE i = 1
    BY <2>1, <2>3, <2>4, <1>1
  <2>5. CASE i # 1
    <3>1. i - 1 \in 1..Len(t) /\ (i - 1) + 1 = i
      BY <2>5, <1>1
    <3> QED BY <3>1, <2>3, <1>1
  <2> QED BY <2>4, <2>5
<1>8. Gapless(t, r)
  BY <1>2, <1>4, <1>5, <1>6, <1>7 DEF Gapless
<1> QED BY <1>1, <1>8 DEF t

\* commit_context keeps the history gapless and within its limit.
LEMMA CommitIsGapless ==
    ASSUME NEW h \in Seq(Nat), NEW r \in Nat, NEW n \in {r, r + 1},
           Gapless(h, r), Len(h) <= HistoryLimit
    PROVE  /\ Truncated(Append(h, n)) \in Seq(Nat)
           /\ Len(Truncated(Append(h, n))) <= HistoryLimit
           /\ Gapless(Truncated(Append(h, n)), n)
<1> DEFINE s == Append(h, n)
<1>1. /\ s \in Seq(Nat) /\ Len(s) = Len(h) + 1 /\ Len(h) \in Nat
      /\ n \in Nat /\ HistoryLimit \in Nat /\ HistoryLimit >= 1
  BY LimitAssumption
<1>2. Gapless(s, n)
  BY AppendIsGapless
<1> HIDE DEF s
<1>3. CASE Len(s) <= HistoryLimit
  <2>1. Truncated(s) = s
    BY <1>1, <1>3 DEF Truncated
  <2> QED BY <1>1, <1>2, <1>3, <2>1 DEF s
<1>4. CASE Len(s) > HistoryLimit
  <2>1. Len(s) = HistoryLimit + 1 /\ Len(s) >= 2 /\ Len(s) - HistoryLimit + 1 = 2
    BY <1>1, <1>4
  <2>2. Truncated(s) = SubSeq(s, 2, Len(s))
    BY <1>4, <2>1 DEF Truncated
  <2>3. /\ SubSeq(s, 2, Len(s)) \in Seq(Nat)
        /\ Len(SubSeq(s, 2, Len(s))) = Len(s) - 1
        /\ Gapless(SubSeq(s, 2, Len(s)), n)
    BY <1>1, <1>2, <2>1, TailIsGapless
  <2> QED BY <1>1, <2>1, <2>2, <2>3 DEF s
<1> QED BY <1>1, <1>3, <1>4

-----------------------------------------------------------------------------
(***************************************************************************)
(* Parts of a step                                                         *)
(***************************************************************************)
LEMMA InitIsInvariant == Init => IInv
<1> SUFFICES ASSUME Init PROVE IInv
  OBVIOUS
<1>1. NoContext \in ContextState
  BY DEF NoContext, ContextState, Intents
<1>2. PICK present \in Clients :
        /\ request = [q \in Requests |-> IF q \in present THEN Unsent ELSE NoRequest]
        /\ observer = [o \in Observers |->
             IF o \in present THEN IdleObserver ELSE [IdleObserver EXCEPT !.pc = "absent"]]
  BY DEF Init
<1>3. request \in [Requests -> {Unsent, NoRequest} \cup SentRequest]
  BY <1>2
<1>4. NoAnswer \in Answers
  BY DEF Answers
<1>5. IdleObserver \in ObserverState /\ [IdleObserver EXCEPT !.pc = "absent"] \in ObserverState
  BY <1>4 DEF IdleObserver, ObserverState
<1>6. observer \in [Observers -> ObserverState]
  BY <1>2, <1>5
<1>7. history = <<>> /\ Len(history) = 0 /\ history \in Seq(Nat)
  BY DEF Init
<1>8. Typed
  BY <1>1, <1>3, <1>6, <1>7, LimitAssumption DEF Typed, Init
<1>9. DiskHoldsIntent
  <2>1. context = NoContext /\ disk.context = NoContext /\ completed = disk.completed
    BY DEF Init
  <2>2. NoContext.revision \in Nat
    BY DEF NoContext
  <2> QED BY <2>1, <2>2 DEF DiskHoldsIntent
<1>10. AppliedAreCompleted
  BY DEF AppliedAreCompleted, Init
<1>11. BasesAreCurrent
  BY <1>2 DEF BasesAreCurrent, SentRequest, Unsent, NoRequest
<1>12. Gapless(history, context.revision)
  BY <1>7 DEF Gapless
<1>13. AnswerIsComplete
  BY <1>2 DEF AnswerIsComplete, IdleObserver, NoAnswer
<1> QED BY <1>8, <1>9, <1>10, <1>11, <1>12, <1>13 DEF IInv

\* commit_context appends the next revision and drops the oldest: no gap.
LEMMA RecordedIsGapless ==
    ASSUME IInv, NEW ctx \in ContextState,
           ctx.revision = context.revision + 1 \/ ctx = context,
           context' = ctx, history' = Recorded(ctx)
    PROVE  /\ history' \in Seq(Nat) /\ Len(history') <= HistoryLimit
           /\ Gapless(history', context'.revision)
<1>1. context.revision \in Nat /\ ctx.revision \in {context.revision, context.revision + 1}
  BY DEF IInv, Typed, ContextState
<1>2. history \in Seq(Nat) /\ Len(history) <= HistoryLimit /\ Gapless(history, context.revision)
  BY DEF IInv, Typed
<1> QED BY <1>1, <1>2, CommitIsGapless DEF Recorded

\* Waking the observers changes no answer that was given.
LEMMA SignalKeepsAnswers ==
    ASSUME IInv, observer' = Signalled
    PROVE  observer' \in [Observers -> ObserverState] /\ AnswerIsComplete'
<1>1. observer \in [Observers -> ObserverState] /\ AnswerIsComplete
  BY DEF IInv, Typed
<1>2. \A o \in Observers :
        observer'[o] \in ObserverState /\ observer'[o].answer = observer[o].answer
  BY <1>1 DEF Signalled, ObserverState
<1>3. observer' \in [Observers -> ObserverState]
  BY <1>2 DEF Signalled
<1> QED BY <1>1, <1>2, <1>3 DEF AnswerIsComplete

\* The requests that were sent, with what their clients have read.
SameBases ==
    \A q \in Requests : request'[q] \in SentRequest =>
        request[q] \in SentRequest /\ request'[q].basis = request[q].basis

\* A step makes what clients have read stale by a revision of its own on disk,
\* or it leaves the intent alone.
LEMMA BasesStayCurrent ==
    ASSUME IInv, SameBases,
           context' \in ContextState, disk'.context \in ContextState,
           context.revision <= context'.revision,
           \/ context.revision < disk'.context.revision
           \/ /\ context'.breakpoints = context.breakpoints
              /\ disk.context.revision <= disk'.context.revision
    PROVE  BasesAreCurrent'
<1> SUFFICES ASSUME NEW q \in Requests,
                    request'[q] \in SentRequest, request'[q].basis.valid
             PROVE  /\ request'[q].basis.revision <= context'.revision
                    /\ request'[q].basis.revision >= disk'.context.revision =>
                           request'[q].basis.breakpoints = context'.breakpoints
  BY DEF BasesAreCurrent
<1>1. request[q] \in SentRequest /\ request'[q].basis = request[q].basis
  BY DEF SameBases
<1>2. /\ request[q].basis.revision <= context.revision
      /\ request[q].basis.revision >= disk.context.revision =>
             request[q].basis.breakpoints = context.breakpoints
  BY <1>1 DEF IInv, BasesAreCurrent
<1>3. /\ request[q].basis.revision \in Nat /\ context.revision \in Nat
      /\ disk.context.revision \in Nat /\ context'.revision \in Nat
      /\ disk'.context.revision \in Nat
  BY <1>1 DEF IInv, Typed, SentRequest, Basis, ContextState
<1> QED BY <1>1, <1>2, <1>3

\* persist_or_restore of a reduced context and more completed requests.
LEMMA PersistKeeps ==
    ASSUME IInv, NEW ctx \in ContextState, NEW done \in SUBSET Requests,
           ctx.revision = context.revision + 1 \/ ctx = context,
           completed \subseteq done, SameBases,
           Persist(ctx, done, Recorded(ctx))
    PROVE  /\ context' \in ContextState /\ completed' \subseteq Requests
           /\ history' \in Seq(Nat) /\ Len(history') <= HistoryLimit
           /\ disk' \in [context : ContextState, completed : SUBSET Requests]
           /\ DiskHoldsIntent' /\ BasesAreCurrent'
           /\ Gapless(history', context'.revision)
           /\ completed \subseteq completed'
<1>0. /\ context \in ContextState /\ context.revision \in Nat
      /\ disk \in [context : ContextState, completed : SUBSET Requests]
      /\ disk.context.revision \in Nat
  BY DEF IInv, Typed, ContextState
<1>1. CASE /\ context' = ctx /\ completed' = done /\ history' = Recorded(ctx)
           /\ disk' = [context |-> ctx, completed |-> done]
  <2>1. /\ history' \in Seq(Nat) /\ Len(history') <= HistoryLimit
        /\ Gapless(history', context'.revision)
    BY <1>1, RecordedIsGapless
  <2>2. DiskHoldsIntent'
    BY <1>1 DEF DiskHoldsIntent, ContextState
  <2>3. disk'.context = ctx /\ disk' \in [context : ContextState, completed : SUBSET Requests]
    BY <1>1
  <2>4. disk.context.revision <= context.revision
    BY DEF IInv, DiskHoldsIntent
  <2>5. BasesAreCurrent'
    BY <1>0, <1>1, <2>3, <2>4, BasesStayCurrent
  <2> QED BY <1>1, <2>1, <2>2, <2>3, <2>5
<1>2. CASE UNCHANGED storeVars
  <2>1. /\ context' = context /\ completed' = completed /\ history' = history
        /\ disk' = disk
    BY <1>2 DEF storeVars
  <2>2. BasesAreCurrent'
    BY <1>0, <2>1, BasesStayCurrent
  <2>3. DiskHoldsIntent'
    BY <2>1 DEF IInv, DiskHoldsIntent
  <2> QED BY <1>0, <2>1, <2>2, <2>3 DEF IInv, Typed
<1> QED BY <1>1, <1>2 DEF Persist

-----------------------------------------------------------------------------
(***************************************************************************)
(* Mutations and observations                                              *)
(***************************************************************************)
LEMMA ChangedIsNext ==
    ASSUME NEW ctx \in ContextState
    PROVE  /\ Changed(ctx) \in ContextState
           /\ Changed(ctx).revision = ctx.revision + 1
           /\ Changed(ctx).exists = ctx.exists
           /\ Changed(ctx).breakpoints = ctx.breakpoints
BY DEF Changed, ContextState

\* put_context.
LEMMA PutContextKeeps == ASSUME IInv, PutContext PROVE IInv'
<1> DEFINE ctx == Changed([context EXCEPT !.exists = TRUE])
<1>1. ctx \in ContextState /\ ctx.revision = context.revision + 1
  <2>1. /\ [context EXCEPT !.exists = TRUE] \in ContextState
        /\ [context EXCEPT !.exists = TRUE].revision = context.revision
    BY DEF IInv, Typed, ContextState
  <2> QED BY <2>1, ChangedIsNext
<1>2. SameBases
  BY DEF PutContext, SameBases
<1>3. completed \in SUBSET Requests /\ Persist(ctx, completed, Recorded(ctx))
  BY DEF PutContext, IInv, Typed
<1> HIDE DEF ctx
<1>4. /\ context' \in ContextState /\ completed' \subseteq Requests
      /\ history' \in Seq(Nat) /\ Len(history') <= HistoryLimit
      /\ disk' \in [context : ContextState, completed : SUBSET Requests]
      /\ DiskHoldsIntent' /\ BasesAreCurrent'
      /\ Gapless(history', context'.revision)
      /\ completed \subseteq completed'
  BY <1>1, <1>2, <1>3, PersistKeeps
<1>5. observer' \in [Observers -> ObserverState] /\ AnswerIsComplete'
  BY SignalKeepsAnswers DEF PutContext
<1>6. Typed'
  BY <1>4, <1>5 DEF Typed, IInv, PutContext
<1>7. AppliedAreCompleted'
  BY <1>4 DEF IInv, PutContext, AppliedAreCompleted
<1> QED BY <1>4, <1>5, <1>6, <1>7 DEF IInv

\* A changed intent is a context of the next revision.
LEMMA IntentIsNext ==
    ASSUME NEW ctx \in ContextState, NEW b \in Breakpoints, NEW spec \in Specs \cup {NoSpec}
    PROVE  LET next == Changed([ctx EXCEPT !.breakpoints[b] = spec])
           IN  next \in ContextState /\ next.revision = ctx.revision + 1
<1> DEFINE marked == [ctx EXCEPT !.breakpoints = [ctx.breakpoints EXCEPT ![b] = spec]]
<1>1. marked \in ContextState /\ marked.revision = ctx.revision
  BY DEF ContextState, Intents
<1>2. [ctx EXCEPT !.breakpoints[b] = spec] = marked
  BY DEF ContextState
<1> QED BY <1>1, <1>2, ChangedIsNext

\* put_breakpoint without a request id.
LEMMA PutUnkeyedKeeps ==
    ASSUME IInv, NEW b \in Breakpoints, NEW spec \in Specs, PutBreakpointUnkeyed(b, spec)
    PROVE  IInv'
<1> DEFINE ctx == PutBreakpoint(context, b, spec)
<1>1. ctx \in ContextState /\ ctx.revision = context.revision + 1
  BY IntentIsNext DEF IInv, Typed, PutBreakpoint
<1>2. SameBases
  BY DEF PutBreakpointUnkeyed, SameBases
<1>3. completed \in SUBSET Requests /\ Persist(ctx, completed, Recorded(ctx))
  BY DEF PutBreakpointUnkeyed, IInv, Typed
<1> HIDE DEF ctx
<1>4. /\ context' \in ContextState /\ completed' \subseteq Requests
      /\ history' \in Seq(Nat) /\ Len(history') <= HistoryLimit
      /\ disk' \in [context : ContextState, completed : SUBSET Requests]
      /\ DiskHoldsIntent' /\ BasesAreCurrent'
      /\ Gapless(history', context'.revision)
      /\ completed \subseteq completed'
  BY <1>1, <1>2, <1>3, PersistKeeps
<1>5. observer' \in [Observers -> ObserverState] /\ AnswerIsComplete'
  BY SignalKeepsAnswers DEF PutBreakpointUnkeyed
<1>6. Typed'
  BY <1>4, <1>5 DEF Typed, IInv, PutBreakpointUnkeyed
<1>7. AppliedAreCompleted'
  BY <1>4 DEF IInv, PutBreakpointUnkeyed, AppliedAreCompleted
<1> QED BY <1>4, <1>5, <1>6, <1>7 DEF IInv

\* Runtime changes are committed and not persisted.
LEMMA CommitKeeps ==
    ASSUME IInv, context' \in {context, Changed(context)},
           history' = Recorded(context'), observer' = Signalled,
           UNCHANGED <<completed, disk, request, epoch, applied>>
    PROVE  IInv'
<1>0. context \in ContextState /\ context.revision \in Nat
  BY DEF IInv, Typed, ContextState
<1>1. /\ context' \in ContextState
      /\ context'.revision = context.revision + 1 \/ context' = context
      /\ context'.exists = context.exists
      /\ context'.breakpoints = context.breakpoints
      /\ context.revision <= context'.revision /\ context'.revision \in Nat
  BY <1>0 DEF Changed, ContextState
<1>2. /\ history' \in Seq(Nat) /\ Len(history') <= HistoryLimit
      /\ Gapless(history', context'.revision)
  BY <1>1, RecordedIsGapless
<1>3. disk'.context \in ContextState /\ disk'.context.revision = disk.context.revision
      /\ disk.context.revision \in Nat
  BY DEF IInv, Typed, ContextState
<1>4. SameBases
  BY DEF SameBases
<1>5. BasesAreCurrent'
  BY <1>1, <1>3, <1>4, BasesStayCurrent
<1>6. DiskHoldsIntent'
  BY <1>0, <1>1, <1>3 DEF IInv, DiskHoldsIntent
<1>7. observer' \in [Observers -> ObserverState] /\ AnswerIsComplete'
  BY SignalKeepsAnswers
<1>8. Typed'
  BY <1>1, <1>2, <1>7 DEF IInv, Typed
<1>9. AppliedAreCompleted'
  BY DEF IInv, AppliedAreCompleted
<1> QED BY <1>2, <1>5, <1>6, <1>7, <1>8, <1>9 DEF IInv

-----------------------------------------------------------------------------
(***************************************************************************)
(* Keyed mutations                                                         *)
(***************************************************************************)
LEMMA AnswerKeepsRequests ==
    ASSUME IInv, NEW q \in Requests, Pending(q), Answer(q)
    PROVE  /\ request' \in [Requests -> {Unsent, NoRequest} \cup SentRequest]
           /\ SameBases
<1>1. request \in [Requests -> {Unsent, NoRequest} \cup SentRequest]
  BY DEF IInv, Typed
<1>2. request[q] \in SentRequest
  BY <1>1 DEF Pending, Unsent, NoRequest
<1>3. CASE request' = [request EXCEPT ![q].state = "answered"]
  <2>1. /\ request'[q] \in SentRequest /\ request'[q].basis = request[q].basis
        /\ \A p \in Requests \ {q} : request'[p] = request[p]
    BY <1>1, <1>2, <1>3 DEF SentRequest
  <2> QED BY <1>1, <1>2, <1>3, <2>1 DEF SameBases
<1>4. CASE UNCHANGED request
  BY <1>1, <1>4 DEF SameBases
<1> QED BY <1>3, <1>4 DEF Answer

\* A client sends a request for the first time.
LEMMA SendKeeps ==
    ASSUME IInv, NEW q \in Requests, NEW command \in Commands, NEW guarded \in BOOLEAN,
           Send(q, command, guarded)
    PROVE  IInv'
<1> DEFINE basis == [revision |-> context.revision,
                     breakpoints |-> context.breakpoints, valid |-> TRUE]
           sent == [state |-> "pending", command |-> command, guarded |-> guarded,
                    basis |-> basis]
<1>1. basis \in Basis
  BY DEF IInv, Typed, ContextState, Basis
<1>2. sent \in SentRequest /\ sent.basis = basis
  BY <1>1 DEF SentRequest
<1>3. basis.revision = context.revision /\ basis.breakpoints = context.breakpoints
  OBVIOUS
<1>4. /\ request \in [Requests -> {Unsent, NoRequest} \cup SentRequest]
      /\ request' = [request EXCEPT ![q] = sent]
      /\ UNCHANGED <<context, completed, history, disk, observer, epoch, applied>>
  BY DEF Send, storeVars, IInv, Typed
<1> HIDE DEF basis, sent
<1>5. request' \in [Requests -> {Unsent, NoRequest} \cup SentRequest]
  BY <1>2, <1>4
<1>6. Typed'
  BY <1>4, <1>5 DEF IInv, Typed
<1>7. context.revision \in Nat
  BY DEF IInv, Typed, ContextState
<1>8. BasesAreCurrent'
  <2> SUFFICES ASSUME NEW p \in Requests,
                      request'[p] \in SentRequest, request'[p].basis.valid
               PROVE  /\ request'[p].basis.revision <= context'.revision
                      /\ request'[p].basis.revision >= disk'.context.revision =>
                             request'[p].basis.breakpoints = context'.breakpoints
    BY DEF BasesAreCurrent
  <2>1. CASE p = q
    <3>1. request'[p].basis = basis
      BY <1>2, <1>4, <2>1
    <3> QED BY <3>1, <1>3, <1>4, <1>7
  <2>2. CASE p # q
    <3>1. request'[p] = request[p]
      BY <1>4, <2>2
    <3> QED BY <3>1, <1>4 DEF IInv, BasesAreCurrent
  <2> QED BY <2>1, <2>2
<1>9. DiskHoldsIntent' /\ AppliedAreCompleted' /\ AnswerIsComplete'
  BY <1>4 DEF IInv, DiskHoldsIntent, AppliedAreCompleted, AnswerIsComplete
<1>10. Gapless(history, context.revision)'
  BY <1>4 DEF IInv, Gapless
<1> QED BY <1>6, <1>8, <1>9, <1>10 DEF IInv

\* A request that was completed before, conflicts, or finds no context.
LEMMA AnswerWithoutEffectKeeps ==
    ASSUME IInv, NEW q \in Requests, AnswerWithoutEffect(q)
    PROVE  IInv'
<1>1. UNCHANGED <<context, completed, history, disk, observer, epoch, applied>>
  BY DEF AnswerWithoutEffect, storeVars
<1>2. request' \in [Requests -> {Unsent, NoRequest} \cup SentRequest] /\ SameBases
  BY AnswerKeepsRequests DEF AnswerWithoutEffect
<1>3. Typed'
  BY <1>1, <1>2 DEF IInv, Typed
<1>4. BasesAreCurrent'
  <2>1. /\ context.revision \in Nat /\ context' \in ContextState
        /\ disk'.context \in ContextState /\ disk.context.revision \in Nat
    BY <1>1 DEF IInv, Typed, ContextState
  <2> QED BY <1>1, <1>2, <2>1, BasesStayCurrent
<1>5. DiskHoldsIntent' /\ AppliedAreCompleted' /\ AnswerIsComplete'
  BY <1>1 DEF IInv, DiskHoldsIntent, AppliedAreCompleted, AnswerIsComplete
<1>6. Gapless(history, context.revision)'
  BY <1>1 DEF IInv, Gapless
<1> QED BY <1>3, <1>4, <1>5, <1>6 DEF IInv

\* What reaches the disk is the first effect of its request.
LEMMA AppliedOnce ==
    ASSUME IInv, NEW q \in Requests, MayApply(q), Applied(q),
           NEW ctx, NEW hist, Persist(ctx, completed \cup {q}, hist)
    PROVE  applied' \in [Requests -> Nat] /\ AppliedAreCompleted'
<1>0. /\ applied \in [Requests -> Nat] /\ AppliedAreCompleted
      /\ q \notin completed /\ applied[q] = 0
  BY DEF IInv, Typed, MayApply, IsCompleted, AppliedAreCompleted
<1>1. CASE Persisted
  <2>1. applied' = [applied EXCEPT ![q] = @ + 1]
    BY <1>1 DEF Applied
  <2>2. completed' = completed \cup {q}
    <3>1. ~(UNCHANGED storeVars)
      BY <1>1 DEF Persisted, storeVars
    <3> QED BY <3>1 DEF Persist
  <2>3. applied' \in [Requests -> Nat]
    BY <1>0, <2>1
  <2> QED BY <1>0, <2>1, <2>2, <2>3 DEF AppliedAreCompleted
<1>2. CASE ~Persisted
  <2>1. applied' = applied
    BY <1>2 DEF Applied
  <2>2. completed \subseteq completed'
    BY DEF Persist, storeVars
  <2> QED BY <1>0, <2>1, <2>2 DEF AppliedAreCompleted
<1> QED BY <1>1, <1>2

\* A request that changes the breakpoints.
LEMMA ApplyIntentKeeps ==
    ASSUME IInv, NEW q \in Requests, ApplyIntent(q)
    PROVE  IInv'
<1> DEFINE command == request[q].command
           ctx == IF command.kind = "put"
                  THEN PutBreakpoint(context, command.breakpoint, command.spec)
                  ELSE RemoveBreakpoint(context, command.breakpoint)
<1>0. context \in ContextState
  BY DEF IInv, Typed
<1>1. ctx \in ContextState /\ (ctx.revision = context.revision + 1 \/ ctx = context)
  <2>1. request[q] \in SentRequest
    BY DEF IInv, Typed, ApplyIntent, MayApply, Pending, Unsent, NoRequest
  <2>2. command \in Commands /\ command.kind \in {"put", "remove"}
    BY <2>1 DEF SentRequest, ApplyIntent
  <2>3. CASE command.kind = "put"
    <3>1. command.breakpoint \in Breakpoints /\ command.spec \in Specs
      BY <2>2, <2>3 DEF Commands
    <3> QED BY <1>0, <2>3, <3>1, IntentIsNext DEF PutBreakpoint
  <2>4. CASE command.kind = "remove"
    <3>1. command.breakpoint \in Breakpoints
      BY <2>2, <2>4 DEF Commands
    <3> QED BY <1>0, <2>4, <3>1, IntentIsNext DEF RemoveBreakpoint
  <2> QED BY <2>2, <2>3, <2>4
<1>2. /\ MayApply(q) /\ Applied(q)
      /\ Persist(ctx, completed \cup {q}, Recorded(ctx))
      /\ observer' = Signalled /\ Answer(q) /\ UNCHANGED epoch
  BY DEF ApplyIntent
<1> HIDE DEF ctx, command
<1>3. request' \in [Requests -> {Unsent, NoRequest} \cup SentRequest] /\ SameBases
  BY <1>2, AnswerKeepsRequests DEF MayApply
<1>4. completed \cup {q} \in SUBSET Requests
  BY DEF IInv, Typed
<1>5. /\ context' \in ContextState /\ completed' \subseteq Requests
      /\ history' \in Seq(Nat) /\ Len(history') <= HistoryLimit
      /\ disk' \in [context : ContextState, completed : SUBSET Requests]
      /\ DiskHoldsIntent' /\ BasesAreCurrent'
      /\ Gapless(history', context'.revision)
  BY <1>1, <1>2, <1>3, <1>4, PersistKeeps
<1>6. observer' \in [Observers -> ObserverState] /\ AnswerIsComplete'
  BY <1>2, SignalKeepsAnswers
<1>7. applied' \in [Requests -> Nat] /\ AppliedAreCompleted'
  BY <1>2, AppliedOnce
<1>8. Typed'
  BY <1>2, <1>3, <1>5, <1>6, <1>7 DEF IInv, Typed
<1> QED BY <1>5, <1>6, <1>7, <1>8 DEF IInv

\* Taking revisions back only invalidates what clients have read.
LEMMA RequestsAfterKeeps ==
    ASSUME IInv, NEW revision \in Int
    PROVE  /\ RequestsAfter(revision) \in [Requests -> {Unsent, NoRequest} \cup SentRequest]
           /\ \A q \in Requests : RequestsAfter(revision)[q] \in SentRequest =>
                /\ request[q] \in SentRequest
                /\ RequestsAfter(revision)[q].basis.revision = request[q].basis.revision
                /\ RequestsAfter(revision)[q].basis.breakpoints = request[q].basis.breakpoints
                /\ RequestsAfter(revision)[q].basis.valid =>
                       request[q].basis.valid /\ request[q].basis.revision <= revision
<1> DEFINE Keeps(q) ==
             /\ request[q] \in SentRequest
             /\ RequestsAfter(revision)[q].basis.revision = request[q].basis.revision
             /\ RequestsAfter(revision)[q].basis.breakpoints = request[q].basis.breakpoints
             /\ RequestsAfter(revision)[q].basis.valid =>
                    request[q].basis.valid /\ request[q].basis.revision <= revision
<1> SUFFICES ASSUME NEW q \in Requests
             PROVE  /\ RequestsAfter(revision)[q] \in {Unsent, NoRequest} \cup SentRequest
                    /\ RequestsAfter(revision)[q] \in SentRequest => Keeps(q)
  BY DEF RequestsAfter
<1>1. request[q] \in {Unsent, NoRequest} \cup SentRequest
  BY DEF IInv, Typed
<1>2. CASE request[q] \in {Unsent, NoRequest}
  BY <1>2 DEF RequestsAfter, Unsent, NoRequest, SentRequest
<1>3. CASE request[q] \in SentRequest
  <2> DEFINE basis == [request[q].basis EXCEPT
                         !.valid = request[q].basis.valid
                                   /\ request[q].basis.revision <= revision]
             after == [request[q] EXCEPT !.basis = basis]
  <2>1. /\ basis \in Basis /\ basis.revision = request[q].basis.revision
        /\ basis.breakpoints = request[q].basis.breakpoints
        /\ basis.valid = (request[q].basis.valid /\ request[q].basis.revision <= revision)
    BY <1>3 DEF SentRequest, Basis
  <2> HIDE DEF basis
  <2>2. after \in SentRequest /\ after.basis = basis
    BY <1>3, <2>1 DEF SentRequest
  <2>3. request[q].state \notin {"unsent", "absent"}
    BY <1>3 DEF SentRequest
  <2>4. RequestsAfter(revision)[q] = after
    BY <1>3, <2>3 DEF RequestsAfter, SentRequest, basis
  <2> QED BY <1>3, <2>1, <2>2, <2>4
<1> QED BY <1>1, <1>2, <1>3

\* A request that deletes the context.
LEMMA DeleteContextKeeps ==
    ASSUME IInv, NEW q \in Requests, ApplyDeleteContext(q)
    PROVE  IInv'
<1>1. /\ MayApply(q) /\ Applied(q)
      /\ Persist(NoContext, completed \cup {q}, <<>>)
  BY DEF ApplyDeleteContext
<1>2. applied' \in [Requests -> Nat] /\ AppliedAreCompleted'
  BY <1>1, AppliedOnce
<1>3. q \notin completed /\ completed = disk.completed
  BY <1>1 DEF MayApply, IsCompleted, IInv, DiskHoldsIntent
<1>4. CASE ~(UNCHANGED storeVars)
  <2>1. /\ context' = NoContext /\ completed' = completed \cup {q} /\ history' = <<>>
        /\ disk' = [context |-> NoContext, completed |-> completed \cup {q}]
    BY <1>1, <1>4 DEF Persist
  <2>2. Persisted
    BY <1>3, <2>1 DEF Persisted
  <2>3. /\ observer' = [o \in Observers |->
                          [observer[o] EXCEPT !.woken = TRUE, !.valid = FALSE]]
        /\ epoch' = epoch + 1
    BY <2>2 DEF ApplyDeleteContext
  <2>4. PICK state \in {"pending", "answered"} :
          request' = [RequestsAfter(-1) EXCEPT ![q].state = state]
    BY <2>2 DEF ApplyDeleteContext
  <2>5. /\ RequestsAfter(-1) \in [Requests -> {Unsent, NoRequest} \cup SentRequest]
        /\ \A p \in Requests : RequestsAfter(-1)[p] \in SentRequest =>
             ~RequestsAfter(-1)[p].basis.valid
    <3>1. \A p \in Requests : request[p] \in SentRequest =>
            ~(request[p].basis.revision <= -1)
      BY DEF SentRequest, Basis
    <3> QED BY <3>1, RequestsAfterKeeps
  <2>6. RequestsAfter(-1)[q] \in SentRequest
    <3>1. request[q] \in SentRequest
      BY <1>1 DEF MayApply, Pending, Unsent, NoRequest, IInv, Typed
    <3> QED BY <3>1, <2>5 DEF RequestsAfter, SentRequest, Unsent, NoRequest
  <2>7. /\ request' \in [Requests -> {Unsent, NoRequest} \cup SentRequest]
        /\ \A p \in Requests : request'[p] \in SentRequest => ~request'[p].basis.valid
    <3>1. /\ request'[q] \in SentRequest
          /\ request'[q].basis = RequestsAfter(-1)[q].basis
          /\ \A p \in Requests \ {q} : request'[p] = RequestsAfter(-1)[p]
      BY <2>4, <2>5, <2>6 DEF SentRequest
    <3> QED BY <2>4, <2>5, <2>6, <3>1
  <2>8. BasesAreCurrent'
    BY <2>7 DEF BasesAreCurrent
  <2>9. NoContext \in ContextState
    BY DEF NoContext, ContextState, Intents
  <2>10. /\ observer' \in [Observers -> ObserverState]
         /\ \A o \in Observers : observer'[o].answer = observer[o].answer
    BY <2>3 DEF IInv, Typed, ObserverState
  <2>11. AnswerIsComplete'
    BY <2>10 DEF IInv, AnswerIsComplete
  <2>12. history' \in Seq(Nat) /\ Len(history') = 0
    BY <2>1
  <2>13. disk' \in [context : ContextState, completed : SUBSET Requests]
    BY <2>1, <2>9 DEF IInv, Typed
  <2>14. epoch' \in Nat
    <3>1. epoch \in Nat
      BY DEF IInv, Typed
    <3>2. epoch' = epoch + 1
      BY <2>3
    <3> QED BY <3>1, <3>2
  <2>15. Typed'
    BY <1>2, <2>1, <2>7, <2>9, <2>10, <2>12, <2>13, <2>14, LimitAssumption
    DEF IInv, Typed
  <2>16. DiskHoldsIntent'
    BY <2>1, <2>9 DEF DiskHoldsIntent, ContextState
  <2>17. Gapless(history, context.revision)'
    BY <2>1, <2>12 DEF Gapless
  <2> QED BY <1>2, <2>8, <2>11, <2>15, <2>16, <2>17 DEF IInv
<1>5. CASE UNCHANGED storeVars
  <2>1. /\ context' = context /\ completed' = completed /\ history' = history
        /\ disk' = disk
    BY <1>5 DEF storeVars
  <2>2. ~Persisted
    BY <2>1 DEF Persisted
  <2>3. Answer(q) /\ UNCHANGED <<observer, epoch>>
    BY <2>2 DEF ApplyDeleteContext
  <2>4. request' \in [Requests -> {Unsent, NoRequest} \cup SentRequest] /\ SameBases
    BY <1>1, <2>3, AnswerKeepsRequests DEF MayApply
  <2>5. BasesAreCurrent'
    <3>1. /\ context.revision \in Nat /\ context' \in ContextState
          /\ disk'.context \in ContextState /\ disk.context.revision \in Nat
      BY <2>1 DEF IInv, Typed, ContextState
    <3> QED BY <2>1, <2>4, <3>1, BasesStayCurrent
  <2>6. Typed'
    BY <1>2, <2>1, <2>3, <2>4 DEF IInv, Typed
  <2>7. DiskHoldsIntent' /\ AnswerIsComplete'
    BY <2>1, <2>3 DEF IInv, DiskHoldsIntent, AnswerIsComplete
  <2>8. Gapless(history, context.revision)'
    BY <2>1 DEF IInv, Gapless
  <2> QED BY <1>2, <2>5, <2>6, <2>7, <2>8 DEF IInv
<1> QED BY <1>4, <1>5

-----------------------------------------------------------------------------
(***************************************************************************)
(* Observers and restarts                                                  *)
(***************************************************************************)
\* An observer changes nothing but itself.
LEMMA ObserverKeeps ==
    ASSUME IInv, NEW o \in Observers, NEW next \in ObserverState,
           observer' = [observer EXCEPT ![o] = next],
           UNCHANGED <<storeVars, request, epoch, applied>>,
           next.answer = observer[o].answer
           \/ (next.answer.kind = "items" =>
                 next.answer.revisions = (next.answer.from + 1) .. next.answer.current)
    PROVE  IInv'
<1>1. UNCHANGED <<context, completed, history, disk, request, epoch, applied>>
  BY DEF storeVars
<1>2. observer \in [Observers -> ObserverState] /\ AnswerIsComplete
  BY DEF IInv, Typed
<1>3. observer' \in [Observers -> ObserverState]
  BY <1>2
<1>4. AnswerIsComplete'
  BY <1>2 DEF AnswerIsComplete
<1>5. Typed'
  BY <1>1, <1>3 DEF IInv, Typed
<1>6. DiskHoldsIntent' /\ AppliedAreCompleted' /\ BasesAreCurrent'
  BY <1>1 DEF IInv, DiskHoldsIntent, AppliedAreCompleted, BasesAreCurrent
<1>7. Gapless(history, context.revision)'
  BY <1>1 DEF IInv, Gapless
<1> QED BY <1>4, <1>5, <1>6, <1>7 DEF IInv

\* The revisions that an observer is given without a gap.
LEMMA ItemsAreComplete ==
    ASSUME IInv, NEW cursor \in Nat, ~HistoryGap(cursor), After(cursor) # {}
    PROVE  /\ After(cursor) = (cursor + 1) .. context.revision
           /\ context.revision \in Nat /\ cursor < context.revision
<1>1. /\ history \in Seq(Nat) /\ Gapless(history, context.revision)
      /\ context.revision \in Nat
  BY DEF IInv, Typed, ContextState
<1>2. history # <<>>
  BY DEF After
<1>3. /\ 1 \in 1..Len(history) /\ history[1] \in Nat /\ history[1] <= cursor + 1
      /\ DOMAIN history = 1..Len(history)
  BY <1>1, <1>2 DEF HistoryGap
<1>4. \A n \in After(cursor) : n \in (cursor + 1) .. context.revision
  BY <1>1, <1>3 DEF After, Gapless
<1>5. \A n \in (cursor + 1) .. context.revision : n \in After(cursor)
  <2> SUFFICES ASSUME NEW n \in (cursor + 1) .. context.revision
               PROVE  n \in After(cursor)
    OBVIOUS
  <2>1. n \in history[1] .. context.revision /\ n > cursor
    BY <1>1, <1>3
  <2>2. PICK i \in 1..Len(history) : history[i] = n
    BY <1>1, <1>2, <2>1 DEF Gapless
  <2> QED BY <1>3, <2>1, <2>2 DEF After
<1>6. After(cursor) = (cursor + 1) .. context.revision
  BY <1>4, <1>5
<1>7. cursor < context.revision
  <2>1. PICK n \in (cursor + 1) .. context.revision : TRUE
    BY <1>6
  <2> QED BY <2>1, <1>1
<1> QED BY <1>1, <1>6, <1>7

\* observe_context answers with the revisions behind the cursor.
LEMMA ObserverFindsItemsKeeps ==
    ASSUME IInv, NEW o \in Observers, ObserverFindsItems(o)
    PROVE  IInv'
<1> DEFINE cursor == observer[o].cursor
           newest == CHOOSE n \in After(cursor) : \A m \in After(cursor) : m <= n
           answer == [kind |-> "items", from |-> cursor, revisions |-> After(cursor),
                      current |-> context.revision, valid |-> observer[o].valid]
           next == [pc |-> "idle", cursor |-> newest, woken |-> observer[o].woken,
                    valid |-> TRUE, answer |-> answer]
<1>1. observer[o] \in ObserverState /\ cursor \in Nat
  BY DEF IInv, Typed, ObserverState
<1>2. ~HistoryGap(cursor) /\ After(cursor) # {}
  BY DEF ObserverFindsItems
<1>3. /\ After(cursor) = (cursor + 1) .. context.revision
      /\ context.revision \in Nat /\ cursor < context.revision
  BY <1>1, <1>2, ItemsAreComplete
<1>4. newest \in Nat
  <2>1. \E n \in After(cursor) : \A m \in After(cursor) : m <= n
    BY <1>1, <1>3
  <2> QED BY <1>1, <1>3, <2>1
<1>5. answer \in Answers
  BY <1>1, <1>3 DEF Answers, ObserverState
<1>6. next \in ObserverState
  BY <1>1, <1>4, <1>5 DEF ObserverState
<1>7. observer' = [observer EXCEPT ![o] = next]
  BY <1>1 DEF ObserverFindsItems, Answered, IInv, Typed, ObserverState
<1>8. next.answer.revisions = (next.answer.from + 1) .. next.answer.current
  BY <1>3
<1>9. UNCHANGED <<storeVars, request, epoch, applied>>
  BY DEF ObserverFindsItems
<1> HIDE DEF next
<1> QED BY <1>6, <1>7, <1>8, <1>9, ObserverKeeps

\* The other steps of a long poll.
LEMMA ObserverStepKeeps ==
    ASSUME IInv, NEW o \in Observers,
           \/ ObserverStarts(o) \/ ObserverSubscribes(o) \/ ObserverTimesOut(o)
           \/ ObserverStep(o)
    PROVE  IInv'
<1> USE DEF ObserverState
<1>0. /\ observer \in [Observers -> ObserverState] /\ observer[o] \in ObserverState
      /\ context.revision \in Nat /\ NoAnswer \in Answers
  BY DEF IInv, Typed, ContextState, Answers
<1>1. CASE ObserverStarts(o)
  <2> DEFINE next == [observer[o] EXCEPT !.pc = "idle", !.cursor = context.revision,
                                         !.valid = TRUE]
  <2>1. next \in ObserverState /\ next.answer = observer[o].answer
    BY <1>0
  <2>2. observer' = [observer EXCEPT ![o] = next]
    BY <1>0, <1>1 DEF ObserverStarts
  <2>3. UNCHANGED <<storeVars, request, epoch, applied>>
    BY <1>1 DEF ObserverStarts
  <2> HIDE DEF next
  <2> QED BY <2>1, <2>2, <2>3, ObserverKeeps
<1>2. CASE ObserverSubscribes(o)
  <2> DEFINE next == [observer[o] EXCEPT !.pc = "checking", !.woken = FALSE,
                                         !.answer = NoAnswer]
  <2>1. next \in ObserverState /\ next.answer.kind # "items"
    BY <1>0 DEF NoAnswer
  <2>2. observer' = [observer EXCEPT ![o] = next]
    BY <1>0, <1>2 DEF ObserverSubscribes
  <2>3. UNCHANGED <<storeVars, request, epoch, applied>>
    BY <1>2 DEF ObserverSubscribes
  <2> HIDE DEF next
  <2> QED BY <2>1, <2>2, <2>3, ObserverKeeps
<1>3. CASE ObserverTimesOut(o)
  <2> DEFINE answer == [kind |-> "timeout", from |-> observer[o].cursor, revisions |-> {},
                        current |-> context.revision, valid |-> observer[o].valid]
             next == [pc |-> "idle", cursor |-> observer[o].cursor,
                      woken |-> observer[o].woken, valid |-> observer[o].valid,
                      answer |-> answer]
  <2>1. answer \in Answers
    BY <1>0 DEF Answers
  <2>2. next \in ObserverState /\ next.answer.kind # "items"
    BY <1>0, <2>1
  <2>3. observer' = [observer EXCEPT ![o] = next]
    BY <1>0, <1>3 DEF ObserverTimesOut, Answered
  <2>4. UNCHANGED <<storeVars, request, epoch, applied>>
    BY <1>3 DEF ObserverTimesOut
  <2> HIDE DEF next
  <2> QED BY <2>2, <2>3, <2>4, ObserverKeeps
<1>4. CASE ObserverFindsNoContext(o)
  <2>1. IdleObserver \in ObserverState /\ IdleObserver.answer.kind # "items"
    BY <1>0 DEF IdleObserver, NoAnswer
  <2> QED BY <1>4, <2>1, ObserverKeeps DEF ObserverFindsNoContext
<1>5. CASE ObserverFindsGap(o)
  <2> DEFINE answer == [kind |-> "gap", from |-> observer[o].cursor, revisions |-> {},
                        current |-> context.revision, valid |-> observer[o].valid]
             next == [pc |-> "idle", cursor |-> context.revision,
                      woken |-> observer[o].woken, valid |-> TRUE, answer |-> answer]
  <2>1. answer \in Answers
    BY <1>0 DEF Answers
  <2>2. next \in ObserverState /\ next.answer.kind # "items"
    BY <1>0, <2>1
  <2>3. observer' = [observer EXCEPT ![o] = next]
    BY <1>0, <1>5 DEF ObserverFindsGap, Answered
  <2>4. UNCHANGED <<storeVars, request, epoch, applied>>
    BY <1>5 DEF ObserverFindsGap
  <2> HIDE DEF next
  <2> QED BY <2>2, <2>3, <2>4, ObserverKeeps
<1>6. CASE ObserverFindsNothing(o)
  <2> DEFINE next == [observer[o] EXCEPT !.pc = "waiting"]
  <2>1. next \in ObserverState /\ next.answer = observer[o].answer
    BY <1>0
  <2>2. observer' = [observer EXCEPT ![o] = next]
    BY <1>0, <1>6 DEF ObserverFindsNothing, Move
  <2>3. UNCHANGED <<storeVars, request, epoch, applied>>
    BY <1>6 DEF ObserverFindsNothing
  <2> HIDE DEF next
  <2> QED BY <2>1, <2>2, <2>3, ObserverKeeps
<1>7. CASE ObserverWakes(o)
  <2> DEFINE next == [observer[o] EXCEPT !.pc = "checking", !.woken = FALSE]
  <2>1. next \in ObserverState /\ next.answer = observer[o].answer
    BY <1>0
  <2>2. observer' = [observer EXCEPT ![o] = next]
    BY <1>0, <1>7 DEF ObserverWakes
  <2>3. UNCHANGED <<storeVars, request, epoch, applied>>
    BY <1>7 DEF ObserverWakes
  <2> HIDE DEF next
  <2> QED BY <2>1, <2>2, <2>3, ObserverKeeps
<1>8. CASE ObserverFindsItems(o)
  BY <1>8, ObserverFindsItemsKeeps
<1> QED BY <1>1, <1>2, <1>3, <1>4, <1>5, <1>6, <1>7, <1>8 DEF ObserverStep

\* The daemon ends and starts again from the state file.
LEMMA RestartKeeps == ASSUME IInv, Restart PROVE IInv'
<1>1. /\ context' = disk.context /\ completed' = disk.completed /\ history' = <<>>
      /\ disk' = disk /\ applied' = applied /\ epoch' = epoch + 1
      /\ request' = RequestsAfter(disk.context.revision)
  BY DEF Restart
<1>2. /\ disk.context \in ContextState /\ disk.completed \subseteq Requests
      /\ disk.context.revision \in Nat /\ epoch \in Nat
  BY DEF IInv, Typed, ContextState
<1>3. \A o \in Observers :
        /\ observer'[o] \in ObserverState
        /\ observer'[o].answer \in {observer[o].answer, NoAnswer}
  <2> SUFFICES ASSUME NEW o \in Observers
               PROVE  /\ observer'[o] \in ObserverState
                      /\ observer'[o].answer \in {observer[o].answer, NoAnswer}
    OBVIOUS
  <2>1. observer[o] \in ObserverState /\ NoAnswer \in Answers
    BY DEF IInv, Typed, Answers
  <2>2. CASE observer[o].pc \in {"new", "absent"}
    BY <2>1, <2>2 DEF Restart
  <2>3. CASE observer[o].pc \notin {"new", "absent"}
    <3> DEFINE valid == observer[o].valid /\ observer[o].cursor <= disk.context.revision
               next == [observer[o] EXCEPT !.pc = "idle", !.woken = FALSE,
                                           !.valid = valid, !.answer = NoAnswer]
    <3>1. observer'[o] = next
      BY <2>1, <2>3 DEF Restart, ObserverState
    <3>2. valid \in BOOLEAN
      BY <2>1 DEF ObserverState
    <3> HIDE DEF valid
    <3>3. next \in ObserverState /\ next.answer = NoAnswer
      BY <2>1, <3>2 DEF ObserverState
    <3> QED BY <3>1, <3>3
  <2> QED BY <2>2, <2>3
<1>4. observer' \in [Observers -> ObserverState]
  BY <1>3 DEF Restart
<1>5. AnswerIsComplete'
  <2>1. NoAnswer.kind # "items"
    BY DEF NoAnswer
  <2> QED BY <1>3, <2>1 DEF IInv, AnswerIsComplete
<1>6. /\ request' \in [Requests -> {Unsent, NoRequest} \cup SentRequest]
      /\ \A q \in Requests : request'[q] \in SentRequest =>
           /\ request[q] \in SentRequest
           /\ request'[q].basis.revision = request[q].basis.revision
           /\ request'[q].basis.breakpoints = request[q].basis.breakpoints
           /\ request'[q].basis.valid =>
                  request[q].basis.valid
                  /\ request[q].basis.revision <= disk.context.revision
  BY <1>1, <1>2, RequestsAfterKeeps
<1>7. BasesAreCurrent'
  BY <1>1, <1>6 DEF IInv, BasesAreCurrent, DiskHoldsIntent
<1>8. history' \in Seq(Nat) /\ Len(history') = 0
  BY <1>1
<1>9. epoch' \in Nat
  BY <1>1, <1>2
<1>10. Typed'
  BY <1>1, <1>2, <1>4, <1>6, <1>8, <1>9, LimitAssumption DEF IInv, Typed
<1>11. DiskHoldsIntent'
  BY <1>1, <1>2 DEF DiskHoldsIntent
<1>12. AppliedAreCompleted'
  BY <1>1 DEF IInv, AppliedAreCompleted, DiskHoldsIntent
<1>13. Gapless(history, context.revision)'
  BY <1>1, <1>8 DEF Gapless
<1> QED BY <1>5, <1>7, <1>10, <1>11, <1>12, <1>13 DEF IInv

-----------------------------------------------------------------------------
\* IInv is inductive.
LEMMA NextKeeps == IInv /\ [Next]_vars => IInv'
<1> SUFFICES ASSUME IInv, [Next]_vars PROVE IInv'
  OBVIOUS
<1>1. CASE PutContext
  BY <1>1, PutContextKeeps
<1>2. CASE RuntimeChange
  BY <1>2, CommitKeeps DEF RuntimeChange
<1>3. CASE Restart
  BY <1>3, RestartKeeps
<1>4. ASSUME NEW b \in Breakpoints, PublishBreakpointApplication(b) PROVE IInv'
  BY <1>4, CommitKeeps DEF PublishBreakpointApplication
<1>5. ASSUME NEW b \in Breakpoints, NEW spec \in Specs, PutBreakpointUnkeyed(b, spec)
      PROVE  IInv'
  BY <1>5, PutUnkeyedKeeps
<1>6. ASSUME NEW q \in Requests, NEW command \in Commands, NEW guarded \in BOOLEAN,
             Send(q, command, guarded)
      PROVE  IInv'
  BY <1>6, SendKeeps
<1>7. ASSUME NEW q \in Requests,
             AnswerWithoutEffect(q) \/ ApplyIntent(q) \/ ApplyDeleteContext(q)
      PROVE  IInv'
  BY <1>7, AnswerWithoutEffectKeeps, ApplyIntentKeeps, DeleteContextKeeps
<1>8. ASSUME NEW o \in Observers,
             \/ ObserverStarts(o) \/ ObserverSubscribes(o) \/ ObserverTimesOut(o)
             \/ ObserverStep(o)
      PROVE  IInv'
  BY <1>8, ObserverStepKeeps
<1>9. CASE UNCHANGED vars
  <2>1. UNCHANGED <<context, completed, history, disk, request, observer, epoch, applied>>
    BY <1>9 DEF vars
  <2>2. Typed'
    BY <2>1 DEF IInv, Typed
  <2>3. DiskHoldsIntent' /\ AppliedAreCompleted' /\ BasesAreCurrent' /\ AnswerIsComplete'
    BY <2>1 DEF IInv, DiskHoldsIntent, AppliedAreCompleted, BasesAreCurrent, AnswerIsComplete
  <2>4. Gapless(history, context.revision)'
    BY <2>1 DEF IInv, Gapless
  <2> QED BY <2>2, <2>3, <2>4 DEF IInv
<1> QED BY <1>1, <1>2, <1>3, <1>4, <1>5, <1>6, <1>7, <1>8, <1>9 DEF Next

\* The inductive invariant holds in every reachable state.
THEOREM Invariance == Spec => []IInv
<1> QED BY InitIsInvariant, NextKeeps, PTL DEF Spec

\* Whatever a client can read of the intent, and the ids of the requests that
\* took effect, are on disk after every step of the handlers.
THEOREM IntentIsDurable == Spec => []DiskHoldsIntent
<1>1. IInv => DiskHoldsIntent
  BY DEF IInv
<1> QED BY <1>1, Invariance, PTL

\* A mutation that is sent again after a lost answer, a failed write or a
\* restart takes effect at most once.
THEOREM RetriesAreIdempotent == Spec => []RequestAppliedOnce
<1>1. IInv => RequestAppliedOnce
  BY DEF IInv, AppliedAreCompleted, RequestAppliedOnce
<1> QED BY <1>1, Invariance, PTL

\* A matching expected revision means that the intent is the one that was read.
THEOREM ExpectedRevisionProtects == Spec => []RevisionNamesOneState
<1>1. IInv => RevisionNamesOneState
  <2> SUFFICES ASSUME IInv, NEW q \in Requests, Pending(q), MayApply(q),
                      request[q].guarded, request[q].basis.valid
               PROVE  request[q].basis.breakpoints = context.breakpoints
    BY DEF RevisionNamesOneState
  <2>1. request[q] \in SentRequest
    BY DEF IInv, Typed, Pending, Unsent, NoRequest
  <2>2. request[q].basis.revision = context.revision
    BY DEF MayApply, RevisionConflict
  <2>3. disk.context.revision <= context.revision
    BY DEF IInv, DiskHoldsIntent
  <2>4. disk.context.revision \in Nat /\ context.revision \in Nat
    BY DEF IInv, Typed, ContextState
  <2> QED BY <2>1, <2>2, <2>3, <2>4 DEF IInv, BasesAreCurrent
<1> QED BY <1>1, Invariance, PTL

\* An observer that is given items is given every revision after its cursor.
THEOREM ObserversMissNothing == Spec => []AnswerIsComplete
<1>1. IInv => AnswerIsComplete
  BY DEF IInv
<1> QED BY <1>1, Invariance, PTL

===============================================================================
