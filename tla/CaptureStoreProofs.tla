-------------------------- MODULE CaptureStoreProofs --------------------------
(***************************************************************************)
(* Proofs about CaptureStore: a pending reservation always has a call that *)
(* works on it, and a heap snapshot the debugger still has to take keeps   *)
(* its name; generated names are given once; a completed reservation keeps *)
(* its payload; and an entry of the catalog is left without its payload by *)
(* two races only.                                                         *)
(***************************************************************************)
EXTENDS CaptureStore, FiniteSetTheorems, FunctionTheorems, SequenceTheorems, TLAPS

\* The call may hold a pending reservation.
Working == {"capturing", "captured", "copying", "copied", "discarding", "abandoning",
            "storing", "writing", "completing", "retaining", "cleanup", "scratching",
            "releasing"}

\* The call still has the storage of its own reservation.
Owning == Working \cup {"uncapturing"}

\* The debugger may still have to take the call's snapshot.
Holding == {"capturing", "cleanup", "scratching"}

CallPcs == Owning \cup {"never", "idle", "reserving", "rejoining", "loading", "committing"}
DeletionPcs == {"never", "idle", "erasing", "removing", "forgetting", "restoring"}

Entries == [storage : Nat, generation : Nat]
Reservations == [storage : Nat, generation : Nat, kind : Kinds, completed : BOOLEAN,
                 deleting : BOOLEAN]
CallRecords == [pc : CallPcs, name : Names, automatic : BOOLEAN, storage : Nat,
                generation : Nat, handle : Nat, cancelled : BOOLEAN]
Deletions == [pc : DeletionPcs, name : Names, storage : Nat, retained : BOOLEAN]
Commands == [op : {"capture", "copy", "delete"}, name : Names, storage : Nat, by : Actors,
             pc : Waiting \cup {"erasing"}]

\* Functions from some names to members of T.
Named(T) == UNION {[N -> T] : N \in SUBSET Names}
Catalogs == [captures : Named(Entries), nextId : Nat]

Typed ==
    /\ catalog \in Catalogs
    /\ disk \in Catalogs
    /\ reservations \in Named(Reservations)
    /\ call \in [Calls -> CallRecords]
    /\ deletion \in [Actors -> Deletions]
    /\ generation \in Nat
    /\ live \in BOOLEAN
    /\ connects \in Nat
    /\ debugger \in Nat
    /\ inbox \in Seq(Commands)
    /\ nextStorage \in Nat

\* No two calls have the storage of one reservation.
StorageIsOwn ==
    /\ \A c \in Calls : call[c].pc \in Owning => call[c].storage < nextStorage
    /\ \A c, o \in Calls :
          /\ call[c].pc \in Owning
          /\ call[o].pc \in Owning
          /\ call[c].storage = call[o].storage
          => c = o

\* A pending reservation has its call.
PendingHasCall ==
    \A n \in DOMAIN reservations :
       /\ reservations[n].storage < nextStorage
       /\ \/ reservations[n].completed
          \/ \E c \in Calls : /\ call[c].pc \in Working
                              /\ call[c].name = n
                              /\ call[c].storage = reservations[n].storage

\* What a deletion removes from the reservations is completed.
Harmless(d) ==
    /\ d.pc = "forgetting" => d.retained
    /\ d.retained =>
          /\ d.storage < nextStorage
          /\ (d.name \in DOMAIN reservations /\ reservations[d.name].storage = d.storage)
                => reservations[d.name].completed

DeletesCompleted == \A a \in Actors : Harmless(deletion[a])

\* The command that takes a capture comes before the other commands of its call.
CaptureComesFirst ==
    /\ \A i \in 1..Len(inbox) :
          /\ inbox[i].op = "capture" => inbox[i].pc # "erasing"
          /\ inbox[i].pc # "erasing" =>
                /\ inbox[i].by \in Calls
                /\ inbox[i].storage < nextStorage
    /\ \A i, j \in 1..Len(inbox) :
          /\ inbox[i].op = "capture"
          /\ inbox[j].pc # "erasing"
          /\ inbox[j].storage = inbox[i].storage
          => i <= j

\* Only a debugger that runs has commands, and only a connected target has one.
DebuggerOfConnect ==
    /\ debugger = 0 => Len(inbox) = 0
    /\ live => connects # 0
    /\ \A c \in Calls : call[c].pc \in Owning \cup {"reserving"} => call[c].handle # 0

\* The call of a snapshot to be taken waits for it, or for the debugger to forget it.
SnapshotHasCall ==
    live => \A i \in 1..Len(inbox) :
               inbox[i].op = "capture" /\ inbox[i].by \in HeapCalls =>
                  LET c == inbox[i].by IN
                  /\ call[c].pc \in Holding
                  /\ call[c].handle = debugger
                  /\ call[c].name = inbox[i].name
                  /\ call[c].storage = inbox[i].storage
                  /\ Pending(c)

Related == /\ StorageIsOwn /\ PendingHasCall /\ DeletesCompleted
           /\ CaptureComesFirst /\ DebuggerOfConnect /\ SnapshotHasCall
IInv == Typed /\ Related

\* A function of names to members of T, seen as one on its domain.
LEMMA NamedShape ==
    ASSUME NEW T, NEW f
    PROVE  f \in Named(T) <=> DOMAIN f \subseteq Names /\ f \in [DOMAIN f -> T]
  BY DEF Named

\* A map by names yields members of its range.
LEMMA NamedMember == ASSUME NEW T, NEW f \in Named(T), NEW n \in DOMAIN f PROVE f[n] \in T
  BY NamedShape

\* The empty map is a map by names.
LEMMA NamedEmpty ==
    ASSUME NEW T
    PROVE  /\ <<>> \in Named(T)
           /\ DOMAIN <<>> = {}
  <1>1. <<>> \in Seq(T) /\ Len(<<>>) = 0
    BY EmptySeq
  <1>2. DOMAIN <<>> = {} /\ <<>> \in [{} -> T]
    BY <1>1, LenProperties
  <1> QED  BY <1>2, NamedShape

\* The reservations after a step that removes one, adds one or changes one.
LEMMA ReservationRemoved ==
    ASSUME reservations \in Named(Reservations), NEW n,
           reservations' = Without(reservations, n)
    PROVE  /\ reservations' \in Named(Reservations)
           /\ DOMAIN reservations' = DOMAIN reservations \ {n}
           /\ \A m \in DOMAIN reservations' : reservations'[m] = reservations[m]
  BY NamedShape DEF Without, Restrict

\* What recording one reservation changes.
LEMMA ReservationAdded ==
    ASSUME reservations \in Named(Reservations), NEW n \in Names, NEW r \in Reservations,
           reservations' = With(reservations, n, r)
    PROVE  /\ reservations' \in Named(Reservations)
           /\ DOMAIN reservations' = DOMAIN reservations \cup {n}
           /\ reservations'[n] = r
           /\ \A m \in DOMAIN reservations \ {n} : reservations'[m] = reservations[m]
  BY NamedShape DEF With

\* A call goes on with its reservation.
LEMMA CallGoesOn ==
    ASSUME IInv, NEW c \in Calls, NEW new \in CallRecords,
           new.name = call[c].name, new.storage = call[c].storage,
           new.handle = call[c].handle,
           call[c].pc \in Owning, new.pc \in Owning,
           call[c].pc \in Working => new.pc \in Working,
           /\ c \in HeapCalls
           /\ call[c].pc \in Holding
           /\ call[c].handle = debugger
           => new.pc \in Holding,
           call' = [call EXCEPT ![c] = new],
           UNCHANGED <<catalog, disk, reservations, deletion, generation, live, connects,
                       debugger, inbox, nextStorage>>
    PROVE  IInv'
  <1> USE DEF IInv, Related
  <1>1. Typed'
    BY DEF Typed
  <1>2. /\ \A o \in Calls \ {c} : call'[o] = call[o]
        /\ call'[c] = new
    BY DEF Typed
  <1>3. StorageIsOwn'
    BY <1>2 DEF StorageIsOwn
  <1>4. PendingHasCall'
    BY <1>2 DEF PendingHasCall
  <1>5. DeletesCompleted'
    BY DEF DeletesCompleted, Harmless
  <1>6. CaptureComesFirst'
    BY DEF CaptureComesFirst
  <1>7. DebuggerOfConnect'
    BY <1>2 DEF DebuggerOfConnect
  <1>8. SnapshotHasCall'
    BY <1>2 DEF SnapshotHasCall, CaptureComesFirst, Pending, Held
  <1> QED  BY <1>1, <1>3, <1>4, <1>5, <1>6, <1>7, <1>8

\* A call after a move to another step.
LEMMA CallAt ==
    ASSUME call \in [Calls -> CallRecords], NEW c \in Calls, NEW pc \in CallPcs
    PROVE  /\ [call[c] EXCEPT !.pc = pc] \in CallRecords
           /\ [call EXCEPT ![c].pc = pc] = [call EXCEPT ![c] = [call[c] EXCEPT !.pc = pc]]
           /\ [call EXCEPT ![c].pc = pc] \in [Calls -> CallRecords]
           /\ [call[c] EXCEPT !.pc = pc].pc = pc
           /\ [call[c] EXCEPT !.pc = pc].name = call[c].name
           /\ [call[c] EXCEPT !.pc = pc].storage = call[c].storage
           /\ [call[c] EXCEPT !.pc = pc].handle = call[c].handle
           /\ [call[c] EXCEPT !.pc = pc].generation = call[c].generation
  BY DEF CallRecords

\* The sequence of commands after one more.
LEMMA Sent ==
    ASSUME NEW S, NEW s \in Seq(S), NEW e \in S
    PROVE  /\ Append(s, e) \in Seq(S)
           /\ Len(Append(s, e)) = Len(s) + 1
           /\ Len(s) \in Nat
           /\ Append(s, e)[Len(s) + 1] = e
           /\ \A i \in 1..Len(s) : Append(s, e)[i] = s[i]
  BY AppendProperties, LenProperties

\* A call goes on and sends its debugger a command about its capture.
LEMMA CallSends ==
    ASSUME IInv, NEW c \in Calls, NEW op \in {"copy", "delete"}, NEW pc \in Waiting,
           call[c].pc \in Working, call[c].pc \in Holding => pc \in Holding,
           debugger = call[c].handle,
           call' = [call EXCEPT ![c].pc = pc],
           inbox' = Append(inbox, Command(op, call[c].name, call[c].storage, c, pc)),
           UNCHANGED <<catalog, disk, reservations, deletion, generation, live, connects,
                       debugger, nextStorage>>
    PROVE  IInv'
  <1> USE DEF IInv, Related
  <1> DEFINE cmd == Command(op, call[c].name, call[c].storage, c, pc)
  <1>1. cmd \in Commands /\ cmd.op = op /\ cmd.pc = pc /\ cmd.by = c
        /\ cmd.storage = call[c].storage /\ pc # "erasing" /\ pc \in Working
    BY DEF Typed, CallRecords, Command, Commands, Actors, Waiting, Working
  <1>2. Typed /\ inbox \in Seq(Commands)
    BY DEF Typed
  <1> HIDE DEF cmd
  <1>3. /\ inbox' \in Seq(Commands)
        /\ Len(inbox') = Len(inbox) + 1 /\ Len(inbox) \in Nat
        /\ inbox'[Len(inbox) + 1] = cmd
        /\ \A i \in 1..Len(inbox) : inbox'[i] = inbox[i]
    BY <1>1, <1>2, Sent DEF cmd
  <1>4. call' \in [Calls -> CallRecords]
    <2>1. pc \in CallPcs
      BY DEF CallPcs, Waiting, Owning, Working
    <2>2. call \in [Calls -> CallRecords]
      BY DEF Typed
    <2> QED  BY <2>1, <2>2, CallAt
  <1>5a. Typed'
    BY <1>2, <1>3, <1>4 DEF Typed
  <1>5. /\ \A o \in Calls \ {c} : call'[o] = call[o]
        /\ call'[c] = [call[c] EXCEPT !.pc = pc]
    BY DEF Typed
  <1>6. /\ call'[c].pc = pc
        /\ call'[c].name = call[c].name /\ call'[c].storage = call[c].storage
        /\ call'[c].handle = call[c].handle
    BY <1>5, <1>2 DEF Typed, CallRecords
  <1>7. StorageIsOwn'
    BY <1>1, <1>5, <1>6 DEF StorageIsOwn, Owning
  <1>8. PendingHasCall'
    BY <1>1, <1>5, <1>6 DEF PendingHasCall
  <1>9. DeletesCompleted'
    BY DEF DeletesCompleted, Harmless
  <1>10. CaptureComesFirst'
    BY <1>1, <1>3, <1>2 DEF CaptureComesFirst, StorageIsOwn, Owning
  <1>11. DebuggerOfConnect'
    BY <1>1, <1>5, <1>6, <1>3 DEF DebuggerOfConnect, Owning
  <1>12. SnapshotHasCall'
    BY <1>1, <1>5, <1>6, <1>3 DEF SnapshotHasCall, CaptureComesFirst, Pending, Held
  <1> QED  BY <1>5a, <1>7, <1>8, <1>9, <1>10, <1>11, <1>12

\* A call that has no reservation moves.
LEMMA CallMoves ==
    ASSUME IInv, NEW c \in Calls, NEW new \in CallRecords,
           call[c].pc \notin Owning, new.pc \notin Owning,
           new.pc = "reserving" => new.handle # 0,
           call' = [call EXCEPT ![c] = new],
           UNCHANGED <<catalog, disk, reservations, deletion, generation, live, connects,
                       debugger, inbox, nextStorage>>
    PROVE  IInv'
  <1> USE DEF IInv, Related
  <1>1. Typed'
    BY DEF Typed
  <1>2. /\ \A o \in Calls \ {c} : call'[o] = call[o]
        /\ call'[c] = new
    BY DEF Typed
  <1>3. StorageIsOwn'
    BY <1>2 DEF StorageIsOwn
  <1>4. PendingHasCall'
    BY <1>2 DEF PendingHasCall, Owning
  <1>5. DeletesCompleted'
    BY DEF DeletesCompleted, Harmless
  <1>6. CaptureComesFirst'
    BY DEF CaptureComesFirst
  <1>7. DebuggerOfConnect'
    BY <1>2 DEF DebuggerOfConnect
  <1>8. SnapshotHasCall'
    BY <1>2 DEF SnapshotHasCall, CaptureComesFirst, Pending, Held, Owning, Working, Holding
  <1> QED  BY <1>1, <1>3, <1>4, <1>5, <1>6, <1>7, <1>8

\* A call lets go of its reservation, or finds that it has none any more.
LEMMA CallLetsGo ==
    ASSUME IInv, NEW c \in Calls, NEW new \in CallRecords,
           new.pc \notin Working \cup {"reserving"},
           new.pc = "uncapturing" => /\ call[c].pc \in Owning
                                     /\ new.storage = call[c].storage
                                     /\ new.handle = call[c].handle,
           \/ /\ call[c].pc \in Working => ~Pending(c)
              /\ reservations' = reservations
           \/ /\ Completed(c) \/ (Held(c) /\ call[c].pc \in Owning \ Holding)
              /\ reservations' = Without(reservations, call[c].name),
           call' = [call EXCEPT ![c] = new],
           catalog' \in Catalogs, disk' \in Catalogs,
           UNCHANGED <<deletion, generation, live, connects, debugger, inbox, nextStorage>>
    PROVE  IInv'
  <1> USE DEF IInv, Related
  <1> DEFINE Keeps == /\ call[c].pc \in Working => ~Pending(c)
                      /\ reservations' = reservations
             Removes == /\ Completed(c) \/ (Held(c) /\ call[c].pc \in Owning \ Holding)
                        /\ reservations' = Without(reservations, call[c].name)
  <1>0. Keeps \/ Removes
    OBVIOUS
  <1>r. reservations \in Named(Reservations)
    BY DEF Typed
  <1>w. Removes => /\ reservations' \in Named(Reservations)
                   /\ DOMAIN reservations' = DOMAIN reservations \ {call[c].name}
                   /\ \A n \in DOMAIN reservations' : reservations'[n] = reservations[n]
    BY <1>r, ReservationRemoved
  <1>1. /\ reservations' \in Named(Reservations)
        /\ DOMAIN reservations' \subseteq DOMAIN reservations
        /\ \A n \in DOMAIN reservations' : reservations'[n] = reservations[n]
    BY <1>0, <1>r, <1>w
  <1>2. Typed'
    BY <1>1 DEF Typed
  <1>3. /\ \A o \in Calls \ {c} : call'[o] = call[o]
        /\ call'[c] = new
    BY DEF Typed
  <1>4. StorageIsOwn'
    BY <1>3 DEF StorageIsOwn, Owning
  <1>5. \A n \in DOMAIN reservations' :
           ~reservations[n].completed => \/ n # call[c].name
                                         \/ reservations[n].storage # call[c].storage
                                         \/ call[c].pc \notin Working
    BY <1>0, <1>w DEF Pending, Held
  <1>6. PendingHasCall'
    BY <1>1, <1>3, <1>5 DEF PendingHasCall
  <1>7. DeletesCompleted'
    BY <1>1 DEF DeletesCompleted, Harmless
  <1>8. CaptureComesFirst'
    BY DEF CaptureComesFirst
  <1>9. DebuggerOfConnect'
    BY <1>3 DEF DebuggerOfConnect, Owning
  <1>10. SnapshotHasCall'
    <2> SUFFICES ASSUME live, NEW i \in 1..Len(inbox), inbox[i].op = "capture",
                        inbox[i].by \in HeapCalls, NEW o, o = inbox[i].by
                 PROVE  /\ o \in Calls \ {c}
                        /\ call[o].name \in DOMAIN reservations'
      BY <1>1, <1>3 DEF SnapshotHasCall, CaptureComesFirst, Pending, Held
    <2>1. /\ o \in Calls /\ call[o].pc \in Holding /\ Pending(o)
          /\ call[o].pc \in Working
      BY DEF SnapshotHasCall, CaptureComesFirst, Holding, Working
    <2>2. o # c
      BY <1>0, <2>1 DEF Pending, Completed, Held
    <2>3. CASE Keeps
      BY <2>1, <2>2, <2>3 DEF Pending, Held
    <2>4. CASE Removes
      <3>1. call[o].name # call[c].name
        BY <2>1, <2>2, <2>4 DEF Pending, Completed, Held, StorageIsOwn, Owning
      <3> QED  BY <1>w, <2>1, <2>2, <2>4, <3>1 DEF Pending, Held
    <2> QED  BY <1>0, <2>3, <2>4
  <1> QED  BY <1>2, <1>4, <1>6, <1>7, <1>8, <1>9, <1>10

\* The call reserves a name that is free and may ask the debugger for the capture.
LEMMA CallReserves ==
    ASSUME IInv, live, NEW c \in Calls, NEW n \in Names \ DOMAIN reservations,
           NEW new \in CallRecords,
           new.name = n, new.storage = nextStorage, new.handle = call[c].handle,
           call[c].pc = "reserving",
           \/ /\ new.pc = "capturing"
              /\ debugger = call[c].handle
              /\ inbox' = Append(inbox, Command("capture", n, nextStorage, c, "capturing"))
           \/ new.pc = "abandoning" /\ inbox' = inbox,
           call' = [call EXCEPT ![c] = new],
           NEW r \in Reservations, r.storage = nextStorage, ~r.completed,
           reservations' = With(reservations, n, r),
           nextStorage' = nextStorage + 1,
           catalog' \in Catalogs, disk' \in Catalogs,
           UNCHANGED <<deletion, generation, live, connects, debugger>>
    PROVE  IInv'
  <1> USE DEF IInv, Related
  <1> DEFINE cmd == Command("capture", n, nextStorage, c, "capturing")
             asked == /\ new.pc = "capturing"
                      /\ debugger = call[c].handle
                      /\ inbox' = Append(inbox, cmd)
  <1>1. Typed /\ inbox \in Seq(Commands) /\ nextStorage \in Nat
        /\ reservations \in Named(Reservations) /\ call \in [Calls -> CallRecords]
    BY DEF Typed
  <1>2. /\ cmd \in Commands /\ cmd.op = "capture" /\ cmd.pc = "capturing"
        /\ cmd.by = c /\ cmd.name = n /\ cmd.storage = nextStorage
    BY <1>1 DEF Command, Commands, Actors, Waiting
  <1>3. asked \/ (new.pc = "abandoning" /\ inbox' = inbox)
    OBVIOUS
  <1> HIDE DEF cmd
  <1>4. /\ inbox' \in Seq(Commands)
        /\ Len(inbox) \in Nat /\ Len(inbox') \in Nat /\ Len(inbox') >= Len(inbox)
        /\ \A i \in 1..Len(inbox') :
              \/ i \in 1..Len(inbox) /\ inbox'[i] = inbox[i]
              \/ /\ i = Len(inbox) + 1 /\ inbox'[i] = cmd
                 /\ new.pc = "capturing" /\ debugger = call[c].handle
    <2>1. CASE asked
      <3>1. /\ Append(inbox, cmd) \in Seq(Commands)
            /\ Len(Append(inbox, cmd)) = Len(inbox) + 1
            /\ Len(inbox) \in Nat
            /\ Append(inbox, cmd)[Len(inbox) + 1] = cmd
            /\ \A i \in 1..Len(inbox) : Append(inbox, cmd)[i] = inbox[i]
        BY <1>1, <1>2, Sent
      <3> QED  BY <2>1, <3>1
    <2>2. CASE inbox' = inbox
      BY <1>1, <2>2, LenProperties
    <2> QED  BY <1>3, <2>1, <2>2
  <1>6. /\ reservations' \in Named(Reservations)
        /\ DOMAIN reservations' = DOMAIN reservations \cup {n}
        /\ reservations'[n] = r
        /\ \A m \in DOMAIN reservations \ {n} : reservations'[m] = reservations[m]
    <2>1. n \in Names /\ reservations \in Named(Reservations)
      BY <1>1
    <2> QED  BY <2>1, ReservationAdded
  <1>7. Typed'
    BY <1>1, <1>4, <1>6 DEF Typed
  <1>8. /\ \A o \in Calls \ {c} : call'[o] = call[o]
        /\ call'[c] = new
        /\ new.pc \in Working
    BY <1>1, <1>3 DEF Working
  <1>9. StorageIsOwn'
    <2>1. \A o \in Calls \ {c} : call[o].pc \in Owning => call[o].storage \in Nat
      BY <1>1 DEF CallRecords
    <2> QED  BY <1>1, <1>8, <2>1 DEF StorageIsOwn
  <1>10. PendingHasCall'
    <2>1. \A m \in DOMAIN reservations : reservations[m].storage \in Nat
      <3>1. \A m \in DOMAIN reservations : reservations[m] \in Reservations
        BY <1>1, NamedMember
      <3> QED  BY <3>1 DEF Reservations
    <2>3. c # c \/ call[c].pc \notin Working
      BY DEF Working
    <2>4. \A m \in DOMAIN reservations : reservations'[m] = reservations[m]
      BY <1>6
    <2>5. \A m \in DOMAIN reservations : reservations[m].storage < nextStorage + 1
      BY <1>1, <2>1 DEF PendingHasCall
    <2>6. \A m \in DOMAIN reservations :
             \/ reservations[m].completed
             \/ \E o \in Calls : /\ call'[o].pc \in Working
                                 /\ call'[o].name = m
                                 /\ call'[o].storage = reservations[m].storage
      BY <1>8, <2>3 DEF PendingHasCall
    <2> QED  BY <1>1, <1>6, <1>8, <2>4, <2>5, <2>6 DEF PendingHasCall
  <1>11. DeletesCompleted'
    <2>1. \A a \in Actors : deletion[a].storage \in Nat
      BY DEF Typed, Deletions
    <2>3. \A m \in DOMAIN reservations : reservations'[m] = reservations[m]
      BY <1>6
    <2> QED  BY <1>1, <1>6, <2>1, <2>3 DEF DeletesCompleted, Harmless
  <1>12. \A i \in 1..Len(inbox) : inbox[i].storage \in Nat
    <2>1. \A i \in 1..Len(inbox) : inbox[i] \in Commands
      BY <1>1, ElementOfSeq
    <2> QED  BY <2>1 DEF Commands
  <1>13. CaptureComesFirst'
    <2>1. \A i \in 1..Len(inbox') :
             /\ inbox'[i].op = "capture" => inbox'[i].pc # "erasing"
             /\ inbox'[i].pc # "erasing" =>
                   /\ inbox'[i].by \in Calls
                   /\ inbox'[i].storage < nextStorage + 1
      BY <1>1, <1>2, <1>4, <1>12 DEF CaptureComesFirst
    <2>2. SUFFICES ASSUME NEW i \in 1..Len(inbox'), NEW j \in 1..Len(inbox'),
                          inbox'[i].op = "capture", inbox'[j].pc # "erasing",
                          inbox'[j].storage = inbox'[i].storage
                   PROVE  i <= j
      BY <2>1 DEF CaptureComesFirst
    <2>3. CASE i \in 1..Len(inbox) /\ j \in 1..Len(inbox)
      BY <1>4, <2>2, <2>3 DEF CaptureComesFirst
    <2>4. CASE i \in 1..Len(inbox) /\ j = Len(inbox) + 1
      BY <1>4, <2>4
    <2>5. CASE i = Len(inbox) + 1 /\ j \in 1..Len(inbox)
      <3>1. inbox'[i].storage = nextStorage
        BY <1>2, <1>4, <2>5
      <3>2. inbox'[j].storage < nextStorage /\ inbox'[j].storage \in Nat
        BY <1>4, <1>12, <2>2, <2>5 DEF CaptureComesFirst
      <3> QED  BY <1>1, <2>2, <3>1, <3>2
    <2>6. CASE i = Len(inbox) + 1 /\ j = Len(inbox) + 1
      BY <1>4, <2>6
    <2> QED  BY <1>4, <2>3, <2>4, <2>5, <2>6
  <1>14. DebuggerOfConnect'
    <2>1. call[c].handle # 0
      BY DEF DebuggerOfConnect
    <2>2. Len(inbox') = 0 \/ debugger # 0
      <3>1. CASE asked
        BY <2>1, <3>1
      <3>2. CASE inbox' = inbox
        BY <3>2 DEF DebuggerOfConnect
      <3> QED  BY <1>3, <3>1, <3>2
    <2> QED  BY <1>8, <2>1, <2>2 DEF DebuggerOfConnect
  <1>15. SnapshotHasCall'
    <2> SUFFICES ASSUME NEW i \in 1..Len(inbox'), inbox'[i].op = "capture",
                        inbox'[i].by \in HeapCalls, NEW o, o = inbox'[i].by
                 PROVE  /\ call'[o].pc \in Holding
                        /\ call'[o].handle = debugger
                        /\ call'[o].name = inbox'[i].name
                        /\ call'[o].storage = inbox'[i].storage
                        /\ Pending(o)'
      BY DEF SnapshotHasCall
    <2>1. CASE i \in 1..Len(inbox) /\ inbox'[i] = inbox[i]
      <3>1. /\ call[o].pc \in Holding
            /\ call[o].handle = debugger
            /\ call[o].name = inbox[i].name
            /\ call[o].storage = inbox[i].storage
            /\ Pending(o) /\ o \in Calls
        BY <2>1 DEF SnapshotHasCall, CaptureComesFirst
      <3>2. o # c
        BY <3>1 DEF Holding
      <3> QED  BY <1>6, <1>8, <2>1, <3>1, <3>2 DEF Pending, Held
    <2>2. CASE i = Len(inbox) + 1 /\ inbox'[i] = cmd /\ new.pc = "capturing"
               /\ debugger = call[c].handle
      <3> QED  BY <1>2, <1>6, <1>8, <2>2 DEF Pending, Held, Holding
    <2> QED  BY <1>4, <2>1, <2>2
  <1> QED  BY <1>7, <1>9, <1>10, <1>11, <1>13, <1>14, <1>15

\* A call keeps its reservation as completed.
LEMMA CallCompletes ==
    ASSUME IInv, NEW c \in Calls, NEW pc \in {"retaining", "cleanup"},
           call[c].pc = "completing", Held(c),
           call' = [call EXCEPT ![c].pc = pc],
           reservations' = [reservations EXCEPT ![call[c].name].completed = TRUE],
           UNCHANGED <<catalog, disk, deletion, generation, live, connects, debugger, inbox,
                       nextStorage>>
    PROVE  IInv'
  <1> USE DEF IInv, Related
  <1>1. call \in [Calls -> CallRecords] /\ reservations \in Named(Reservations)
    BY DEF Typed
  <1>2. pc \in CallPcs /\ pc \in Working /\ call[c].pc \in Working
    BY DEF CallPcs, Owning, Working
  <1>3. /\ call' \in [Calls -> CallRecords]
        /\ call'[c].pc = pc
        /\ call'[c].name = call[c].name /\ call'[c].storage = call[c].storage
        /\ call'[c].handle = call[c].handle
        /\ \A o \in Calls \ {c} : call'[o] = call[o]
    BY <1>1, <1>2, CallAt
  <1>4. call[c].name \in DOMAIN reservations
        /\ reservations[call[c].name].storage = call[c].storage
    BY DEF Held
  <1>5. \A m \in DOMAIN reservations : reservations[m] \in Reservations
    BY <1>1, NamedMember
  <1>6. /\ DOMAIN reservations' = DOMAIN reservations
        /\ \A m \in DOMAIN reservations :
              /\ reservations'[m] \in Reservations
              /\ reservations'[m].storage = reservations[m].storage
              /\ reservations[m].completed => reservations'[m].completed
        /\ \A m \in DOMAIN reservations \ {call[c].name} : reservations'[m] = reservations[m]
        /\ reservations'[call[c].name].completed
    BY <1>4, <1>5 DEF Reservations
  <1>7. reservations' \in Named(Reservations)
    BY <1>1, <1>4, <1>5, <1>6, NamedShape
  <1>8. Typed'
    BY <1>3, <1>7 DEF Typed
  <1>9. StorageIsOwn'
    BY <1>2, <1>3 DEF StorageIsOwn, Owning
  <1>10. PendingHasCall'
    BY <1>2, <1>3, <1>6 DEF PendingHasCall
  <1>11. DeletesCompleted'
    BY <1>6 DEF DeletesCompleted, Harmless
  <1>12. CaptureComesFirst'
    BY DEF CaptureComesFirst
  <1>13. DebuggerOfConnect'
    BY <1>2, <1>3 DEF DebuggerOfConnect, Owning
  <1>14. SnapshotHasCall'
    <2> SUFFICES ASSUME live, NEW i \in 1..Len(inbox), inbox[i].op = "capture",
                        inbox[i].by \in HeapCalls, NEW o, o = inbox[i].by
                 PROVE  o \in Calls \ {c} /\ call[o].name # call[c].name
      BY <1>3, <1>6 DEF SnapshotHasCall, CaptureComesFirst, Pending, Held
    <2>1. /\ o \in Calls /\ call[o].pc \in Holding /\ Pending(o)
          /\ call[o].pc \in Working
      BY DEF SnapshotHasCall, CaptureComesFirst, Holding, Working
    <2>2. o # c
      BY <2>1 DEF Holding
    <2> QED  BY <1>2, <1>4, <2>1, <2>2 DEF Pending, Held, StorageIsOwn, Owning
  <1> QED  BY <1>8, <1>9, <1>10, <1>11, <1>12, <1>13, <1>14

\* Only completed reservations go; the others may change their mark.
PendingStay ==
    /\ reservations' \in Named(Reservations)
    /\ DOMAIN reservations' \subseteq DOMAIN reservations
    /\ \A n \in DOMAIN reservations' :
          /\ reservations'[n].storage = reservations[n].storage
          /\ reservations'[n].completed = reservations[n].completed
    /\ \A n \in DOMAIN reservations \ DOMAIN reservations' : reservations[n].completed

\* Only calls without a reservation return.
WorkersStay ==
    /\ call' \in [Calls -> CallRecords]
    /\ \A o \in Calls : \/ call'[o] = call[o]
                        \/ call[o].pc \notin Working /\ call'[o].pc = "idle"

\* The debugger is asked to forget a name, or nothing.
AsksToForget ==
    \/ inbox' = inbox
    \/ \E cmd \in Commands : /\ cmd.op = "delete"
                            /\ cmd.pc = "erasing"
                            /\ debugger # 0
                            /\ inbox' = Append(inbox, cmd)

\* A deletion moves.
LEMMA DeletionMoves ==
    ASSUME IInv, NEW a \in Actors, NEW d \in Deletions, Harmless(d),
           deletion' = [deletion EXCEPT ![a] = d],
           PendingStay, WorkersStay, AsksToForget,
           catalog' \in Catalogs, disk' \in Catalogs,
           UNCHANGED <<generation, live, connects, debugger, nextStorage>>
    PROVE  IInv'
  <1> USE DEF IInv, Related, PendingStay, WorkersStay, AsksToForget
  <1>1. inbox \in Seq(Commands) /\ deletion \in [Actors -> Deletions]
    BY DEF Typed
  <1>2. /\ inbox' \in Seq(Commands)
        /\ Len(inbox) \in Nat /\ Len(inbox') \in Nat /\ Len(inbox') >= Len(inbox)
        /\ \A i \in 1..Len(inbox') :
              \/ i \in 1..Len(inbox) /\ inbox'[i] = inbox[i]
              \/ /\ i = Len(inbox) + 1
                 /\ inbox'[i].op = "delete" /\ inbox'[i].pc = "erasing"
        /\ Len(inbox') = 0 \/ debugger # 0
    <2>1. CASE inbox' = inbox
      BY <1>1, <2>1, LenProperties DEF DebuggerOfConnect
    <2>2. ASSUME NEW cmd \in Commands, cmd.op = "delete", cmd.pc = "erasing",
                 debugger # 0, inbox' = Append(inbox, cmd)
          PROVE  <1>2!:
      BY <1>1, <2>2, Sent
    <2> QED  BY <2>1, <2>2
  <1>3. Typed'
    BY <1>1, <1>2 DEF Typed
  <1>4. /\ \A o \in Actors \ {a} : deletion'[o] = deletion[o]
        /\ deletion'[a] = d
    BY <1>1
  <1>5. \A o \in Calls : call'[o].pc \in Owning \cup {"reserving"} => call'[o] = call[o]
    BY DEF Owning, Working
  <1>6. \A o \in Calls : call[o].pc \in Working => call'[o] = call[o]
    OBVIOUS
  <1>7. StorageIsOwn'
    BY <1>5 DEF StorageIsOwn
  <1>8. PendingHasCall'
    BY <1>6 DEF PendingHasCall
  <1>9. DeletesCompleted'
    BY <1>4 DEF DeletesCompleted, Harmless
  <1>10. CaptureComesFirst'
    BY <1>2 DEF CaptureComesFirst
  <1>11. DebuggerOfConnect'
    BY <1>2, <1>5 DEF DebuggerOfConnect
  <1>12. SnapshotHasCall'
    <2> SUFFICES ASSUME live, NEW i \in 1..Len(inbox), inbox'[i] = inbox[i],
                        inbox[i].op = "capture",
                        inbox[i].by \in HeapCalls, NEW o, o = inbox[i].by
                 PROVE  /\ call'[o].pc \in Holding
                        /\ call'[o].handle = debugger
                        /\ call'[o].name = inbox[i].name
                        /\ call'[o].storage = inbox[i].storage
                        /\ Pending(o)'
      BY <1>2 DEF SnapshotHasCall
    <2>1. /\ o \in Calls /\ call[o].pc \in Holding /\ Pending(o)
          /\ call[o].pc \in Working
      BY DEF SnapshotHasCall, CaptureComesFirst, Holding, Working
    <2> QED  BY <1>6, <2>1 DEF SnapshotHasCall, Pending, Held
  <1> QED  BY <1>3, <1>7, <1>8, <1>9, <1>10, <1>11, <1>12

\* The context, the connection or the process changes, and all calls go on.
LEMMA WorldMoves ==
    ASSUME IInv,
           catalog' \in Catalogs, disk' \in Catalogs,
           generation' \in Nat, connects' \in Nat, debugger' \in Nat, live' \in BOOLEAN,
           reservations' = reservations \/ reservations' = <<>>,
           debugger' = 0 => Len(inbox) = 0,
           live' => connects' # 0,
           live' => \/ live /\ debugger' = debugger /\ reservations' = reservations
                    \/ Len(inbox) = 0,
           UNCHANGED <<call, deletion, inbox, nextStorage>>
    PROVE  IInv'
  <1> USE DEF IInv, Related
  <1>1. inbox \in Seq(Commands)
    BY DEF Typed
  <1>2. /\ reservations' \in Named(Reservations)
        /\ DOMAIN reservations' \subseteq DOMAIN reservations
        /\ \A n \in DOMAIN reservations' : reservations'[n] = reservations[n]
    <2>1. CASE reservations' = reservations
      BY <2>1 DEF Typed
    <2>2. CASE reservations' = <<>>
      BY <2>2, NamedEmpty
    <2> QED  BY <2>1, <2>2
  <1>3. Typed'
    BY <1>2 DEF Typed
  <1>4. StorageIsOwn'
    BY DEF StorageIsOwn
  <1>5. PendingHasCall'
    BY <1>2 DEF PendingHasCall
  <1>6. DeletesCompleted'
    BY <1>2 DEF DeletesCompleted, Harmless
  <1>7. CaptureComesFirst'
    BY DEF CaptureComesFirst
  <1>8. DebuggerOfConnect'
    BY DEF DebuggerOfConnect
  <1>9. SnapshotHasCall'
    <2>1. CASE Len(inbox) = 0
      BY <2>1 DEF SnapshotHasCall
    <2>2. CASE live /\ debugger' = debugger /\ reservations' = reservations
      BY <2>2 DEF SnapshotHasCall, Pending, Held
    <2> QED  BY <2>1, <2>2 DEF SnapshotHasCall
  <1> QED  BY <1>3, <1>4, <1>5, <1>6, <1>7, <1>8, <1>9

\* The answers of a debugger that has stopped.
LEMMA AnsweredWorks ==
    ASSUME NEW pc \in Waiting, NEW ok \in BOOLEAN
    PROVE  Answered(pc, ok) \in Working \cap CallPcs
  BY DEF Answered, Waiting, Working, CallPcs, Owning

\* Constants that the steps put into the state have their types.
LEMMA NothingIsTyped ==
    /\ NoName \in Names
    /\ NoCall \in CallRecords /\ Never(NoCall) \in CallRecords
    /\ NoDeletion \in Deletions /\ Never(NoDeletion) \in Deletions
    /\ EmptyCatalog \in Catalogs
    /\ RequestedNames \subseteq Names
  <1>1. MaxStorage \in Nat
    BY CaptureAssumption
  <1>2. NoName \in Names
    BY <1>1 DEF NoName, Names
  <1>3. NoCall \in CallRecords /\ Never(NoCall) \in CallRecords
    BY <1>2 DEF NoCall, Never, CallRecords, CallPcs
  <1>4. NoDeletion \in Deletions /\ Never(NoDeletion) \in Deletions
    BY <1>2 DEF NoDeletion, Never, Deletions, DeletionPcs
  <1>5. EmptyCatalog \in Catalogs
    BY NamedEmpty DEF EmptyCatalog, Catalogs
  <1> QED  BY <1>2, <1>3, <1>4, <1>5, CaptureAssumption

\* delete_capture goes on once it has tried to remove the storage.
LEMMA ErasedIsDeletion ==
    ASSUME NEW d \in Deletions, d.pc = "erasing", NEW ok \in BOOLEAN
    PROVE  /\ Erased(d, ok) \in Deletions
           /\ Erased(d, ok).pc # "forgetting"
           /\ Erased(d, ok).retained =>
                 /\ d.retained
                 /\ Erased(d, ok).name = d.name
                 /\ Erased(d, ok).storage = d.storage
  <1>1. /\ NoDeletion \in Deletions /\ NoDeletion.pc = "idle" /\ ~NoDeletion.retained
    BY NothingIsTyped DEF NoDeletion
  <1>2. \A pc \in {"removing", "restoring"} :
           /\ [d EXCEPT !.pc = pc] \in Deletions
           /\ [d EXCEPT !.pc = pc].pc = pc
           /\ [d EXCEPT !.pc = pc].retained = d.retained
           /\ [d EXCEPT !.pc = pc].name = d.name
           /\ [d EXCEPT !.pc = pc].storage = d.storage
    BY DEF Deletions, DeletionPcs
  <1>3. CASE ok
    BY <1>2, <1>3 DEF Erased
  <1>4. CASE ~ok /\ d.retained
    BY <1>2, <1>4 DEF Erased
  <1>5. CASE ~ok /\ ~d.retained
    BY <1>1, <1>5 DEF Erased
  <1> QED  BY <1>3, <1>4, <1>5

\* What an answer does to the call or the deletion that waits for it.
LEMMA AnswerMoves ==
    ASSUME IInv, NEW cmd \in Commands, NEW ok \in BOOLEAN, Answer(cmd, ok),
           cmd.pc # "erasing" => cmd.by \in Calls
    PROVE  /\ call' \in [Calls -> CallRecords]
           /\ \A o \in Calls :
                 \/ call'[o] = call[o]
                 \/ /\ cmd.pc # "erasing" /\ cmd.storage = call[o].storage
                    /\ call[o].pc \in Working /\ call'[o].pc \in Working
                    /\ call'[o].name = call[o].name /\ call'[o].storage = call[o].storage
                    /\ call'[o].handle = call[o].handle
           /\ deletion' \in [Actors -> Deletions]
           /\ \A a \in Actors :
                 \/ deletion'[a] = deletion[a]
                 \/ /\ deletion'[a].pc # "forgetting"
                    /\ deletion'[a].retained => /\ deletion[a].retained
                                                /\ deletion'[a].name = deletion[a].name
                                                /\ deletion'[a].storage = deletion[a].storage
  <1>1. call \in [Calls -> CallRecords] /\ deletion \in [Actors -> Deletions]
    BY DEF IInv, Typed
  <1>2. cmd.by \in Actors /\ cmd.pc \in Waiting \cup {"erasing"}
    BY DEF Commands
  <1>3. CASE ~Awaited(cmd)
    BY <1>1, <1>3 DEF Answer
  <1>4. CASE Awaited(cmd) /\ cmd.pc = "erasing"
    <2> DEFINE by == cmd.by
    <2>1. deletion[by].pc = "erasing" /\ deletion[by] \in Deletions
      BY <1>1, <1>2, <1>4 DEF Awaited
    <2>2. /\ deletion' = [deletion EXCEPT ![by] = Erased(deletion[by], ok)]
          /\ call' = call
      BY <1>4 DEF Answer
    <2>3. /\ Erased(deletion[by], ok) \in Deletions
          /\ Erased(deletion[by], ok).pc # "forgetting"
          /\ Erased(deletion[by], ok).retained =>
                /\ deletion[by].retained
                /\ Erased(deletion[by], ok).name = deletion[by].name
                /\ Erased(deletion[by], ok).storage = deletion[by].storage
      BY <2>1, ErasedIsDeletion
    <2> QED  BY <1>1, <1>2, <2>2, <2>3
  <1>5. CASE Awaited(cmd) /\ cmd.pc # "erasing"
    <2> DEFINE by == cmd.by
               pc == Answered(cmd.pc, ok)
    <2>1. by \in Calls /\ cmd.pc \in Waiting /\ pc \in Working \cap CallPcs
      BY <1>2, <1>5, AnsweredWorks
    <2>2. call[by].pc = cmd.pc /\ call[by].storage = cmd.storage
      BY <1>5 DEF Awaited
    <2>3. call' = [call EXCEPT ![by].pc = pc] /\ deletion' = deletion
      BY <1>5 DEF Answer, Go
    <2> HIDE DEF pc, by
    <2>4. /\ call' \in [Calls -> CallRecords]
          /\ call'[by].pc = pc /\ call'[by].name = call[by].name
          /\ call'[by].storage = call[by].storage /\ call'[by].handle = call[by].handle
          /\ \A o \in Calls \ {by} : call'[o] = call[o]
      BY <1>1, <2>1, <2>3, CallAt
    <2>5. call[by].pc \in Working
      BY <2>1, <2>2 DEF Waiting, Working
    <2> QED  BY <1>1, <1>5, <2>1, <2>2, <2>3, <2>4, <2>5
  <1> QED  BY <1>3, <1>4, <1>5

\* The debugger serves the first of its commands.
LEMMA DebuggerServes ==
    ASSUME IInv, NEW ok \in BOOLEAN, DebuggerStep(ok)
    PROVE  IInv'
  <1> USE DEF IInv, Related
  <1> DEFINE cmd == Head(inbox)
  <1>1. inbox \in Seq(Commands) /\ inbox # <<>> /\ inbox' = Tail(inbox)
    BY DEF Typed, DebuggerStep
  <1>2. /\ inbox' \in Seq(Commands) /\ cmd \in Commands
        /\ Len(inbox) \in Nat /\ Len(inbox) # 0 /\ Len(inbox') = Len(inbox) - 1
        /\ \A i \in 1..Len(inbox') : inbox'[i] = inbox[i + 1]
        /\ cmd = inbox[1]
    BY <1>1, HeadTailProperties, EmptySeq, LenProperties
  <1>3. Answer(cmd, ok)
    BY DEF DebuggerStep, ServeCapture, ServeCopy, ServeDelete
  <1>4. UNCHANGED <<catalog, disk, reservations, generation, live, connects, debugger,
                    nextStorage>>
    BY DEF DebuggerStep, catalogVars, historyVars
  <1>5. cmd.pc # "erasing" => cmd.by \in Calls
    BY <1>2 DEF CaptureComesFirst
  <1> HIDE DEF cmd
  <1>6. /\ call' \in [Calls -> CallRecords]
        /\ deletion' \in [Actors -> Deletions]
    BY <1>2, <1>3, <1>5, AnswerMoves
  <1>7. \A o \in Calls :
           \/ call'[o] = call[o]
           \/ /\ cmd.pc # "erasing" /\ cmd.storage = call[o].storage
              /\ call[o].pc \in Working /\ call'[o].pc \in Working
              /\ call'[o].name = call[o].name /\ call'[o].storage = call[o].storage
              /\ call'[o].handle = call[o].handle
    BY <1>2, <1>3, <1>5, AnswerMoves
  <1>8. \A a \in Actors :
           \/ deletion'[a] = deletion[a]
           \/ /\ deletion'[a].pc # "forgetting"
              /\ deletion'[a].retained => /\ deletion[a].retained
                                          /\ deletion'[a].name = deletion[a].name
                                          /\ deletion'[a].storage = deletion[a].storage
    BY <1>2, <1>3, <1>5, AnswerMoves
  <1>9. Typed'
    BY <1>2, <1>4, <1>6 DEF Typed
  <1>10. StorageIsOwn'
    BY <1>4, <1>7 DEF StorageIsOwn, Owning
  <1>11. PendingHasCall'
    BY <1>4, <1>7 DEF PendingHasCall
  <1>12. DeletesCompleted'
    BY <1>4, <1>8 DEF DeletesCompleted, Harmless
  <1>13. CaptureComesFirst'
    <2>1. \A i \in 1..Len(inbox') : i + 1 \in 1..Len(inbox)
      BY <1>2
    <2>2. \A i, j \in 1..Len(inbox') : i + 1 <= j + 1 => i <= j
      BY <1>2
    <2> QED  BY <1>2, <1>4, <2>1, <2>2 DEF CaptureComesFirst
  <1>14. DebuggerOfConnect'
    BY <1>2, <1>4, <1>7 DEF DebuggerOfConnect, Owning
  <1>15. SnapshotHasCall'
    <2> SUFFICES ASSUME live, NEW i \in 1..Len(inbox'), inbox'[i].op = "capture",
                        inbox'[i].by \in HeapCalls, NEW o, o = inbox'[i].by
                 PROVE  /\ call'[o].pc \in Holding
                        /\ call'[o].handle = debugger
                        /\ call'[o].name = inbox'[i].name
                        /\ call'[o].storage = inbox'[i].storage
                        /\ Pending(o)'
      BY <1>4 DEF SnapshotHasCall
    <2>1. i + 1 \in 1..Len(inbox) /\ inbox'[i] = inbox[i + 1] /\ i + 1 > 1 /\ 1 \in 1..Len(inbox)
      BY <1>2
    <2>2. /\ call[o].pc \in Holding
          /\ call[o].handle = debugger
          /\ call[o].name = inbox'[i].name
          /\ call[o].storage = inbox'[i].storage
          /\ Pending(o) /\ o \in Calls
      BY <2>1 DEF SnapshotHasCall, CaptureComesFirst
    <2>3. cmd.pc # "erasing" => cmd.storage # call[o].storage
      BY <1>2, <2>1, <2>2 DEF CaptureComesFirst
    <2>4. call'[o] = call[o]
      BY <1>7, <2>2, <2>3
    <2> QED  BY <1>4, <2>2, <2>4 DEF Pending, Held
  <1> QED  BY <1>9, <1>10, <1>11, <1>12, <1>13, <1>14, <1>15

\* The debugger stops: whoever waits for it goes on.
LEMMA DebuggerStops ==
    ASSUME IInv, DebuggerEnds
    PROVE  IInv'
  <1> USE DEF IInv, Related
  <1>1. call \in [Calls -> CallRecords] /\ deletion \in [Actors -> Deletions]
    BY DEF Typed
  <1>2. UNCHANGED <<catalog, disk, reservations, generation, live, connects, nextStorage>>
        /\ debugger' = 0 /\ inbox' = <<>>
    BY DEF DebuggerEnds, catalogVars, historyVars
  <1>3. inbox' \in Seq(Commands) /\ Len(inbox') = 0
    BY <1>2, EmptySeq
  <1>4. /\ call' \in [Calls -> CallRecords]
        /\ \A o \in Calls :
              \/ call'[o] = call[o]
              \/ /\ call[o].pc \in Working /\ call'[o].pc \in Working
                 /\ call'[o].name = call[o].name /\ call'[o].storage = call[o].storage
                 /\ call'[o].handle = call[o].handle
    <2>1. call' = [c \in Calls |-> IF call[c].pc \in Waiting
                                THEN [call[c] EXCEPT !.pc = Answered(call[c].pc, FALSE)]
                                ELSE call[c]]
      BY DEF DebuggerEnds
    <2>2. \A o \in Calls : call[o].pc \in Waiting =>
             /\ Answered(call[o].pc, FALSE) \in Working \cap CallPcs
             /\ call[o].pc \in Working
      BY AnsweredWorks DEF Waiting, Working
    <2>3. ASSUME NEW o \in Calls, call[o].pc \in Waiting
          PROVE  /\ call'[o] \in CallRecords
                 /\ call[o].pc \in Working /\ call'[o].pc \in Working
                 /\ call'[o].name = call[o].name /\ call'[o].storage = call[o].storage
                 /\ call'[o].handle = call[o].handle
      <3> DEFINE pc == Answered(call[o].pc, FALSE)
      <3>1. pc \in Working \cap CallPcs /\ call[o].pc \in Working
        BY <2>2, <2>3
      <3>2. call'[o] = [call[o] EXCEPT !.pc = pc]
        BY <2>1, <2>3
      <3> HIDE DEF pc
      <3> QED  BY <1>1, <3>1, <3>2, CallAt
    <2> QED  BY <1>1, <2>1, <2>3
  <1>5. /\ deletion' \in [Actors -> Deletions]
        /\ \A a \in Actors :
              \/ deletion'[a] = deletion[a]
              \/ /\ deletion'[a].pc # "forgetting"
                 /\ deletion'[a].retained => /\ deletion[a].retained
                                             /\ deletion'[a].name = deletion[a].name
                                             /\ deletion'[a].storage = deletion[a].storage
    <2>1. deletion' = [a \in Actors |-> IF deletion[a].pc = "erasing"
                                     THEN Erased(deletion[a], FALSE) ELSE deletion[a]]
      BY DEF DebuggerEnds
    <2>2. ASSUME NEW a \in Actors, deletion[a].pc = "erasing"
          PROVE  LET d == deletion[a] IN
                 /\ Erased(d, FALSE) \in Deletions
                 /\ Erased(d, FALSE).pc # "forgetting"
                 /\ Erased(d, FALSE).retained =>
                       /\ d.retained
                       /\ Erased(d, FALSE).name = d.name
                       /\ Erased(d, FALSE).storage = d.storage
      BY <1>1, <2>2, ErasedIsDeletion
    <2> QED  BY <1>1, <2>1, <2>2
  <1>6. Typed'
    BY <1>2, <1>3, <1>4, <1>5 DEF Typed
  <1>7. StorageIsOwn'
    BY <1>2, <1>4 DEF StorageIsOwn, Owning
  <1>8. PendingHasCall'
    BY <1>2, <1>4 DEF PendingHasCall
  <1>9. DeletesCompleted'
    BY <1>2, <1>5 DEF DeletesCompleted, Harmless
  <1>10. CaptureComesFirst'
    BY <1>3 DEF CaptureComesFirst
  <1>11. DebuggerOfConnect'
    BY <1>2, <1>3, <1>4 DEF DebuggerOfConnect, Owning
  <1>12. SnapshotHasCall'
    BY <1>3 DEF SnapshotHasCall
  <1> QED  BY <1>6, <1>7, <1>8, <1>9, <1>10, <1>11, <1>12

\* The process ends: no call and no reservation is left.
LEMMA ProcessEnds ==
    ASSUME IInv, Crash
    PROVE  IInv'
  <1> USE DEF IInv, Related
  <1>1. call \in [Calls -> CallRecords] /\ deletion \in [Actors -> Deletions]
    BY DEF Typed
  <1>2. UNCHANGED <<catalog, disk, generation, connects, nextStorage>>
        /\ debugger' = 0 /\ inbox' = <<>> /\ reservations' = <<>> /\ live' = FALSE
    BY DEF Crash, catalogVars, historyVars
  <1>3. inbox' \in Seq(Commands) /\ Len(inbox') = 0
    BY <1>2, EmptySeq
  <1>4. reservations' \in Named(Reservations) /\ DOMAIN reservations' = {}
    BY <1>2, NamedEmpty
  <1>5. call' \in [Calls -> CallRecords] /\ \A o \in Calls : call'[o].pc \in {"never", "idle"}
    BY <1>1, NothingIsTyped DEF Crash, Idle, NoCall
  <1>6. /\ deletion' \in [Actors -> Deletions]
        /\ \A a \in Actors : deletion'[a] = deletion[a] \/ deletion'[a] = NoDeletion
    BY <1>1, NothingIsTyped DEF Crash, Idle
  <1>7. ~NoDeletion.retained /\ NoDeletion.pc # "forgetting"
    BY DEF NoDeletion
  <1>8. Typed'
    BY <1>2, <1>3, <1>4, <1>5, <1>6 DEF Typed
  <1>9. StorageIsOwn'
    BY <1>5 DEF StorageIsOwn, Owning, Working
  <1>10. PendingHasCall'
    BY <1>4 DEF PendingHasCall
  <1>11. DeletesCompleted'
    BY <1>2, <1>4, <1>6, <1>7 DEF DeletesCompleted, Harmless
  <1>12. CaptureComesFirst'
    BY <1>3 DEF CaptureComesFirst
  <1>13. DebuggerOfConnect'
    BY <1>2, <1>3, <1>5 DEF DebuggerOfConnect, Owning, Working
  <1>14. SnapshotHasCall'
    BY <1>2 DEF SnapshotHasCall
  <1> QED  BY <1>8, <1>9, <1>10, <1>11, <1>12, <1>13, <1>14

\* The catalog stays typed by what the steps write.
LEMMA PersistTyped ==
    ASSUME IInv, NEW new \in Catalogs, NEW ok \in BOOLEAN, Persist(ok, new)
    PROVE  catalog' \in Catalogs /\ disk' \in Catalogs
  BY DEF Persist, catalogVars, IInv, Typed

\* The catalogs that the locked sections write are catalogs.
LEMMA WrittenTyped ==
    ASSUME IInv
    PROVE  /\ \A n \in DOMAIN reservations : n \in Names /\ WithEntry(n) \in Catalogs
           /\ \A n : [catalog EXCEPT !.captures = Without(@, n)] \in Catalogs
           /\ [catalog EXCEPT !.captures = <<>>] \in Catalogs
           /\ \A k \in Nat : [catalog EXCEPT !.nextId = k] \in Catalogs
  <1>1. catalog \in Catalogs /\ reservations \in Named(Reservations)
    BY DEF IInv, Typed
  <1>2. catalog.captures \in Named(Entries)
    BY <1>1 DEF Catalogs
  <1>3. ASSUME NEW n \in DOMAIN reservations
        PROVE  n \in Names /\ WithEntry(n) \in Catalogs
    <2> DEFINE entry == [storage |-> reservations[n].storage,
                         generation |-> reservations[n].generation]
               more == With(catalog.captures, n, entry)
    <2>1. n \in Names /\ reservations[n] \in Reservations
      BY <1>1, NamedMember, NamedShape
    <2>2. entry \in Entries
      BY <2>1 DEF Reservations, Entries
    <2> HIDE DEF entry
    <2>3. more \in Named(Entries)
      BY <1>2, <2>1, <2>2, NamedShape DEF With
    <2>4. WithEntry(n) = [catalog EXCEPT !.captures = more]
      BY DEF WithEntry, entry
    <2> QED  BY <1>1, <2>1, <2>3, <2>4 DEF Catalogs
  <1>4. ASSUME NEW n
        PROVE  [catalog EXCEPT !.captures = Without(@, n)] \in Catalogs
    <2>1. Without(catalog.captures, n) \in Named(Entries)
      BY <1>2, NamedShape DEF Without, Restrict
    <2> QED  BY <1>1, <2>1 DEF Catalogs
  <1>5. [catalog EXCEPT !.captures = <<>>] \in Catalogs
    BY <1>1, NamedEmpty DEF Catalogs
  <1>6. \A k \in Nat : [catalog EXCEPT !.nextId = k] \in Catalogs
    BY <1>1 DEF Catalogs
  <1> QED  BY <1>3, <1>4, <1>5, <1>6

\* What callFrame keeps.
LEMMA CallFrame ==
    ASSUME UNCHANGED callFrame
    PROVE  UNCHANGED <<catalog, disk, reservations, deletion, generation, live, connects,
                       debugger, nextStorage>>
  BY DEF callFrame, catalogVars, worldVars, targetVars, historyVars

\* The steps of a call before it has a reservation.
LEMMA CallBegins ==
    ASSUME IInv, NEW c \in Calls,
           \/ \E n \in RequestedNames : Begin(c, n)
           \/ BeginAutomatic(c)
    PROVE  IInv'
  <1>1. call \in [Calls -> CallRecords] /\ generation \in Nat /\ connects \in Nat
        /\ reservations \in Named(Reservations) /\ DebuggerOfConnect
    BY DEF IInv, Typed, Related
  <1>2. UNCHANGED <<catalog, disk, reservations, deletion, generation, live, connects,
                    debugger, inbox, nextStorage>>
    BY CallFrame DEF Begin, BeginAutomatic
  <1>3. call[c].pc = "idle"
    BY DEF Begin, BeginAutomatic
  <1>4. ASSUME NEW pc \in {"loading", "reserving"}, NEW n \in Names,
               NEW automatic \in BOOLEAN, NEW storage \in Nat,
               Called(c, pc, n, automatic, storage), pc = "reserving" => live
        PROVE  IInv'
    <2> DEFINE new == [pc |-> pc, name |-> n, automatic |-> automatic,
                       storage |-> storage, generation |-> generation,
                       handle |-> connects, cancelled |-> FALSE]
    <2>1. new \in CallRecords /\ new.pc = pc /\ new.handle = connects
      BY <1>1 DEF CallRecords, CallPcs
    <2>2. call' = [call EXCEPT ![c] = new]
      BY <1>4 DEF Called
    <2> HIDE DEF new
    <2>3. new.pc = "reserving" => new.handle # 0
      BY <1>1, <1>4, <2>1 DEF DebuggerOfConnect
    <2>4. call[c].pc \notin Owning /\ new.pc \notin Owning
      BY <1>3, <2>1 DEF Owning, Working
    <2> QED  BY <1>2, <2>1, <2>2, <2>3, <2>4, CallMoves
  <1>5. ASSUME NEW n \in RequestedNames, Begin(c, n)
        PROVE  IInv'
    <2>1. n \in Names
      BY NothingIsTyped
    <2>2. CASE Promotable(c, n) /\ Called(c, "loading", n, FALSE, reservations[n].storage)
      <3>1. reservations[n].storage \in Nat
        <4>1. reservations[n] \in Reservations
          BY <1>1, <2>2, NamedMember DEF Promotable
        <4> QED  BY <4>1 DEF Reservations
      <3> QED  BY <1>4, <2>1, <2>2, <3>1
    <2>3. CASE live /\ Called(c, "reserving", n, FALSE, 0)
      BY <1>4, <2>1, <2>3
    <2> QED  BY <1>5, <2>2, <2>3 DEF Begin
  <1>6. ASSUME BeginAutomatic(c)
        PROVE  IInv'
    BY <1>4, <1>6, NothingIsTyped DEF BeginAutomatic
  <1> QED  BY <1>5, <1>6

\* A call without a reservation of its own returns.
LEMMA CallReturns ==
    ASSUME IInv, NEW c \in Calls, call[c].pc \notin Owning, Return(c),
           UNCHANGED <<catalog, disk, reservations, deletion, generation, live, connects,
                       debugger, inbox, nextStorage>>
    PROVE  IInv'
  <1>1. NoCall \in CallRecords /\ NoCall.pc = "idle"
    BY NothingIsTyped DEF NoCall
  <1>2. call' = [call EXCEPT ![c] = NoCall]
    BY DEF Return
  <1> QED  BY <1>1, <1>2, CallMoves DEF Owning, Working

\* A section of a handler that only reads: lookups, refusals, loading a capture.
LEMMA CallLooksUp ==
    ASSUME IInv, NEW c \in Calls,
           Rejoin(c) \/ Refused(c) \/ Rejoined(c) \/ PromoteLoad(c)
    PROVE  IInv'
  <1>1. call \in [Calls -> CallRecords] /\ reservations \in Named(Reservations)
    BY DEF IInv, Typed
  <1>2. UNCHANGED <<catalog, disk, reservations, deletion, generation, live, connects,
                    debugger, inbox, nextStorage>>
    BY CallFrame DEF Rejoin, Refused, Rejoined, PromoteLoad
  <1>3. call[c].pc \in {"reserving", "rejoining", "loading"}
    BY DEF Rejoin, Refused, Rejoined, PromoteLoad
  <1>4. call[c].pc \notin Owning /\ call[c] \in CallRecords
    BY <1>1, <1>3 DEF Owning, Working
  <1>5. CASE Return(c)
    BY <1>2, <1>4, <1>5, CallReturns
  <1>6. ASSUME NEW pc \in {"rejoining", "committing"}, Go(c, pc)
        PROVE  IInv'
    <2>1. pc \in CallPcs /\ pc \notin Owning /\ pc # "reserving"
      BY DEF CallPcs, Owning, Working
    <2>2. call' = [call EXCEPT ![c] = [call[c] EXCEPT !.pc = pc]]
          /\ [call[c] EXCEPT !.pc = pc] \in CallRecords
          /\ [call[c] EXCEPT !.pc = pc].pc = pc
      BY <1>1, <1>6, <2>1, CallAt DEF Go
    <2> QED  BY <1>2, <1>4, <2>1, <2>2, CallMoves
  <1>7. ASSUME Promotable(c, call[c].name),
               call' = [call EXCEPT ![c].pc = "loading",
                                    ![c].storage = reservations[call[c].name].storage]
        PROVE  IInv'
    <2> DEFINE new == [call[c] EXCEPT !.pc = "loading",
                                      !.storage = reservations[call[c].name].storage]
    <2>1. reservations[call[c].name] \in Reservations
      BY <1>1, <1>7, NamedMember DEF Promotable
    <2>2. reservations[call[c].name].storage \in Nat
      BY <2>1 DEF Reservations
    <2>3. new \in CallRecords /\ new.pc = "loading"
      BY <1>4, <2>2 DEF CallRecords, CallPcs
    <2>4. call' = [call EXCEPT ![c] = new]
      BY <1>1, <1>7
    <2> HIDE DEF new
    <2> QED  BY <1>2, <1>4, <2>3, <2>4, CallMoves DEF Owning, Working
  <1> QED  BY <1>5, <1>6, <1>7 DEF Rejoin, Refused, Rejoined, PromoteLoad

\* The step that reserves a name.
LEMMA ReserveStep ==
    ASSUME IInv, NEW c \in Calls, NEW ok \in BOOLEAN, Reserve(c, ok)
    PROVE  IInv'
  <1>1. call \in [Calls -> CallRecords] /\ catalog \in Catalogs /\ disk \in Catalogs
        /\ nextStorage \in Nat
    BY DEF IInv, Typed
  <1>2. UNCHANGED <<deletion, generation, live, connects, debugger>> /\ live
        /\ call[c].pc = "reserving"
    BY DEF Reserve, targetVars, Current
  <1> DEFINE Numbers(n) ==
                IF call[c].automatic
                THEN /\ Persist(ok, [catalog EXCEPT !.nextId = n[2] + 1])
                     /\ issued' = IF ok THEN issued \cup {n} ELSE issued
                ELSE ok /\ UNCHANGED <<catalogVars, faults, issued>>
             new(n) == [call[c] EXCEPT !.name = n, !.storage = nextStorage]
             Kept(n) == /\ reservations' = With(reservations, n, Reservation(c))
                        /\ nextStorage' = nextStorage + 1
                        /\ IF debugger = call[c].handle
                           THEN /\ inbox' = Append(inbox, Command("capture", n, nextStorage,
                                                                  c, "capturing"))
                                /\ call' = [call EXCEPT ![c] =
                                               [new(n) EXCEPT !.pc = "capturing"]]
                           ELSE /\ call' = [call EXCEPT ![c] =
                                               [new(n) EXCEPT !.pc = "abandoning"]]
                                /\ UNCHANGED inbox
  <1>3. PICK n \in NamesFor(c) :
           /\ Numbers(n)
           /\ IF ok THEN Kept(n)
              ELSE Return(c) /\ UNCHANGED <<reservations, nextStorage, inbox>>
    BY DEF Reserve
  <1>4. n \in Names \ DOMAIN reservations
    <2>1. CASE ~call[c].automatic
      BY <1>1, <2>1 DEF NamesFor, CallRecords
    <2>2. CASE call[c].automatic
      <3>1. n \in FreeNames(Kind(c))
        BY <2>2 DEF NamesFor
      <3>2. MaxStorage \in Nat /\ Kind(c) \in Kinds
        BY CaptureAssumption DEF Kind, Kinds
      <3> QED  BY <3>1, <3>2 DEF FreeNames, Names
    <2> QED  BY <2>1, <2>2
  <1>5. n[2] + 1 \in Nat
    <2>1. MaxStorage \in Nat
      BY CaptureAssumption
    <2> QED  BY <1>4, <2>1 DEF Names
  <1>6. catalog' \in Catalogs /\ disk' \in Catalogs
    <2>1. CASE call[c].automatic
      BY <1>3, <1>5, <2>1, PersistTyped, WrittenTyped
    <2>2. CASE ~call[c].automatic
      BY <1>1, <1>3, <2>2 DEF catalogVars
    <2> QED  BY <2>1, <2>2
  <1>7. CASE ~ok
    <2>1. UNCHANGED <<catalog, disk>>
      BY <1>3, <1>7 DEF Persist, catalogVars
    <2> QED  BY <1>2, <1>3, <1>7, <2>1, CallReturns DEF Owning, Working
  <1>8. CASE ok
    <2>1. Kept(n)
      BY <1>3, <1>8
    <2> DEFINE r == Reservation(c)
    <2>2. r \in Reservations /\ r.storage = nextStorage /\ ~r.completed
      BY <1>1 DEF Reservation, Reservations, CallRecords, Kind, Kinds
    <2> DEFINE to(pc) == [new(n) EXCEPT !.pc = pc]
    <2>3. \A pc \in {"capturing", "abandoning"} :
             /\ to(pc) \in CallRecords
             /\ to(pc).pc = pc /\ to(pc).name = n /\ to(pc).storage = nextStorage
             /\ to(pc).handle = call[c].handle
      BY <1>1, <1>4 DEF CallRecords, CallPcs, Owning, Working
    <2>4. PICK pc \in {"capturing", "abandoning"} :
             /\ call' = [call EXCEPT ![c] = to(pc)]
             /\ \/ /\ pc = "capturing"
                   /\ debugger = call[c].handle
                   /\ inbox' = Append(inbox, Command("capture", n, nextStorage, c,
                                                     "capturing"))
                \/ pc = "abandoning" /\ inbox' = inbox
      BY <2>1
    <2>5. reservations' = With(reservations, n, r) /\ nextStorage' = nextStorage + 1
      BY <2>1
    <2> HIDE DEF to, r
    <2>6. /\ to(pc) \in CallRecords
          /\ to(pc).pc = pc /\ to(pc).name = n /\ to(pc).storage = nextStorage
          /\ to(pc).handle = call[c].handle
      BY <2>3
    <2> QED  BY <1>2, <1>4, <1>6, <2>2, <2>4, <2>5, <2>6, CallReserves
  <1> QED  BY <1>7, <1>8

\* The step that publishes what an earlier call left.
LEMMA CommitStep ==
    ASSUME IInv, NEW c \in Calls, NEW ok \in BOOLEAN, Commit(c, ok)
    PROVE  IInv'
  <1>1. UNCHANGED <<deletion, generation, live, connects, debugger, inbox, nextStorage>>
        /\ call[c].pc = "committing" /\ Return(c)
    BY DEF Commit, worldVars, targetVars, historyVars
  <1>2. call[c].pc \notin Owning /\ call[c].pc \notin Working
    BY <1>1 DEF Owning, Working
  <1>3. CASE UNCHANGED <<catalogVars, reservations>>
    BY <1>1, <1>2, <1>3, CallReturns DEF catalogVars
  <1>4. CASE Completed(c) /\ Persist(ok, WithEntry(call[c].name)) /\ ok
               /\ reservations' = Without(reservations, call[c].name)
    <2>1. catalog' \in Catalogs /\ disk' \in Catalogs
      BY <1>4, WrittenTyped, PersistTyped DEF Completed, Held
    <2>2. NoCall \in CallRecords /\ NoCall.pc = "idle" /\ call' = [call EXCEPT ![c] = NoCall]
      BY <1>1, NothingIsTyped DEF NoCall, Return
    <2>3. NoCall.pc \notin Working \cup {"reserving"} /\ NoCall.pc # "uncapturing"
      BY <2>2 DEF Working
    <2> QED  BY <1>1, <1>4, <2>1, <2>2, <2>3, CallLetsGo
  <1> QED  BY <1>3, <1>4 DEF Commit, Committable, Persist

\* A call that has its reservation moves on.
LEMMA CallGoes ==
    ASSUME IInv, NEW c \in Calls, NEW pc \in Working, Go(c, pc), call[c].pc \in Owning,
           /\ c \in HeapCalls
           /\ call[c].pc \in Holding
           /\ call[c].handle = debugger
           => pc \in Holding,
           UNCHANGED <<catalog, disk, reservations, deletion, generation, live, connects,
                       debugger, inbox, nextStorage>>
    PROVE  IInv'
  <1>1. call \in [Calls -> CallRecords] /\ pc \in CallPcs /\ pc \in Owning
    BY DEF IInv, Typed, CallPcs, Owning
  <1> DEFINE new == [call[c] EXCEPT !.pc = pc]
  <1>2. /\ new \in CallRecords /\ new.pc = pc /\ call' = [call EXCEPT ![c] = new]
        /\ new.name = call[c].name /\ new.storage = call[c].storage
        /\ new.handle = call[c].handle
    BY <1>1, CallAt DEF Go
  <1> HIDE DEF new
  <1> QED  BY <1>1, <1>2, CallGoesOn

\* The steps of a call with its reservation that send nothing.
LEMMA CallWorks ==
    ASSUME IInv, NEW c \in Calls,
           \/ Cancel(c) \/ StoreCheck(c) \/ Retain(c)
           \/ \E renamed, ok \in BOOLEAN : PublishFile(c, renamed, ok)
                                           \/ StoreWrite(c, renamed, ok)
    PROVE  IInv'
  <1>1. UNCHANGED <<catalog, disk, reservations, deletion, generation, live, connects,
                    debugger, inbox, nextStorage>>
    BY CallFrame DEF Cancel, StoreCheck, Retain, PublishFile, StoreWrite, catalogVars,
                     worldVars, targetVars, historyVars
  <1>2. call \in [Calls -> CallRecords]
    BY DEF IInv, Typed
  <1>3. CASE Cancel(c)
    <2> DEFINE new == [call[c] EXCEPT !.cancelled = TRUE]
    <2>1. /\ new \in CallRecords /\ new.pc = call[c].pc /\ call' = [call EXCEPT ![c] = new]
          /\ new.name = call[c].name /\ new.storage = call[c].storage
          /\ new.handle = call[c].handle
      BY <1>2, <1>3 DEF Cancel, CallRecords
    <2>2. call[c].pc \in Owning
      BY <1>3 DEF Cancel, Owning, Working
    <2> HIDE DEF new
    <2> QED  BY <1>1, <2>1, <2>2, CallGoesOn
  <1>4. CASE ~Cancel(c)
    <2>1. call[c].pc \in Owning \ Holding
      BY <1>4 DEF StoreCheck, Retain, PublishFile, StoreWrite, Owning, Working, Holding
    <2>2. \E pc \in Working : Go(c, pc)
      BY <1>4 DEF StoreCheck, Retain, PublishFile, StoreWrite, Working
    <2> QED  BY <1>1, <2>1, <2>2, CallGoes
  <1> QED  BY <1>3, <1>4

\* The steps that may send the debugger a command.
LEMMA CallAsks ==
    ASSUME IInv, NEW c \in Calls, Captured(c) \/ Cleanup(c)
    PROVE  IInv'
  <1>1. UNCHANGED <<catalog, disk, reservations, deletion, generation, live, connects,
                    debugger, nextStorage>>
    BY CallFrame DEF Captured, Cleanup
  <1>2. call[c].pc \in {"captured", "cleanup"}
    BY DEF Captured, Cleanup
  <1>3. call[c].pc \in Working /\ call[c].pc \in Owning
    BY <1>2 DEF Owning, Working
  <1>4. ASSUME NEW op \in {"copy", "delete"}, NEW pc \in Waiting, NEW stopped \in Working,
               Send(c, op, pc, stopped), call[c].pc \in Holding => pc \in Holding
        PROVE  IInv'
    <2>1. CASE debugger = call[c].handle
      BY <1>1, <1>3, <1>4, <2>1, CallSends DEF Send, Go
    <2>2. CASE debugger # call[c].handle
      BY <1>1, <1>3, <1>4, <2>2, CallGoes DEF Send
    <2> QED  BY <2>1, <2>2
  <1>5. CASE Captured(c)
    <2>1. call[c].pc \notin Holding
      BY <1>5 DEF Captured, Holding
    <2>2. CASE Go(c, "storing") /\ UNCHANGED inbox
      BY <1>1, <1>3, <2>1, <2>2, CallGoes DEF Working
    <2>3. CASE Send(c, "delete", "discarding", "cleanup")
      BY <1>4, <2>1, <2>3 DEF Waiting, Working
    <2>4. CASE Send(c, "copy", "copying", "abandoning")
      BY <1>4, <2>1, <2>4 DEF Waiting, Working
    <2> QED  BY <1>5, <2>2, <2>3, <2>4 DEF Captured
  <1>6. CASE Cleanup(c)
    <2>1. CASE ~Pending(c) /\ Return(c) /\ UNCHANGED inbox
      <3>1. NoCall \in CallRecords /\ NoCall.pc = "idle" /\ call' = [call EXCEPT ![c] = NoCall]
        BY <2>1, NothingIsTyped DEF NoCall, Return
      <3>2. NoCall.pc \notin Working \cup {"reserving"} /\ NoCall.pc # "uncapturing"
        BY <3>1 DEF Working
      <3>3. catalog' \in Catalogs /\ disk' \in Catalogs
        BY <1>1 DEF IInv, Typed
      <3> QED  BY <1>1, <2>1, <3>1, <3>2, <3>3, CallLetsGo
    <2>2. CASE c \notin HeapCalls /\ Go(c, "releasing") /\ UNCHANGED inbox
      BY <1>1, <1>3, <2>2, CallGoes DEF Working
    <2>3. CASE Send(c, "delete", "scratching", "releasing")
      BY <1>4, <2>3 DEF Waiting, Working, Holding
    <2> QED  BY <1>6, <2>1, <2>2, <2>3 DEF Cleanup
  <1> QED  BY <1>5, <1>6

\* The steps with which a call publishes, keeps or gives up its reservation.
LEMMA CallEnds ==
    ASSUME IInv, NEW c \in Calls, Abandon(c) \/ Release(c)
    PROVE  IInv'
  <1>1. UNCHANGED <<catalog, disk, deletion, generation, live, connects, debugger, inbox,
                    nextStorage>>
    BY DEF Abandon, Release, catalogVars, worldVars, targetVars, historyVars
  <1>2. /\ Return(c) /\ reservations' = Abandoned(c)
        /\ call[c].pc \in Owning \ Holding
    BY DEF Abandon, Release, Owning, Working, Holding
  <1>3. NoCall \in CallRecords /\ NoCall.pc = "idle" /\ call' = [call EXCEPT ![c] = NoCall]
    BY <1>2, NothingIsTyped DEF NoCall, Return
  <1>4. NoCall.pc \notin Working \cup {"reserving"} /\ NoCall.pc # "uncapturing"
    BY <1>3 DEF Working
  <1>5. catalog' \in Catalogs /\ disk' \in Catalogs
    BY <1>1 DEF IInv, Typed
  <1>6. CASE Pending(c)
    <2>1. Held(c) /\ reservations' = Without(reservations, call[c].name)
      BY <1>2, <1>6 DEF Abandoned, Pending
    <2> QED  BY <1>1, <1>2, <1>3, <1>4, <1>5, <2>1, CallLetsGo
  <1>7. CASE ~Pending(c)
    <2>1. reservations' = reservations
      BY <1>2, <1>7 DEF Abandoned
    <2> QED  BY <1>1, <1>3, <1>4, <1>5, <1>7, <2>1, CallLetsGo
  <1> QED  BY <1>6, <1>7

\* The payload is written and fsynced, or this fails.
LEMMA CallStores ==
    ASSUME IInv, NEW c \in Calls, NEW ok \in BOOLEAN, StoreComplete(c, ok)
    PROVE  IInv'
  <1> DEFINE failed == IF c \in HeapCalls THEN "retaining" ELSE "cleanup"
  <1>1. UNCHANGED <<deletion, generation, live, connects, debugger, inbox, nextStorage>>
        /\ call[c].pc = "completing"
    BY DEF StoreComplete, worldVars, targetVars, historyVars
  <1>2. call[c].pc \in Owning \ Holding /\ failed \in Working
        /\ failed \in {"retaining", "cleanup"}
    BY <1>1 DEF Owning, Working, Holding
  <1>3. call \in [Calls -> CallRecords]
    BY DEF IInv, Typed
  <1>4. CASE Held(c) /\ Current(call[c].generation) /\ ok
    <2>1. catalog' \in Catalogs /\ disk' \in Catalogs
      BY <1>4, WrittenTyped, PersistTyped DEF StoreComplete, Held
    <2>2. reservations' = Without(reservations, call[c].name)
      BY <1>4 DEF StoreComplete
    <2>3. CASE Return(c)
      <3>1. NoCall \in CallRecords /\ NoCall.pc = "idle" /\ call' = [call EXCEPT ![c] = NoCall]
        BY <2>3, NothingIsTyped DEF NoCall, Return
      <3>2. NoCall.pc \notin Working \cup {"reserving"} /\ NoCall.pc # "uncapturing"
        BY <3>1 DEF Working
      <3> QED  BY <1>1, <1>2, <1>4, <2>1, <2>2, <3>1, <3>2, CallLetsGo
    <2>4. CASE Go(c, "uncapturing")
      <3> DEFINE new == [call[c] EXCEPT !.pc = "uncapturing"]
      <3>1. "uncapturing" \in CallPcs
        BY DEF CallPcs, Owning
      <3>2. /\ new \in CallRecords /\ new.pc = "uncapturing" /\ call' = [call EXCEPT ![c] = new]
            /\ new.storage = call[c].storage /\ new.handle = call[c].handle
        BY <1>3, <2>4, <3>1, CallAt DEF Go
      <3> HIDE DEF new
      <3>3. new.pc \notin Working \cup {"reserving"}
        BY <3>2 DEF Working
      <3> QED  BY <1>1, <1>2, <1>4, <2>1, <2>2, <3>2, <3>3, CallLetsGo
    <2> QED  BY <1>4, <2>3, <2>4 DEF StoreComplete
  <1>5. CASE Held(c) /\ Current(call[c].generation) /\ ~ok
    <2>1. /\ UNCHANGED <<catalog, disk>> /\ Go(c, failed)
          /\ reservations' = [reservations EXCEPT ![call[c].name].completed = TRUE]
      BY <1>5 DEF StoreComplete, Persist, catalogVars
    <2> HIDE DEF failed
    <2> QED  BY <1>1, <1>2, <1>5, <2>1, CallCompletes DEF Go
  <1>6. CASE ~(Held(c) /\ Current(call[c].generation))
    <2>1. UNCHANGED <<catalog, disk, reservations>> /\ Go(c, failed)
      BY <1>6 DEF StoreComplete, catalogVars
    <2> HIDE DEF failed
    <2> QED  BY <1>1, <1>2, <2>1, CallGoes
  <1> QED  BY <1>4, <1>5, <1>6

\* The caller goes away at an await.
LEMMA CallDrops ==
    ASSUME IInv, NEW c \in Calls, Drop(c)
    PROVE  IInv'
  <1>1. UNCHANGED <<catalog, disk, reservations, deletion, generation, live, connects,
                    debugger, inbox, nextStorage>>
    BY CallFrame DEF Drop
  <1>2. CASE call[c].pc \in {"reserving", "loading", "rejoining", "committing"}
    <2>1. Return(c)
      BY <1>2 DEF Drop
    <2> QED  BY <1>1, <1>2, <2>1, CallReturns DEF Owning, Working
  <1>3. CASE call[c].pc \notin {"reserving", "loading", "rejoining", "committing"}
    <2>1. Go(c, "cleanup") /\ call[c].pc \in Owning
      BY <1>3 DEF Drop, Owning, Working
    <2> QED  BY <1>1, <2>1, CallGoes DEF Working, Holding
  <1> QED  BY <1>2, <1>3

\* Reservations that lost none of their entries, or only changed the mark.
LEMMA MarkedReservations ==
    ASSUME reservations \in Named(Reservations), NEW n \in DOMAIN reservations,
           NEW mark \in BOOLEAN,
           reservations' = [reservations EXCEPT ![n].deleting = mark]
    PROVE  PendingStay
  <1>1. \A m \in DOMAIN reservations : reservations[m] \in Reservations
    BY NamedMember
  <1>2. /\ DOMAIN reservations' = DOMAIN reservations
        /\ \A m \in DOMAIN reservations :
              /\ reservations'[m] \in Reservations
              /\ reservations'[m].storage = reservations[m].storage
              /\ reservations'[m].completed = reservations[m].completed
    BY <1>1 DEF Reservations
  <1> QED  BY <1>2, NamedShape DEF PendingStay

\* A deletion in a good state is harmless, and stays so while nothing is reserved.
LEMMA DeletionIsHarmless ==
    ASSUME IInv, NEW a \in Actors
    PROVE  deletion[a] \in Deletions /\ Harmless(deletion[a])
  BY DEF IInv, Related, Typed, DeletesCompleted

\* A deletion that has removed its storage harms no capture of a later owner.
LEMMA ErasedIsHarmless ==
    ASSUME NEW d \in Deletions, d.pc = "erasing", Harmless(d), NEW ok \in BOOLEAN
    PROVE  Erased(d, ok) \in Deletions /\ Harmless(Erased(d, ok))
  BY ErasedIsDeletion DEF Harmless

\* delete_capture begins.
LEMMA DeletionBegins ==
    ASSUME IInv, NEW a \in Actors, NEW n \in Names, NEW ok \in BOOLEAN,
           DeleteBegin(a, n, ok)
    PROVE  IInv'
  <1> DEFINE stored == n \in DOMAIN catalog.captures
             retained == ~stored /\ n \in DOMAIN reservations /\ reservations[n].completed
                         /\ ~reservations[n].deleting
             owner == IF stored THEN catalog.captures[n] ELSE reservations[n]
             erasing == [pc |-> "erasing", name |-> n, storage |-> owner.storage,
                         retained |-> retained]
             cmd == Command("delete", n, owner.storage, a, "erasing")
             Begins == /\ stored \/ retained
                       /\ \/ \E gone \in BOOLEAN :
                                /\ deletion' = [deletion EXCEPT ![a] = Erased(erasing, gone)]
                                /\ UNCHANGED inbox
                          \/ /\ deletion' = [deletion EXCEPT ![a] = erasing]
                             /\ live /\ debugger = connects
                             /\ inbox' = Append(inbox, cmd)
  <1>1. /\ UNCHANGED <<generation, live, connects, debugger, nextStorage>>
        /\ a \in Calls => call[a].pc = "uncapturing"
        /\ IF a \in Calls THEN Return(a) ELSE UNCHANGED call
    BY DEF DeleteBegin, worldVars, targetVars, historyVars
  <1>2. /\ catalog \in Catalogs /\ disk \in Catalogs /\ reservations \in Named(Reservations)
        /\ call \in [Calls -> CallRecords] /\ deletion \in [Actors -> Deletions]
    BY DEF IInv, Typed
  <1>3. catalog' \in Catalogs /\ disk' \in Catalogs
    <2>1. CASE Persist(ok, [catalog EXCEPT !.captures = Without(@, n)])
      BY <2>1, WrittenTyped, PersistTyped
    <2>2. CASE UNCHANGED catalogVars
      BY <1>2, <2>2 DEF catalogVars
    <2> QED  BY <2>1, <2>2 DEF DeleteBegin
  <1>4. WorkersStay
    <2>1. CASE a \in Calls
      <3>1. NoCall \in CallRecords /\ NoCall.pc = "idle" /\ call' = [call EXCEPT ![a] = NoCall]
        BY <1>1, <2>1, NothingIsTyped DEF NoCall, Return
      <3>2. call[a].pc \notin Working
        BY <1>1, <2>1 DEF Working
      <3> QED  BY <1>2, <3>1, <3>2 DEF WorkersStay
    <2>2. CASE a \notin Calls
      BY <1>1, <1>2, <2>2 DEF WorkersStay
    <2> QED  BY <2>1, <2>2
  <1>5. PendingStay
    <2>1. CASE retained /\ reservations' = [reservations EXCEPT ![n].deleting = TRUE]
      BY <1>2, <2>1, MarkedReservations
    <2>2. CASE UNCHANGED reservations
      BY <1>2, <2>2 DEF PendingStay
    <2> QED  BY <2>1, <2>2 DEF DeleteBegin
  <1>6. Begins \/ UNCHANGED <<deletion, inbox>>
    BY DEF DeleteBegin
  <1>7. ASSUME NEW d \in Deletions, Harmless(d), deletion' = [deletion EXCEPT ![a] = d],
               AsksToForget
        PROVE  IInv'
    BY <1>1, <1>3, <1>4, <1>5, <1>7, DeletionMoves
  <1>8. CASE UNCHANGED <<deletion, inbox>>
    <2>1. deletion' = [deletion EXCEPT ![a] = deletion[a]]
      BY <1>2, <1>8
    <2> QED  BY <1>7, <1>8, <2>1, DeletionIsHarmless DEF AsksToForget
  <1>9. CASE Begins
    <2>1. owner.storage \in Nat
      <3>1. CASE stored
        <4>1. catalog.captures \in Named(Entries)
          BY <1>2 DEF Catalogs
        <4>2. catalog.captures[n] \in Entries
          BY <3>1, <4>1, NamedMember
        <4> QED  BY <3>1, <4>2 DEF Entries
      <3>2. CASE retained
        <4>1. reservations[n] \in Reservations
          BY <1>2, <3>2, NamedMember
        <4> QED  BY <3>2, <4>1 DEF Reservations
      <3> QED  BY <1>9, <3>1, <3>2
    <2>2. retained => /\ reservations[n].completed
                      /\ owner.storage < nextStorage
      BY DEF IInv, Related, PendingHasCall
    <2> DEFINE isRetained == retained
               storage == owner.storage
    <2>3. erasing = [pc |-> "erasing", name |-> n, storage |-> storage, retained |-> isRetained]
      OBVIOUS
    <2>4. isRetained \in BOOLEAN
      BY DEF isRetained
    <2>5. erasing \in Deletions
      BY <2>1, <2>3, <2>4 DEF Deletions, DeletionPcs
    <2>6. /\ erasing.pc = "erasing" /\ erasing.name = n /\ erasing.storage = owner.storage
          /\ erasing.retained => retained
      OBVIOUS
    <2>7. cmd \in Commands /\ cmd.op = "delete" /\ cmd.pc = "erasing"
      BY <2>1 DEF Command, Commands
    <2> HIDE DEF erasing, cmd, owner, retained, isRetained, storage
    <2>8. Harmless(erasing)
      BY <2>2, <2>6 DEF Harmless
    <2>9. CASE \E gone \in BOOLEAN :
                  /\ deletion' = [deletion EXCEPT ![a] = Erased(erasing, gone)]
                  /\ UNCHANGED inbox
      BY <1>7, <2>5, <2>6, <2>8, <2>9, ErasedIsHarmless DEF AsksToForget
    <2>10. CASE /\ deletion' = [deletion EXCEPT ![a] = erasing]
                /\ live /\ debugger = connects
                /\ inbox' = Append(inbox, cmd)
      <3>1. debugger # 0
        BY <2>10 DEF IInv, Related, DebuggerOfConnect
      <3>2. AsksToForget
        BY <2>7, <2>10, <3>1 DEF AsksToForget
      <3> QED  BY <1>7, <2>5, <2>8, <2>10, <3>2
    <2> QED  BY <1>9, <2>9, <2>10
  <1> QED  BY <1>6, <1>8, <1>9

\* The other steps of a deletion.
LEMMA DeletionGoesOn ==
    ASSUME IInv, NEW a \in Actors,
           \/ \E ok \in BOOLEAN : Remove(a, ok)
           \/ Forget(a) \/ RestoreDeletion(a) \/ DropDeletion(a)
    PROVE  IInv'
  <1> DEFINE d == deletion[a]
  <1>1. /\ UNCHANGED <<catalog, disk, call, inbox, generation, live, connects, debugger,
                      nextStorage>>
    BY DEF Remove, Forget, RestoreDeletion, DropDeletion, catalogVars, worldVars, targetVars,
           historyVars
  <1>2. /\ catalog \in Catalogs /\ disk \in Catalogs /\ reservations \in Named(Reservations)
        /\ call \in [Calls -> CallRecords] /\ deletion \in [Actors -> Deletions]
    BY DEF IInv, Typed
  <1>3. WorkersStay /\ AsksToForget /\ catalog' \in Catalogs /\ disk' \in Catalogs
    BY <1>1, <1>2 DEF WorkersStay, AsksToForget
  <1>4. d \in Deletions /\ Harmless(d)
    BY DeletionIsHarmless
  <1>5. NoDeletion \in Deletions /\ Harmless(NoDeletion)
    BY NothingIsTyped DEF NoDeletion, Harmless
  <1>6. UNCHANGED reservations => PendingStay
    BY <1>2 DEF PendingStay
  <1>7. ASSUME NEW new \in Deletions, Harmless(new), deletion' = [deletion EXCEPT ![a] = new],
               PendingStay
        PROVE  IInv'
    BY <1>1, <1>3, <1>7, DeletionMoves
  <1>8. ASSUME NEW ok \in BOOLEAN, Remove(a, ok)
        PROVE  IInv'
    <2>1. UNCHANGED reservations
      BY <1>8 DEF Remove
    <2>2. CASE deletion' = [deletion EXCEPT ![a] = NoDeletion]
      BY <1>5, <1>6, <1>7, <2>1, <2>2
    <2>3. ASSUME NEW pc \in {"forgetting", "restoring"}, d.retained,
                 deletion' = [deletion EXCEPT ![a] = [d EXCEPT !.pc = pc]]
          PROVE  IInv'
      <3> DEFINE new == [d EXCEPT !.pc = pc]
      <3>1. /\ new \in Deletions /\ new.retained = d.retained
            /\ new.name = d.name /\ new.storage = d.storage
        BY <1>4 DEF Deletions, DeletionPcs
      <3> HIDE DEF new
      <3>2. Harmless(new)
        BY <1>4, <2>3, <3>1 DEF Harmless
      <3>3. deletion' = [deletion EXCEPT ![a] = new]
        BY <2>3 DEF new
      <3> QED  BY <1>6, <1>7, <2>1, <3>1, <3>2, <3>3
    <2>4. deletion' = [deletion EXCEPT ![a] =
                          IF ~d.retained THEN NoDeletion
                          ELSE [d EXCEPT !.pc = IF ok THEN "forgetting" ELSE "restoring"]]
      BY <1>8 DEF Remove
    <2> QED  BY <2>2, <2>3, <2>4
  <1>9. CASE Forget(a)
    <2>1. PendingStay
      <3>1. CASE Marked(a)
        <4>1. reservations' = Without(reservations, d.name) /\ d.pc = "forgetting"
          BY <1>9, <3>1 DEF Forget
        <4>2. reservations[d.name].completed
          BY <1>4, <3>1, <4>1 DEF Harmless, Marked
        <4>3. /\ reservations' \in Named(Reservations)
              /\ DOMAIN reservations' = DOMAIN reservations \ {d.name}
              /\ \A m \in DOMAIN reservations' : reservations'[m] = reservations[m]
          BY <1>2, <4>1, ReservationRemoved
        <4> QED  BY <4>2, <4>3 DEF PendingStay
      <3>2. CASE ~Marked(a)
        BY <1>6, <1>9, <3>2 DEF Forget
      <3> QED  BY <3>1, <3>2
    <2> QED  BY <1>5, <1>7, <1>9, <2>1 DEF Forget
  <1>10. CASE RestoreDeletion(a)
    <2>1. PendingStay
      <3>1. CASE Marked(a)
        BY <1>2, <1>10, <3>1, MarkedReservations DEF RestoreDeletion, Marked
      <3>2. CASE ~Marked(a)
        BY <1>6, <1>10, <3>2 DEF RestoreDeletion
      <3> QED  BY <3>1, <3>2
    <2> QED  BY <1>5, <1>7, <1>10, <2>1 DEF RestoreDeletion
  <1>11. CASE DropDeletion(a)
    <2>1. UNCHANGED reservations /\ deletion' = [deletion EXCEPT ![a] = Erased(d, FALSE)]
      BY <1>11 DEF DropDeletion
    <2>2. Erased(d, FALSE) = IF d.retained THEN [d EXCEPT !.pc = "restoring"] ELSE NoDeletion
      BY DEF Erased
    <2>3. /\ [d EXCEPT !.pc = "restoring"] \in Deletions
          /\ Harmless([d EXCEPT !.pc = "restoring"])
      <3> DEFINE new == [d EXCEPT !.pc = "restoring"]
      <3>1. /\ new \in Deletions /\ new.pc = "restoring" /\ new.retained = d.retained
            /\ new.name = d.name /\ new.storage = d.storage
        BY <1>4 DEF Deletions, DeletionPcs
      <3> HIDE DEF new
      <3>2. Harmless(new)
        BY <1>4, <3>1 DEF Harmless
      <3> QED  BY <3>1, <3>2 DEF new
    <2> QED  BY <1>5, <1>6, <1>7, <2>1, <2>2, <2>3
  <1> QED  BY <1>8, <1>9, <1>10, <1>11

\* The context, the connection and the process.
LEMMA WorldSteps ==
    ASSUME IInv,
           \/ \E ok \in BOOLEAN : DeleteContext(ok)
           \/ Purge \/ CreateContext \/ Connect \/ Disconnect \/ Restart
    PROVE  IInv'
  <1>1. /\ catalog \in Catalogs /\ disk \in Catalogs
        /\ generation \in Nat /\ connects \in Nat /\ debugger \in Nat /\ live \in BOOLEAN
        /\ (debugger = 0 => Len(inbox) = 0) /\ (live => connects # 0)
    BY DEF IInv, Typed, Related, DebuggerOfConnect
  <1>2. ASSUME NEW ok \in BOOLEAN, DeleteContext(ok)
        PROVE  IInv'
    <2>1. catalog' \in Catalogs /\ disk' \in Catalogs
      BY <1>2, WrittenTyped, PersistTyped DEF DeleteContext
    <2>2. UNCHANGED <<call, deletion, inbox, nextStorage, connects, debugger>>
      BY <1>2 DEF DeleteContext, historyVars
    <2>3. CASE ok
      <3>1. reservations' = <<>> /\ live' = FALSE /\ generation' = 0
        BY <1>2, <2>3 DEF DeleteContext
      <3> QED  BY <1>1, <2>1, <2>2, <3>1, WorldMoves
    <2>4. CASE ~ok
      <3>1. UNCHANGED <<reservations, live, generation>>
        BY <1>2, <2>4 DEF DeleteContext
      <3> QED  BY <1>1, <2>1, <2>2, <3>1, WorldMoves
    <2> QED  BY <2>3, <2>4
  <1>3. CASE Purge
    BY <1>1, <1>3, WorldMoves DEF Purge, catalogVars, targetVars, historyVars
  <1>4. CASE CreateContext
    BY <1>1, <1>4, WorldMoves DEF CreateContext, catalogVars, historyVars
  <1>5. CASE Connect
    BY <1>1, <1>5, WorldMoves DEF Connect, catalogVars, historyVars
  <1>6. CASE Disconnect
    BY <1>1, <1>6, WorldMoves DEF Disconnect, catalogVars, historyVars
  <1>7. CASE Restart
    BY <1>1, <1>7, WorldMoves DEF Restart, historyVars
  <1> QED  BY <1>2, <1>3, <1>4, <1>5, <1>6, <1>7

\* The strengthened invariant holds at first and every step keeps it.
LEMMA Initially == Init => IInv
  <1> SUFFICES ASSUME Init PROVE IInv
    OBVIOUS
  <1>1. /\ call \in [Calls -> CallRecords] /\ \A c \in Calls : call[c].pc \in {"idle", "never"}
    <2>1. PICK present \in Clients :
             call = [c \in Calls |-> IF c \in present THEN NoCall ELSE Never(NoCall)]
      BY DEF Init
    <2>2. NoCall.pc = "idle" /\ Never(NoCall).pc = "never"
      BY DEF NoCall, Never
    <2> QED  BY <2>1, <2>2, NothingIsTyped
  <1>2. /\ deletion \in [Actors -> Deletions]
        /\ \A a \in Actors : ~deletion[a].retained /\ deletion[a].pc \in {"idle", "never"}
    <2>1. PICK present \in Clients :
             deletion = [a \in Actors |-> IF a \in present THEN NoDeletion
                                          ELSE Never(NoDeletion)]
      BY DEF Init
    <2>2. /\ NoDeletion.pc = "idle" /\ Never(NoDeletion).pc = "never"
          /\ ~NoDeletion.retained /\ ~Never(NoDeletion).retained
      BY DEF NoDeletion, Never
    <2> QED  BY <2>1, <2>2, NothingIsTyped
  <1>3. inbox \in Seq(Commands) /\ Len(inbox) = 0
    BY EmptySeq DEF Init
  <1>4. reservations \in Named(Reservations) /\ DOMAIN reservations = {}
    BY NamedEmpty DEF Init
  <1>5. Typed
    BY <1>1, <1>2, <1>3, <1>4, NothingIsTyped DEF Init, Typed
  <1>6. StorageIsOwn
    BY <1>1 DEF StorageIsOwn, Owning, Working
  <1>7. PendingHasCall
    BY <1>4 DEF PendingHasCall
  <1>8. DeletesCompleted
    BY <1>2 DEF DeletesCompleted, Harmless
  <1>9. CaptureComesFirst
    BY <1>3 DEF CaptureComesFirst
  <1>10. DebuggerOfConnect
    BY <1>1, <1>3 DEF Init, DebuggerOfConnect, Owning, Working
  <1>11. SnapshotHasCall
    BY <1>3 DEF SnapshotHasCall
  <1> QED
    BY <1>5, <1>6, <1>7, <1>8, <1>9, <1>10, <1>11 DEF IInv, Related

\* IInv is inductive.
LEMMA EveryStep == IInv /\ [Next]_vars => IInv'
  <1> SUFFICES ASSUME IInv, [Next]_vars PROVE IInv'
    OBVIOUS
  <1>1. CASE UNCHANGED vars
    BY <1>1, WorldMoves DEF vars, IInv, Typed, Related, DebuggerOfConnect
  <1>2. ASSUME NEW c \in Calls, CallSteps(c)
        PROVE  IInv'
    <2>1. ASSUME NEW ok \in BOOLEAN, DeleteBegin(c, call[c].name, ok)
          PROVE  IInv'
      <3>1. call[c].name \in Names /\ c \in Actors
        BY DEF IInv, Typed, CallRecords, Actors
      <3> QED  BY <2>1, <3>1, DeletionBegins
    <2> QED
      BY <1>2, <2>1, ReserveStep, CommitStep, CallStores, CallWorks, CallLooksUp, CallAsks,
         CallEnds DEF CallSteps
  <1>3. ASSUME NEW c \in Calls,
               \/ \E n \in RequestedNames : Begin(c, n)
               \/ BeginAutomatic(c) \/ Cancel(c) \/ Drop(c)
        PROVE  IInv'
    BY <1>3, CallBegins, CallWorks, CallDrops
  <1>4. ASSUME NEW a \in Actors, DeletionSteps(a) \/ DropDeletion(a)
        PROVE  IInv'
    BY <1>4, DeletionGoesOn DEF DeletionSteps
  <1>5. ASSUME NEW a \in Deleters, NEW ok \in BOOLEAN,
               NEW n \in DOMAIN catalog.captures \cup DOMAIN reservations,
               DeleteBegin(a, n, ok)
        PROVE  IInv'
    <2>1. catalog.captures \in Named(Entries) /\ reservations \in Named(Reservations)
      BY DEF IInv, Typed, Catalogs
    <2>2. n \in Names /\ a \in Actors
      BY <2>1, NamedShape DEF Actors
    <2> QED  BY <1>5, <2>2, DeletionBegins
  <1>6. ASSUME NEW ok \in BOOLEAN, DebuggerStep(ok) \/ DeleteContext(ok)
        PROVE  IInv'
    BY <1>6, DebuggerServes, WorldSteps
  <1>7. CASE Purge \/ CreateContext \/ Connect \/ Disconnect \/ Restart
    BY <1>7, WorldSteps
  <1>8. CASE DebuggerEnds
    BY <1>8, DebuggerStops
  <1>9. CASE Crash
    BY <1>9, ProcessEnds
  <1> QED  BY <1>1, <1>2, <1>3, <1>4, <1>5, <1>6, <1>7, <1>8, <1>9 DEF Next

\* Every reachable state of the capture store satisfies IInv: a storage has one
\* owner, pending captures have the call that works on them, and a deletion does
\* not reach what was captured under its name afterwards.
THEOREM Invariance == Spec => []IInv
  BY Initially, EveryStep, PTL DEF Spec

\* Each name reserved for an incomplete capture has a call that is at work on
\* it, and while the target is connected each heap snapshot still to be taken
\* finds its name reserved for it.
THEOREM ReservationsAreWorkedOn == Spec => []ReservationsMatchWork
  <1>1. IInv => ReservationsMatchWork
    <2> SUFFICES ASSUME IInv PROVE ReservationsMatchWork
      OBVIOUS
    <2>1. ASSUME NEW n \in DOMAIN reservations
          PROVE  \/ reservations[n].completed
                 \/ \E c \in Calls : /\ call[c].pc # "idle"
                                     /\ call[c].name = n
                                     /\ call[c].storage = reservations[n].storage
      BY DEF IInv, Related, PendingHasCall, Working
    <2>2. ASSUME live, NEW cmd \in Range(inbox), cmd.op = "capture", cmd.by \in HeapCalls
          PROVE  /\ cmd.name \in DOMAIN reservations
                 /\ reservations[cmd.name].storage = cmd.storage
      <3>1. inbox \in Seq(Commands)
        BY DEF IInv, Typed
      <3>2. PICK i \in 1..Len(inbox) : cmd = inbox[i]
        BY <2>2, <3>1, LenProperties DEF Range
      <3> QED  BY <2>2, <3>2 DEF IInv, Related, SnapshotHasCall, Pending, Held
    <2> QED  BY <2>1, <2>2 DEF ReservationsMatchWork
  <1> QED  BY <1>1, Invariance, PTL

(***************************************************************************)
(* Generated names                                                         *)
(***************************************************************************)
\* The counter of generated names, in memory and on disk, has passed every
\* name it gave; and a call that has not begun asks for no name.
Numbered ==
    /\ disk.nextId = catalog.nextId
    /\ \A n \in issued : n \in Names /\ n[2] < catalog.nextId
    /\ \A c \in Calls : call[c].pc = "idle" => ~call[c].automatic

\* A step that gives a call a name gives it one not given before.
FreshStep ==
    \A c \in Calls :
       call[c].automatic /\ call[c].name = NoName /\ call'[c].name # NoName
          => call'[c].name \notin issued

\* A step that gives no name.
CallsKeepNames ==
    \A o \in Calls : \/ call'[o] = call[o]
                     \/ call'[o] = NoCall
                     \/ /\ call'[o].pc # "idle"
                        /\ call'[o].name = call[o].name \/ ~call[o].automatic

CounterStays ==
    \/ UNCHANGED <<catalog, disk>>
    \/ catalog' = disk' /\ catalog'.nextId = catalog.nextId
    \/ catalog' = disk /\ disk' = disk

\* Steps that neither move the counter nor name a call give out no number.
LEMMA OthersKeepNumbers ==
    ASSUME Numbered, CounterStays, CallsKeepNames, UNCHANGED issued
    PROVE  Numbered' /\ FreshStep
  <1>1. ~NoCall.automatic /\ NoCall.name = NoName
    BY DEF NoCall
  <1>2. catalog'.nextId = catalog.nextId /\ disk'.nextId = catalog.nextId
    BY DEF Numbered, CounterStays
  <1>3. \A c \in Calls : call'[c].pc = "idle" => ~call'[c].automatic
    BY <1>1 DEF Numbered, CallsKeepNames
  <1>4. \A c \in Calls : call[c].automatic /\ call[c].name = NoName => call'[c].name = NoName
    BY <1>1 DEF CallsKeepNames
  <1> QED  BY <1>2, <1>3, <1>4 DEF Numbered, FreshStep

\* Writing a catalog with other captures leaves the counter alone.
LEMMA PersistKeepsNumbers ==
    ASSUME NEW captures, NEW ok \in BOOLEAN, catalog \in Catalogs,
           Persist(ok, [catalog EXCEPT !.captures = captures])
    PROVE  CounterStays
  BY DEF Persist, catalogVars, Catalogs, CounterStays

\* A handler that only goes on, or returns, keeps its name.
LEMMA MovesKeepNames ==
    ASSUME call \in [Calls -> CallRecords], NEW c \in Calls,
           \/ Return(c)
           \/ \E pc \in CallPcs \ {"idle"} : Go(c, pc)
           \/ UNCHANGED call
    PROVE  CallsKeepNames
  <1>1. CASE Return(c)
    BY <1>1 DEF Return, CallsKeepNames
  <1>2. ASSUME NEW pc \in CallPcs \ {"idle"}, Go(c, pc)
        PROVE  CallsKeepNames
    BY <1>2, CallAt DEF Go, CallsKeepNames
  <1>3. CASE UNCHANGED call
    BY <1>3 DEF CallsKeepNames
  <1> QED  BY <1>1, <1>2, <1>3

\* A generated name counts on from the counter, and the counter passes it.
LEMMA ReserveNumbers ==
    ASSUME IInv, Numbered, NEW c \in Calls, NEW ok \in BOOLEAN, Reserve(c, ok)
    PROVE  Numbered' /\ FreshStep
  <1>1. call \in [Calls -> CallRecords] /\ catalog \in Catalogs /\ catalog.nextId \in Nat
    BY DEF IInv, Typed, Catalogs
  <1>2. PICK n \in NamesFor(c) :
           /\ IF call[c].automatic
              THEN /\ Persist(ok, [catalog EXCEPT !.nextId = n[2] + 1])
                   /\ issued' = IF ok THEN issued \cup {n} ELSE issued
              ELSE ok /\ UNCHANGED <<catalogVars, faults, issued>>
           /\ \/ Return(c) /\ ~ok
              \/ \E pc \in {"capturing", "abandoning"} :
                    call' = [call EXCEPT ![c] =
                                [[call[c] EXCEPT !.name = n, !.storage = nextStorage]
                                    EXCEPT !.pc = pc]]
    BY DEF Reserve
  <1>3. /\ \A o \in Calls \ {c} : call'[o] = call[o]
        /\ call'[c] = NoCall \/ (call'[c].pc # "idle" /\ call'[c].name = n)
    <2>1. CASE Return(c)
      BY <1>1, <2>1 DEF Return
    <2>2. ASSUME NEW pc \in {"capturing", "abandoning"},
                 call' = [call EXCEPT ![c] =
                             [[call[c] EXCEPT !.name = n, !.storage = nextStorage]
                                 EXCEPT !.pc = pc]]
          PROVE  <1>3!:
      <3> DEFINE new == [[call[c] EXCEPT !.name = n, !.storage = nextStorage] EXCEPT !.pc = pc]
      <3>1. new.pc = pc /\ new.name = n
        BY <1>1 DEF CallRecords
      <3> HIDE DEF new
      <3>2. call' = [call EXCEPT ![c] = new]
        BY <2>2 DEF new
      <3> QED  BY <1>1, <3>1, <3>2
    <2> QED  BY <1>2, <2>1, <2>2
  <1>4. ~NoCall.automatic /\ NoCall.name = NoName
    BY DEF NoCall
  <1>5. \A o \in Calls : call'[o].pc = "idle" => ~call'[o].automatic
    BY <1>3, <1>4 DEF Numbered
  <1>6. CASE call[c].automatic
    <2>1. /\ n \in Names /\ n[2] \in Nat /\ n[2] >= catalog.nextId
      <3>1. n \in FreeNames(Kind(c))
        BY <1>6 DEF NamesFor
      <3>2. MaxStorage \in Nat /\ Kind(c) \in Kinds
        BY CaptureAssumption DEF Kind, Kinds
      <3> QED  BY <3>1, <3>2 DEF FreeNames, Names
    <2>2. n \notin issued
      BY <1>1, <2>1 DEF Numbered
    <2>3. \A m \in issued : m[2] \in Nat
      <3>1. MaxStorage \in Nat
        BY CaptureAssumption
      <3> QED  BY <3>1 DEF Numbered, Names
    <2>4. FreshStep
      BY <1>3, <1>4, <2>2 DEF FreshStep
    <2>5. CASE ok
      <3>1. catalog' = disk' /\ catalog'.nextId = n[2] + 1 /\ issued' = issued \cup {n}
        BY <1>1, <1>2, <1>6, <2>5 DEF Persist, Catalogs
      <3> QED  BY <1>1, <1>5, <2>1, <2>3, <2>4, <3>1 DEF Numbered
    <2>6. CASE ~ok
      <3>1. UNCHANGED <<catalog, disk, issued>>
        BY <1>2, <1>6, <2>6 DEF Persist, catalogVars
      <3> QED  BY <1>5, <2>4, <3>1 DEF Numbered
    <2> QED  BY <2>5, <2>6
  <1>7. CASE ~call[c].automatic
    <2>1. UNCHANGED <<catalog, disk, issued>>
      BY <1>2, <1>7 DEF catalogVars
    <2> QED  BY <1>3, <1>5, <1>7, <2>1 DEF Numbered, FreshStep
  <1> QED  BY <1>6, <1>7

\* The steps of the calls that send, answer or return.
LEMMA CallStepsKeepNames ==
    ASSUME IInv, NEW c \in Calls,
           \/ Cancel(c) \/ Drop(c) \/ Rejoin(c) \/ Refused(c) \/ Rejoined(c) \/ PromoteLoad(c)
           \/ Captured(c) \/ Abandon(c) \/ StoreCheck(c) \/ Retain(c) \/ Cleanup(c) \/ Release(c)
           \/ \E renamed, ok \in BOOLEAN : PublishFile(c, renamed, ok)
                                           \/ StoreWrite(c, renamed, ok)
    PROVE  CallsKeepNames /\ CounterStays /\ UNCHANGED issued
  <1>1. call \in [Calls -> CallRecords]
    BY DEF IInv, Typed
  <1>2. CounterStays /\ UNCHANGED issued
    BY DEF CounterStays, Cancel, Drop, Rejoin, Refused, Rejoined, PromoteLoad, Captured, Abandon,
           StoreCheck, Retain, Cleanup, Release, PublishFile, StoreWrite, callFrame, catalogVars,
           worldVars, historyVars
  <1>3. CASE Cancel(c)
    <2>1. call' = [call EXCEPT ![c].cancelled = TRUE] /\ call[c].pc # "idle"
      BY <1>3 DEF Cancel
    <2>2. /\ call'[c].pc = call[c].pc /\ call'[c].name = call[c].name
          /\ \A o \in Calls \ {c} : call'[o] = call[o]
      BY <1>1, <2>1 DEF CallRecords
    <2> QED  BY <1>2, <2>1, <2>2 DEF CallsKeepNames
  <1>4. CASE Rejoined(c) /\ ~Return(c)
    <2>1. call' = [call EXCEPT ![c].pc = "loading",
                               ![c].storage = reservations[call[c].name].storage]
      BY <1>4 DEF Rejoined
    <2>2. /\ call'[c].pc = "loading" /\ call'[c].name = call[c].name
          /\ \A o \in Calls \ {c} : call'[o] = call[o]
      BY <1>1, <2>1 DEF CallRecords
    <2> QED  BY <1>2, <2>2 DEF CallsKeepNames
  <1>5. CASE ~Cancel(c) /\ ~(Rejoined(c) /\ ~Return(c))
    <2>1. Return(c) \/ \E pc \in Owning \cup {"rejoining", "committing"} : Go(c, pc)
      <3>1. CASE Drop(c) \/ Rejoin(c) \/ Refused(c) \/ Rejoined(c) \/ PromoteLoad(c)
        BY <1>5, <3>1 DEF Drop, Rejoin, Refused, Rejoined, PromoteLoad, Owning, Working
      <3>2. CASE Captured(c)
        BY <3>2 DEF Captured, Send, Owning, Working
      <3>3. CASE Cleanup(c)
        BY <3>3 DEF Cleanup, Send, Owning, Working
      <3>4. CASE Abandon(c) \/ Release(c)
        BY <3>4 DEF Abandon, Release
      <3>5. CASE StoreCheck(c) \/ Retain(c)
        BY <3>5 DEF StoreCheck, Retain, Owning, Working
      <3>6. CASE \E renamed, ok \in BOOLEAN : PublishFile(c, renamed, ok)
                                              \/ StoreWrite(c, renamed, ok)
        BY <3>6 DEF PublishFile, StoreWrite, Owning, Working
      <3> QED  BY <1>5, <3>1, <3>2, <3>3, <3>4, <3>5, <3>6
    <2>2. \A pc \in Owning \cup {"rejoining", "committing"} : pc \in CallPcs \ {"idle"}
      BY DEF CallPcs, Owning, Working
    <2> QED  BY <1>1, <1>2, <2>1, <2>2, MovesKeepNames
  <1> QED  BY <1>2, <1>3, <1>4, <1>5

\* Every other step keeps the names and the counter.
LEMMA StepNumbers ==
    ASSUME IInv, Numbered, [Next]_vars
    PROVE  Numbered' /\ FreshStep
  <1>1. /\ call \in [Calls -> CallRecords] /\ catalog \in Catalogs /\ disk \in Catalogs
        /\ deletion \in [Actors -> Deletions]
    BY DEF IInv, Typed
  <1>2. ASSUME CallsKeepNames, CounterStays, UNCHANGED issued
        PROVE  Numbered' /\ FreshStep
    BY <1>2, OthersKeepNumbers
  <1>3. UNCHANGED call => CallsKeepNames
    BY DEF CallsKeepNames
  <1>4. UNCHANGED <<catalog, disk>> => CounterStays
    BY DEF CounterStays
  <1>5. CASE UNCHANGED vars
    BY <1>2, <1>3, <1>4, <1>5 DEF vars
  <1>6. ASSUME NEW c \in Calls, NEW ok \in BOOLEAN,
               Commit(c, ok) \/ StoreComplete(c, ok)
        PROVE  Numbered' /\ FreshStep
    <2>1. CallsKeepNames
      <3>1. Return(c) \/ \E pc \in {"retaining", "cleanup", "uncapturing"} : Go(c, pc)
        BY <1>6 DEF Commit, StoreComplete
      <3>2. {"retaining", "cleanup", "uncapturing"} \subseteq CallPcs \ {"idle"}
        BY DEF CallPcs, Owning, Working
      <3> QED  BY <1>1, <3>1, <3>2, MovesKeepNames
    <2>2. CounterStays
      <3>1. Persist(ok, WithEntry(call[c].name)) \/ UNCHANGED <<catalog, disk>>
        BY <1>6 DEF Commit, StoreComplete, catalogVars
      <3>2. ASSUME Persist(ok, WithEntry(call[c].name))
            PROVE  CounterStays
        BY <1>1, <3>2, PersistKeepsNumbers DEF WithEntry
      <3> QED  BY <1>4, <3>1, <3>2
    <2> QED  BY <1>2, <1>6, <2>1, <2>2 DEF Commit, StoreComplete, worldVars, historyVars
  <1>7. ASSUME NEW a \in Actors, NEW n, NEW ok \in BOOLEAN, DeleteBegin(a, n, ok)
        PROVE  Numbered' /\ FreshStep
    <2>1. CallsKeepNames
      <3>1. CASE a \in Calls
        BY <1>1, <1>7, <3>1, MovesKeepNames DEF DeleteBegin
      <3>2. CASE a \notin Calls
        BY <1>3, <1>7, <3>2 DEF DeleteBegin
      <3> QED  BY <3>1, <3>2
    <2>2. CounterStays
      <3>1. \/ Persist(ok, [catalog EXCEPT !.captures = Without(@, n)])
            \/ UNCHANGED <<catalog, disk>>
        BY <1>7 DEF DeleteBegin, catalogVars
      <3>2. ASSUME Persist(ok, [catalog EXCEPT !.captures = Without(@, n)])
            PROVE  CounterStays
        BY <1>1, <3>2, PersistKeepsNumbers
      <3> QED  BY <1>4, <3>1, <3>2
    <2> QED  BY <1>2, <1>7, <2>1, <2>2 DEF DeleteBegin, worldVars, historyVars
  <1>8. ASSUME NEW c \in Calls,
               \/ \E n \in RequestedNames : Begin(c, n)
               \/ BeginAutomatic(c)
        PROVE  Numbered' /\ FreshStep
    <2>1. /\ call[c].pc = "idle"
          /\ call'[c].pc \in {"loading", "reserving"}
          /\ \A o \in Calls \ {c} : call'[o] = call[o]
      BY <1>1, <1>8 DEF Begin, BeginAutomatic, Called
    <2>2. CallsKeepNames
      BY <2>1 DEF CallsKeepNames, Numbered
    <2>3. CounterStays /\ UNCHANGED issued
      BY <1>8 DEF Begin, BeginAutomatic, callFrame, catalogVars, worldVars, historyVars,
                  CounterStays
    <2> QED  BY <1>2, <2>2, <2>3
  <1>9. ASSUME NEW c \in Calls, CallSteps(c)
        PROVE  Numbered' /\ FreshStep
    <2>1. ASSUME NEW ok \in BOOLEAN, Reserve(c, ok)
          PROVE  Numbered' /\ FreshStep
      BY <2>1, ReserveNumbers
    <2>2. ASSUME NEW ok \in BOOLEAN, DeleteBegin(c, call[c].name, ok)
          PROVE  Numbered' /\ FreshStep
      BY <1>7, <2>2 DEF Actors
    <2> QED  BY <1>2, <1>6, <1>9, <2>1, <2>2, CallStepsKeepNames DEF CallSteps
  <1>10. ASSUME NEW c \in Calls, Cancel(c) \/ Drop(c)
         PROVE  Numbered' /\ FreshStep
    BY <1>2, <1>10, CallStepsKeepNames
  <1>11. ASSUME NEW a \in Actors, DeletionSteps(a) \/ DropDeletion(a)
         PROVE  Numbered' /\ FreshStep
    <2>1. UNCHANGED <<catalog, disk, call, issued>>
      BY <1>11 DEF DeletionSteps, DropDeletion, Remove, Forget, RestoreDeletion, catalogVars,
                   worldVars, historyVars
    <2> QED  BY <1>2, <1>3, <1>4, <2>1
  <1>12. ASSUME NEW ok \in BOOLEAN, DebuggerStep(ok)
         PROVE  Numbered' /\ FreshStep
    <2>1. UNCHANGED <<catalog, disk, issued>>
      BY <1>12 DEF DebuggerStep, catalogVars, historyVars
    <2> DEFINE cmd == Head(inbox)
    <2>2. Answer(cmd, ok) /\ cmd \in Commands /\ (cmd.pc # "erasing" => cmd.by \in Calls)
      <3>1. inbox \in Seq(Commands) /\ inbox # <<>>
        BY <1>12 DEF IInv, Typed, DebuggerStep
      <3>2. cmd \in Commands /\ cmd = inbox[1] /\ 1 \in 1..Len(inbox)
        BY <3>1, HeadTailProperties, EmptySeq, LenProperties
      <3>3. Answer(cmd, ok)
        BY <1>12 DEF DebuggerStep, ServeCapture, ServeCopy, ServeDelete
      <3> QED  BY <3>2, <3>3 DEF IInv, Related, CaptureComesFirst
    <2> HIDE DEF cmd
    <2>3. \A o \in Calls : \/ call'[o] = call[o]
                           \/ call'[o].pc \in Working /\ call'[o].name = call[o].name
      BY <2>2, AnswerMoves
    <2>4. CallsKeepNames
      BY <2>3 DEF CallsKeepNames, Working
    <2> QED  BY <1>2, <1>4, <2>1, <2>4
  <1>13. ASSUME NEW ok \in BOOLEAN, DeleteContext(ok)
         PROVE  Numbered' /\ FreshStep
    <2>1. CounterStays
      BY <1>1, <1>13, PersistKeepsNumbers DEF DeleteContext
    <2> QED  BY <1>2, <1>3, <1>13, <2>1 DEF DeleteContext, historyVars
  <1>14. CASE Purge \/ CreateContext \/ Connect \/ Disconnect
    <2>1. UNCHANGED <<catalog, disk, call, issued>>
      BY <1>14 DEF Purge, CreateContext, Connect, Disconnect, catalogVars, historyVars
    <2> QED  BY <1>2, <1>3, <1>4, <2>1
  <1>15. CASE Restart
    <2>1. CounterStays /\ UNCHANGED <<call, issued>>
      BY <1>15 DEF Restart, historyVars, CounterStays
    <2> QED  BY <1>2, <1>3, <2>1
  <1>16. CASE DebuggerEnds
    <2>1. UNCHANGED <<catalog, disk, issued>>
      BY <1>16 DEF DebuggerEnds, catalogVars, historyVars
    <2>2. ASSUME NEW o \in Calls, call[o].pc \in Waiting
          PROVE  call'[o].pc # "idle" /\ call'[o].name = call[o].name
      <3> DEFINE pc == Answered(call[o].pc, FALSE)
      <3>1. pc \in Working \cap CallPcs
        BY <2>2, AnsweredWorks
      <3>2. call'[o] = [call[o] EXCEPT !.pc = pc]
        BY <1>16, <2>2 DEF DebuggerEnds
      <3> HIDE DEF pc
      <3> QED  BY <1>1, <3>1, <3>2, CallAt DEF Working
    <2>3. CallsKeepNames
      BY <1>16, <2>2 DEF DebuggerEnds, CallsKeepNames
    <2> QED  BY <1>2, <1>4, <2>1, <2>3
  <1>17. CASE Crash
    <2>1. UNCHANGED <<catalog, disk, issued>>
      BY <1>17 DEF Crash, catalogVars, historyVars
    <2>2. CallsKeepNames
      BY <1>1, <1>17 DEF Crash, Idle, CallsKeepNames
    <2> QED  BY <1>2, <1>4, <2>1, <2>2
  <1>18. ASSUME NEW a \in Deleters, NEW n, NEW ok \in BOOLEAN, DeleteBegin(a, n, ok)
         PROVE  Numbered' /\ FreshStep
    BY <1>7, <1>18 DEF Actors
  <1> QED
    BY <1>5, <1>8, <1>9, <1>10, <1>11, <1>12, <1>13, <1>14, <1>15, <1>16, <1>17, <1>18 DEF Next

\* A name is generated once, whatever is deleted, crashes or fails.
THEOREM NamesAreGivenOnce == Spec => GeneratedNamesAreFresh
  <1>1. Init => Numbered
    <2> SUFFICES ASSUME Init PROVE Numbered
      OBVIOUS
    <2>1. /\ disk.nextId = catalog.nextId /\ issued = {}
      BY DEF Init
    <2>2. \A c \in Calls : ~call[c].automatic
      <3>1. PICK present \in Clients :
               call = [c \in Calls |-> IF c \in present THEN NoCall ELSE Never(NoCall)]
        BY DEF Init
      <3>2. ~NoCall.automatic /\ ~Never(NoCall).automatic
        BY DEF NoCall, Never
      <3> QED  BY <3>1, <3>2
    <2> QED  BY <2>1, <2>2 DEF Numbered
  <1>2. IInv /\ Numbered /\ [Next]_vars => Numbered' /\ FreshStep
    BY StepNumbers
  <1>3. FreshStep =>
           \A c \in Calls :
              call[c].automatic /\ call[c].name = NoName /\ call'[c].name # NoName
                 => call'[c].name \notin issued
    BY DEF FreshStep
  <1> QED  BY <1>1, <1>2, <1>3, Invariance, PTL DEF Spec, GeneratedNamesAreFresh

(***************************************************************************)
(* Payloads                                                                *)
(***************************************************************************)
\* The payload of this storage is in its file, or was removed by a deletion
\* that was dropped afterwards.
HasPayload(s) == files[s].final = s \/ s \in lost

Owner(c, s) == call[c].pc \in Owning /\ call[c].storage = s
Publishing == {"loading", "committing"}
Deletes(a, s) == deletion[a].pc \notin {"never", "idle"} /\ deletion[a].storage = s

Captures == catalog.captures

\* There is a file for each storage id that a call may still get.
StorageSuffices ==
    /\ nextStorage >= 1
    /\ nextStorage + Cardinality(Reserving) <= MaxStorage + 1

\* Whatever refers to storage refers to storage given out before.
StorageIsGiven ==
    /\ \A n \in DOMAIN reservations : reservations[n].storage >= 1
    /\ \A e \in DOMAIN Captures : Captures[e].storage >= 1 /\ Captures[e].storage < nextStorage
    /\ \A c \in Calls : call[c].pc \in Owning => call[c].storage >= 1
    /\ \A c \in Calls : call[c].pc \in Publishing => call[c].storage < nextStorage
    /\ \A a \in Actors : deletion[a].pc \notin {"never", "idle"} =>
                             deletion[a].storage < nextStorage
    /\ \A s \in purge : s \in Nat /\ s < nextStorage

\* What the files hold; and a process that is down has no reservations.
FilesTyped ==
    /\ files \in [1..MaxStorage -> [staging : Int, final : Int]]
    /\ \A n \in DOMAIN scratch : scratch[n] \in Int
    /\ disk = catalog
    /\ ~up => DOMAIN reservations = {}

\* Reservations, entries and what is to be purged have storage of their own.
StorageIsApart ==
    /\ \A n, m \in DOMAIN reservations :
          reservations[n].storage = reservations[m].storage => n = m
    /\ \A n \in DOMAIN reservations : reservations[n].storage \notin purge
    /\ \A n \in DOMAIN reservations, e \in DOMAIN Captures :
          reservations[n].storage # Captures[e].storage
    /\ \A e, f \in DOMAIN Captures : Captures[e].storage = Captures[f].storage => e = f
    /\ \A e \in DOMAIN Captures : Captures[e].storage \notin purge

\* How far the owner of a storage brought the payload of its reservation.
Progress(c) ==
    LET s == call[c].storage IN
    /\ c \in HeapCalls =>
          /\ call[c].pc \in {"captured", "copying"} /\ call[c].name \in DOMAIN scratch
                => scratch[call[c].name] = s
          /\ call[c].pc = "copied" => files[s].staging = s
          /\ call[c].pc \in {"storing", "writing"} => files[s].final = s
    /\ call[c].pc = "completing" => files[s].final = s

\* The owner of the storage of a reservation made that reservation.
OwnersFit ==
    /\ \A n \in DOMAIN reservations, c \in Calls :
          Owner(c, reservations[n].storage) =>
             /\ n = call[c].name
             /\ reservations[n].kind = Kind(c)
             /\ reservations[n].completed => call[c].pc \in {"retaining", "cleanup"}
             /\ Progress(c)
    /\ \A n \in DOMAIN reservations, c \in Calls :
          call[c].pc \in Publishing /\ call[c].storage = reservations[n].storage
             => reservations[n].kind = Kind(c)
    /\ \A c \in Calls : call[c].pc = "retaining" => c \in HeapCalls

\* A deletion at work has taken its storage from the catalog, or has marked the
\* reservation, whose payload is there until it forgets it.
DeletionsFit ==
    \A a \in Actors :
       LET d == deletion[a] IN
       d.pc \notin {"never", "idle"} =>
          /\ \A e \in DOMAIN Captures : Captures[e].storage # d.storage
          /\ \A n \in DOMAIN reservations :
                reservations[n].storage = d.storage =>
                   /\ d.retained
                   /\ n = d.name
                   /\ reservations[n].deleting
                   /\ d.pc # "forgetting" => HasPayload(d.storage)
                   /\ \A b \in Actors : Deletes(b, d.storage) => b = a

\* A completed reservation keeps its payload unless it is being deleted.
CompletedHavePayload ==
    \A n \in DOMAIN reservations :
       /\ reservations[n].deleting => reservations[n].completed
       /\ reservations[n].completed /\ ~reservations[n].deleting
             => HasPayload(reservations[n].storage)

\* A command fits the call that sent it, and the name it was reserved under.
CommandFits(m) ==
    /\ m.op = "capture" <=> m.pc = "capturing"
    /\ m.op = "copy" <=> m.pc = "copying"
    /\ m.op = "capture" /\ m.by \in HeapCalls /\ m.name \in DOMAIN reservations
          => reservations[m.name].storage = m.storage
    /\ m.pc # "erasing" =>
          \A c \in Calls : Owner(c, m.storage) => c = m.by /\ call[c].name = m.name

CommandsFit == \A i \in 1..Len(inbox) : CommandFits(inbox[i])

Stored == /\ StorageSuffices /\ StorageIsGiven /\ FilesTyped /\ StorageIsApart
          /\ OwnersFit /\ DeletionsFit /\ CompletedHavePayload /\ CommandsFit

\* What a call may still do with storage that was published.
Settled == {"uncapturing", "retaining", "cleanup"}

\* The call that brought the payload of an entry brings it no further.
EntriesSettled ==
    \A e \in DOMAIN Captures, c \in Calls :
       Owner(c, Captures[e].storage) => call[c].pc \in Settled

\* The sets of reservations and of entries only lose members.
ReservationsShrink ==
    /\ DOMAIN reservations' \subseteq DOMAIN reservations
    /\ \A n \in DOMAIN reservations' : reservations'[n] = reservations[n]

EntriesShrink ==
    /\ DOMAIN Captures' \subseteq DOMAIN Captures
    /\ \A e \in DOMAIN Captures' : Captures'[e] = Captures[e]

\* The same of the reservations, one of which may be marked or unmarked meanwhile.
ReservationsKeep ==
    /\ DOMAIN reservations' \subseteq DOMAIN reservations
    /\ \A n \in DOMAIN reservations' :
          /\ reservations'[n].storage = reservations[n].storage
          /\ reservations'[n].kind = reservations[n].kind
          /\ reservations'[n].completed = reservations[n].completed

\* No completed reservation loses its payload.
PayloadsStay ==
    \A n \in DOMAIN reservations :
       LET s == reservations[n].storage IN
       reservations[n].completed /\ HasPayload(s) => files'[s].final = s \/ s \in lost'

\* The deletions at work go on with what they have, or end.
DeletionsGoOn ==
    \A a \in Actors :
       \/ deletion'[a] = deletion[a]
       \/ deletion'[a].pc \in {"never", "idle"}
       \/ /\ deletion[a].pc \notin {"never", "idle"}
          /\ deletion[a].pc = "forgetting" => deletion[a].storage \in lost'
          /\ deletion'[a].storage = deletion[a].storage
          /\ deletion'[a].name = deletion[a].name
          /\ deletion'[a].retained = deletion[a].retained

\* A call keeps what it knows of its reservation.
KeepsReservation(o) ==
    call'[o].pc \in Owning =>
       /\ call[o].pc \in Owning
       /\ call'[o].name = call[o].name
       /\ call'[o].storage = call[o].storage
       /\ Held(o) /\ Progress(o) /\ (Completed(o) => call[o].pc \in {"retaining", "cleanup"})
             => /\ Completed(o) => call'[o].pc \in {"retaining", "cleanup"}
                /\ Progress(o)'

PublishesItsKind(o) ==
    call'[o].pc \in Publishing =>
       \A n \in DOMAIN reservations :
          reservations[n].storage = call'[o].storage => reservations[n].kind = Kind(o)

\* A call whose capture was published does nothing more with it.
StaysDone(o) ==
    call[o].pc \in Settled /\ ~Held(o) =>
       call'[o].pc \notin Owning \/ call'[o].pc \in Settled

CallFits(o) == /\ KeepsReservation(o)
               /\ PublishesItsKind(o)
               /\ StaysDone(o)
               /\ call'[o].pc = "retaining" => o \in HeapCalls

\* A reservation that stays as it was keeps its storage.
LEMMA ShrinkKeeps == ReservationsShrink => ReservationsKeep
  BY DEF ReservationsShrink, ReservationsKeep

\* No call starts to reserve: the storage suffices as before.
LEMMA NoneReserves ==
    ASSUME StorageSuffices, UNCHANGED nextStorage,
           \A o \in Calls : call'[o].pc = "reserving" => call[o].pc = "reserving",
           nextStorage \in Nat
    PROVE  StorageSuffices'
  <1>1. IsFiniteSet(Calls) /\ MaxStorage \in Nat
    BY CaptureAssumption
  <1> DEFINE before == Reserving
             after == {c \in Calls : call'[c].pc = "reserving"}
  <1>2. before \subseteq Calls /\ after \subseteq before
    BY DEF Reserving
  <1>3. IsFiniteSet(before)
    BY <1>1, <1>2, FS_Subset
  <1>4. Cardinality(after) <= Cardinality(before)
    BY <1>2, <1>3, FS_Subset
  <1>5. Cardinality(before) \in Nat /\ Cardinality(after) \in Nat
    BY <1>2, <1>3, FS_Subset, FS_CardinalityType
  <1>6. Reserving' = after
    BY DEF Reserving
  <1> QED  BY <1>1, <1>4, <1>5, <1>6 DEF StorageSuffices

\* Storage that is in use has a file.
LEMMA StorageHasFile ==
    ASSUME StorageSuffices, nextStorage \in Nat, NEW s \in Nat, s >= 1, s < nextStorage
    PROVE  s \in 1..MaxStorage
  <1>1. IsFiniteSet(Calls) /\ MaxStorage \in Nat /\ Reserving \subseteq Calls
    BY CaptureAssumption DEF Reserving
  <1>2. Cardinality(Reserving) \in Nat
    BY <1>1, FS_Subset, FS_CardinalityType
  <1> QED  BY <1>1, <1>2 DEF StorageSuffices

\* Storage stays apart while nothing is added.
LEMMA ApartStays ==
    ASSUME StorageIsApart, ReservationsKeep, EntriesShrink, purge' \subseteq purge
    PROVE  StorageIsApart'
  BY DEF StorageIsApart, ReservationsKeep, EntriesShrink, Captures

\* Completed reservations keep their payload while no payload goes.
LEMMA CompletedStay ==
    ASSUME CompletedHavePayload, ReservationsShrink, PayloadsStay
    PROVE  CompletedHavePayload'
  BY DEF CompletedHavePayload, ReservationsShrink, PayloadsStay, HasPayload

\* Deletions that go on keep what they have.
LEMMA DeletionsStay ==
    ASSUME DeletionsFit, CompletedHavePayload, ReservationsShrink, EntriesShrink, PayloadsStay,
           DeletionsGoOn
    PROVE  DeletionsFit'
  <1>1. ASSUME NEW a \in Actors, deletion'[a].pc \notin {"never", "idle"}
        PROVE  /\ deletion[a].pc \notin {"never", "idle"}
               /\ deletion'[a].storage = deletion[a].storage
               /\ deletion'[a].name = deletion[a].name
               /\ deletion'[a].retained = deletion[a].retained
               /\ deletion[a].pc = "forgetting" => \/ deletion'[a].pc = "forgetting"
                                                   \/ deletion[a].storage \in lost'
    BY <1>1 DEF DeletionsGoOn
  <1>2. ASSUME NEW a \in Actors, deletion'[a].pc \notin {"never", "idle"},
               NEW n \in DOMAIN reservations',
               reservations'[n].storage = deletion'[a].storage
        PROVE  /\ deletion'[a].retained
               /\ n = deletion'[a].name
               /\ reservations'[n].deleting
               /\ deletion'[a].pc # "forgetting" => HasPayload(deletion[a].storage)'
               /\ \A b \in Actors : Deletes(b, deletion[a].storage)' => b = a
    <2>1. n \in DOMAIN reservations /\ reservations'[n] = reservations[n]
          /\ reservations[n].storage = deletion[a].storage
      BY <1>1, <1>2 DEF ReservationsShrink
    <2>2. /\ deletion[a].retained /\ n = deletion[a].name /\ reservations[n].deleting
          /\ deletion[a].pc # "forgetting" => HasPayload(deletion[a].storage)
          /\ \A b \in Actors : Deletes(b, deletion[a].storage) => b = a
      BY <1>1, <1>2, <2>1 DEF DeletionsFit
    <2>3. reservations[n].completed
      BY <2>1, <2>2 DEF CompletedHavePayload
    <2>4. deletion'[a].pc # "forgetting" => HasPayload(deletion[a].storage)'
      <3>1. ASSUME deletion'[a].pc # "forgetting"
            PROVE  files'[deletion[a].storage].final = deletion'[a].storage
                      \/ deletion[a].storage \in lost'
        BY <1>1, <1>2, <2>1, <2>2, <2>3, <3>1 DEF PayloadsStay
      <3> QED  BY <1>1, <1>2, <3>1 DEF HasPayload
    <2>5. \A b \in Actors : Deletes(b, deletion[a].storage)' => b = a
      BY <1>1, <1>2, <2>2 DEF Deletes
    <2> QED  BY <1>1, <1>2, <2>1, <2>2, <2>4, <2>5
  <1>3. ASSUME NEW a \in Actors, deletion'[a].pc \notin {"never", "idle"},
               NEW e \in DOMAIN Captures'
        PROVE  Captures'[e].storage # deletion'[a].storage
    BY <1>1, <1>3 DEF DeletionsFit, EntriesShrink
  <1> QED  BY <1>1, <1>2, <1>3 DEF DeletionsFit

\* Owners go on with their own reservations.
LEMMA OwnersStay ==
    ASSUME OwnersFit, ReservationsKeep, \A o \in Calls : CallFits(o)
    PROVE  OwnersFit'
  <1>1. ASSUME NEW n \in DOMAIN reservations', NEW c \in Calls,
               call'[c].pc \in Owning, call'[c].storage = reservations'[n].storage
        PROVE  /\ n = call'[c].name
               /\ reservations'[n].kind = Kind(c)
               /\ reservations'[n].completed => call'[c].pc \in {"retaining", "cleanup"}
               /\ Progress(c)'
    <2>1. /\ n \in DOMAIN reservations
          /\ reservations'[n].storage = reservations[n].storage
          /\ reservations'[n].kind = reservations[n].kind
          /\ reservations'[n].completed = reservations[n].completed
      BY <1>1 DEF ReservationsKeep
    <2>2. call[c].pc \in Owning /\ call'[c].name = call[c].name
          /\ call'[c].storage = call[c].storage
      BY <1>1 DEF CallFits, KeepsReservation
    <2>3. /\ n = call[c].name
          /\ reservations[n].kind = Kind(c)
          /\ reservations[n].completed => call[c].pc \in {"retaining", "cleanup"}
          /\ Progress(c)
      BY <1>1, <2>1, <2>2 DEF OwnersFit, Owner
    <2>4. Held(c) /\ (Completed(c) => call[c].pc \in {"retaining", "cleanup"})
      BY <1>1, <2>1, <2>2, <2>3 DEF Held, Completed
    <2>5. (Completed(c) => call'[c].pc \in {"retaining", "cleanup"}) /\ Progress(c)'
      BY <1>1, <2>3, <2>4 DEF CallFits, KeepsReservation
    <2> QED  BY <2>1, <2>2, <2>3, <2>4, <2>5 DEF Completed
  <1>2. \A n \in DOMAIN reservations', c \in Calls :
          call'[c].pc \in Publishing /\ call'[c].storage = reservations'[n].storage
             => reservations'[n].kind = Kind(c)
    BY DEF CallFits, PublishesItsKind, ReservationsKeep
  <1>3. \A c \in Calls : call'[c].pc = "retaining" => c \in HeapCalls
    BY DEF CallFits
  <1>4. \A n \in DOMAIN reservations', c \in Calls : Kind(c)' = Kind(c)
    BY DEF Kind
  <1> QED  BY <1>1, <1>2, <1>3, <1>4 DEF OwnersFit, Owner

\* A call whose files and captures are left alone still fits.
LEMMA CallAloneFits ==
    ASSUME OwnersFit, NEW o \in Calls, call'[o] = call[o],
           call[o].pc \in Owning => files'[call[o].storage] = files[call[o].storage],
           \A n \in DOMAIN scratch' : n \in DOMAIN scratch /\ scratch'[n] = scratch[n]
    PROVE  CallFits(o)
  <1>1. KeepsReservation(o)
    BY DEF KeepsReservation, Progress, Completed
  <1>2. PublishesItsKind(o)
    BY DEF PublishesItsKind, OwnersFit
  <1> QED  BY <1>1, <1>2 DEF CallFits, StaysDone, OwnersFit

\* A call that leaves fits.
LEMMA CallGoneFits ==
    ASSUME NEW o \in Calls, call'[o].pc \notin Owning \cup Publishing
    PROVE  CallFits(o)
  BY DEF CallFits, KeepsReservation, PublishesItsKind, StaysDone, Owning, Working

\* No entry loses its payload, but for the file a call removes in Retain.
EntryPayloadsStay ==
    \A e \in DOMAIN Captures :
       LET t == Captures[e].storage IN
       files[t].final = t => files'[t].final = t \/ RemovesPublished(t)

\* An entry is without its payload if it was so before, or after one of two steps.
EntriesLast ==
    \A e \in DOMAIN Captures' :
       LET t == Captures'[e].storage IN
       \/ files'[t].final = t
       \/ /\ e \in DOMAIN Captures /\ Captures[e].storage = t
          /\ files[t].final # t
       \/ RemovesPublished(t)
       \/ PublishesErased(t)

\* The commands after a step were there before, or fit.
CommandsCome ==
    \A i \in 1..Len(inbox') :
       \/ \E j \in 1..Len(inbox) : inbox'[i] = inbox[j]
       \/ \E m \in Commands : inbox'[i] = m /\ CommandFits(m)'

\* What every step keeps.
StoreKept == Stored' /\ (EntriesSettled => EntriesSettled' /\ EntriesLast)

\* Calls only go on, and no entry is added.
LEMMA EntriesStay ==
    ASSUME EntriesSettled, StorageIsApart, EntriesShrink, EntryPayloadsStay,
           \A o \in Calls : CallFits(o)
    PROVE  EntriesSettled' /\ EntriesLast
  <1>1. ASSUME NEW e \in DOMAIN Captures', NEW c \in Calls,
               call'[c].pc \in Owning, call'[c].storage = Captures'[e].storage
        PROVE  call'[c].pc \in Settled
    <2>1. e \in DOMAIN Captures /\ Captures'[e] = Captures[e]
      BY <1>1 DEF EntriesShrink
    <2>2. call[c].pc \in Owning /\ call[c].storage = Captures[e].storage
      BY <1>1, <2>1 DEF CallFits, KeepsReservation
    <2>3. call[c].pc \in Settled
      BY <2>1, <2>2 DEF EntriesSettled, Owner
    <2>4. ~Held(c)
      BY <2>1, <2>2 DEF Held, StorageIsApart
    <2> QED  BY <1>1, <2>3, <2>4 DEF CallFits, StaysDone
  <1>2. EntriesLast
    BY DEF EntriesShrink, EntryPayloadsStay, EntriesLast
  <1> QED  BY <1>1, <1>2 DEF EntriesSettled, Owner, Settled

\* Commands fit while nothing is reserved.
LEMMA CommandsStay ==
    ASSUME CommandsFit, ReservationsKeep, CommandsCome, \A o \in Calls : CallFits(o)
    PROVE  CommandsFit'
  <1>1. ASSUME NEW m, CommandFits(m)
        PROVE  CommandFits(m)'
    <2>1. \A c \in Calls : call'[c].pc \in Owning =>
             /\ call[c].pc \in Owning
             /\ call'[c].name = call[c].name /\ call'[c].storage = call[c].storage
      BY DEF CallFits, KeepsReservation
    <2> QED  BY <1>1, <2>1 DEF CommandFits, ReservationsKeep, Owner
  <1>2. ASSUME NEW i \in 1..Len(inbox'), NEW m, inbox'[i] = m
        PROVE  CommandFits(m)' => CommandFits(inbox[i])'
    BY <1>2 DEF CommandFits
  <1> QED  BY <1>1, <1>2 DEF CommandsCome, CommandsFit

\* Storage in use was given out, while calls and deletions only go on.
LEMMA GivenStays ==
    ASSUME StorageIsGiven, nextStorage' = nextStorage, ReservationsKeep, EntriesShrink,
           purge' \subseteq purge, \A o \in Calls : CallFits(o),
           \A o \in Calls : call'[o].pc \in Publishing => call'[o].storage < nextStorage,
           \A a \in Actors : deletion'[a].pc \notin {"never", "idle"} =>
                                deletion'[a].storage < nextStorage
    PROVE  StorageIsGiven'
  <1>1. \A n \in DOMAIN reservations' : reservations'[n].storage >= 1
    BY DEF StorageIsGiven, ReservationsKeep
  <1>2. \A e \in DOMAIN Captures' :
           Captures'[e].storage >= 1 /\ Captures'[e].storage < nextStorage
    BY DEF StorageIsGiven, EntriesShrink
  <1>3. \A o \in Calls : call'[o].pc \in Owning => call'[o].storage >= 1
    BY DEF StorageIsGiven, CallFits, KeepsReservation
  <1>4. \A a \in Actors : deletion'[a].pc \notin {"never", "idle"} =>
                             deletion'[a].storage < nextStorage
    OBVIOUS
  <1>5. \A s \in purge' : s \in Nat /\ s < nextStorage
    BY DEF StorageIsGiven
  <1> QED  BY <1>1, <1>2, <1>3, <1>4, <1>5 DEF StorageIsGiven

\* A step that adds no reservation and no entry, and takes away no payload.
LEMMA QuietStep ==
    ASSUME Stored, StorageSuffices', FilesTyped',
           ReservationsShrink, EntriesShrink, purge' \subseteq purge, UNCHANGED nextStorage,
           PayloadsStay, EntriesSettled => EntryPayloadsStay, DeletionsGoOn, CommandsCome,
           \A o \in Calls : CallFits(o),
           \A o \in Calls : call'[o].pc \in Publishing => call'[o].storage < nextStorage
    PROVE  StoreKept
  <1>0. \A a \in Actors : deletion'[a].pc \notin {"never", "idle"} =>
                             deletion'[a].storage < nextStorage
    BY DEF DeletionsGoOn, Stored, StorageIsGiven
  <1>1. Stored'
    BY <1>0, ShrinkKeeps, ApartStays, CompletedStay, DeletionsStay, OwnersStay, CommandsStay,
       GivenStays
       DEF Stored
  <1>2. EntriesSettled => EntriesSettled' /\ EntriesLast
    BY EntriesStay DEF Stored
  <1> QED  BY <1>1, <1>2 DEF StoreKept

\* Files of nobody but an owner at work are touched.
OnlyFilesOf(c) ==
    /\ call[c].pc \in Owning \ {"uncapturing", "cleanup"}
    /\ ~Completed(c)
    /\ \A s \in 1..MaxStorage : s # call[c].storage => files'[s] = files[s]

\* What a reservation, an entry or an owner refers to has a file.
LEMMA FilesOfStorage ==
    ASSUME IInv, Stored
    PROVE  /\ \A n \in DOMAIN reservations : reservations[n].storage \in 1..MaxStorage
           /\ \A e \in DOMAIN Captures : Captures[e].storage \in 1..MaxStorage
           /\ \A c \in Calls : call[c].pc \in Owning => call[c].storage \in 1..MaxStorage
  <1>1. /\ nextStorage \in Nat /\ call \in [Calls -> CallRecords]
        /\ reservations \in Named(Reservations) /\ catalog \in Catalogs
    BY DEF IInv, Typed
  <1>2. ASSUME NEW s \in Nat, s >= 1, s < nextStorage
        PROVE  s \in 1..MaxStorage
    BY <1>1, <1>2, StorageHasFile DEF Stored
  <1>3. ASSUME NEW n \in DOMAIN reservations
        PROVE  reservations[n].storage \in 1..MaxStorage
    <2>1. reservations[n] \in Reservations
      BY <1>1, <1>3, NamedMember
    <2>2. reservations[n].storage \in Nat /\ reservations[n].storage >= 1
          /\ reservations[n].storage < nextStorage
      BY <2>1, <1>3 DEF Reservations, Stored, StorageIsGiven, IInv, Related, PendingHasCall
    <2> QED  BY <1>2, <2>2
  <1>4. ASSUME NEW e \in DOMAIN Captures
        PROVE  Captures[e].storage \in 1..MaxStorage
    <2>1. Captures \in Named(Entries)
      BY <1>1 DEF Catalogs, Captures
    <2>2. Captures[e] \in Entries
      BY <2>1, <1>4, NamedMember
    <2>3. Captures[e].storage \in Nat /\ Captures[e].storage >= 1
          /\ Captures[e].storage < nextStorage
      BY <2>2, <1>4 DEF Entries, Stored, StorageIsGiven
    <2> QED  BY <1>2, <2>3
  <1>5. ASSUME NEW c \in Calls, call[c].pc \in Owning
        PROVE  call[c].storage \in 1..MaxStorage
    <2>1. call[c].storage \in Nat /\ call[c].storage >= 1 /\ call[c].storage < nextStorage
      BY <1>1, <1>5 DEF CallRecords, Stored, StorageIsGiven, IInv, Related, StorageIsOwn
    <2> QED  BY <1>2, <2>1
  <1> QED  BY <1>3, <1>4, <1>5

\* A step of one call with its reservation.
LEMMA CallStep ==
    ASSUME IInv, Stored, StorageSuffices', FilesTyped', NEW c \in Calls,
           UNCHANGED <<catalog, deletion, purge, scratch, nextStorage, lost>>,
           ReservationsShrink, CommandsCome,
           files' = files \/ OnlyFilesOf(c),
           \A o \in Calls \ {c} : call'[o] = call[o],
           CallFits(c),
           call'[c].pc \in Publishing => call'[c].storage < nextStorage
    PROVE  StoreKept
  <1>1. EntriesShrink /\ DeletionsGoOn
    BY DEF EntriesShrink, DeletionsGoOn, Captures
  <1>2. nextStorage \in Nat /\ call \in [Calls -> CallRecords]
    BY DEF IInv, Typed
  <1>3. /\ \A n \in DOMAIN reservations : reservations[n].storage \in 1..MaxStorage
        /\ \A e \in DOMAIN Captures : Captures[e].storage \in 1..MaxStorage
        /\ \A o \in Calls : call[o].pc \in Owning => call[o].storage \in 1..MaxStorage
    BY FilesOfStorage
  <1>4. PayloadsStay
    <2>1. CASE files' = files
      BY <2>1 DEF PayloadsStay, HasPayload
    <2>2. CASE OnlyFilesOf(c)
      <3>1. ASSUME NEW n \in DOMAIN reservations, reservations[n].completed
            PROVE  reservations[n].storage # call[c].storage
        BY <2>2, <3>1 DEF OnlyFilesOf, Stored, OwnersFit, Owner, Completed, Held
      <3> QED  BY <1>3, <2>2, <3>1 DEF PayloadsStay, HasPayload, OnlyFilesOf
    <2> QED  BY <2>1, <2>2
  <1>5. EntriesSettled => EntryPayloadsStay
    <2>1. CASE files' = files
      BY <2>1 DEF EntryPayloadsStay
    <2>2. CASE OnlyFilesOf(c) /\ EntriesSettled
      <3>1. \A e \in DOMAIN Captures : Captures[e].storage = call[c].storage =>
               call[c].pc = "retaining" /\ c \in HeapCalls
        BY <2>2 DEF OnlyFilesOf, EntriesSettled, Settled, Owner, Stored, OwnersFit
      <3> QED  BY <1>3, <2>2, <3>1 DEF EntryPayloadsStay, RemovesPublished, OnlyFilesOf
    <2> QED  BY <2>1, <2>2
  <1>6. ASSUME NEW o \in Calls \ {c}
        PROVE  CallFits(o)
    <2>1. call[o].pc \in Owning => files'[call[o].storage] = files[call[o].storage]
      <3>1. CASE OnlyFilesOf(c)
        <4>1. call[o].pc \in Owning => call[o].storage # call[c].storage
          BY <3>1 DEF OnlyFilesOf, IInv, Related, StorageIsOwn
        <4> QED  BY <1>3, <3>1, <4>1 DEF OnlyFilesOf
      <3> QED  BY <3>1
    <2> QED  BY <2>1, CallAloneFits DEF Stored
  <1>7. \A o \in Calls : call'[o].pc \in Publishing => call'[o].storage < nextStorage
    BY DEF Stored, StorageIsGiven
  <1>8. \A o \in Calls : CallFits(o)
    BY <1>6
  <1> QED  BY <1>1, <1>4, <1>5, <1>7, <1>8, QuietStep

\* What the steps that only move a call leave alone.
LEMMA StoreFrame ==
    ASSUME UNCHANGED callFrame
    PROVE  UNCHANGED <<catalog, disk, reservations, files, deletion, purge, scratch, nextStorage,
                       lost, up>>
  BY DEF callFrame, catalogVars, worldVars, targetVars, historyVars

\* Files stay typed when nothing in the store changes.
LEMMA FilesStayTyped ==
    ASSUME FilesTyped, ReservationsShrink, UNCHANGED <<catalog, disk, scratch, up>>,
           files' \in [1..MaxStorage -> [staging : Int, final : Int]]
    PROVE  FilesTyped'
  BY DEF FilesTyped, ReservationsShrink

\* A call moves to another step and keeps its name and its storage.
LEMMA GoesTo ==
    ASSUME IInv, NEW c \in Calls, NEW pc \in CallPcs, Go(c, pc)
    PROVE  /\ call'[c].pc = pc
           /\ call'[c].name = call[c].name
           /\ call'[c].storage = call[c].storage
           /\ \A o \in Calls \ {c} : call'[o] = call[o]
  BY CallAt DEF IInv, Typed, Go

\* A call returns.
LEMMA GoesHome ==
    ASSUME IInv, NEW c \in Calls, Return(c)
    PROVE  /\ call'[c].pc = "idle"
           /\ \A o \in Calls \ {c} : call'[o] = call[o]
           /\ CallFits(c)
  <1>1. call'[c] = NoCall /\ NoCall.pc = "idle"
    BY DEF IInv, Typed, Return, NoCall
  <1>2. \A o \in Calls \ {c} : call'[o] = call[o]
    BY DEF IInv, Typed, Return
  <1>3. "idle" \notin Owning \cup Publishing
    BY DEF Owning, Working, Publishing
  <1> QED  BY <1>1, <1>2, <1>3, CallGoneFits

\* A step of one call that leaves reservations and files alone.
LEMMA CallOnlyMoves ==
    ASSUME IInv, Stored, NEW c \in Calls, UNCHANGED callFrame, CommandsCome,
           \A o \in Calls \ {c} : call'[o] = call[o], CallFits(c),
           call'[c].pc \in Publishing => call'[c].storage < nextStorage,
           call'[c].pc = "reserving" => StorageSuffices'
    PROVE  StoreKept
  <1>1. UNCHANGED <<catalog, disk, reservations, files, deletion, purge, scratch, nextStorage,
                    lost, up>>
    BY StoreFrame
  <1>2. ReservationsShrink
    BY <1>1 DEF ReservationsShrink
  <1>3. FilesTyped'
    BY <1>1, <1>2, FilesStayTyped DEF Stored, FilesTyped
  <1>4. StorageSuffices'
    <2>1. CASE call'[c].pc = "reserving"
      BY <2>1
    <2>2. CASE call'[c].pc # "reserving"
      <3>1. \A o \in Calls : call'[o].pc = "reserving" => call[o].pc = "reserving"
        BY <2>2
      <3>2. nextStorage \in Nat
        BY DEF IInv, Typed
      <3> QED  BY <1>1, <3>1, <3>2, NoneReserves DEF Stored
    <2> QED  BY <2>1, <2>2
  <1> QED  BY <1>1, <1>2, <1>3, <1>4, CallStep

\* No command, or a command that fits its call, is added.
LEMMA NothingIsSent ==
    ASSUME UNCHANGED inbox
    PROVE  CommandsCome
  BY DEF CommandsCome

\* A call may be told apart by its reservation's storage.
LEMMA PromotableKind ==
    ASSUME IInv, Stored, NEW c \in Calls, NEW n, Promotable(c, n)
    PROVE  /\ reservations[n].storage < nextStorage
           /\ \A m \in DOMAIN reservations :
                 reservations[m].storage = reservations[n].storage
                    => reservations[m].kind = Kind(c)
  BY DEF Promotable, Stored, StorageIsApart, IInv, Related, PendingHasCall

\* A call of a capture begins.
LEMMA BeginsStored ==
    ASSUME IInv, Stored, NEW c \in Calls,
           \/ \E n \in RequestedNames : Begin(c, n)
           \/ BeginAutomatic(c)
    PROVE  StoreKept
  <1>1. UNCHANGED callFrame /\ UNCHANGED inbox /\ call[c].pc = "idle"
    BY DEF Begin, BeginAutomatic
  <1>2. call \in [Calls -> CallRecords] /\ nextStorage \in Nat
    BY DEF IInv, Typed
  <1>3. nextStorage' = nextStorage
    BY <1>1, StoreFrame
  <1>4. ASSUME NEW pc \in {"loading", "reserving"}, NEW n, NEW automatic, NEW storage,
               Called(c, pc, n, automatic, storage)
        PROVE  /\ call'[c].pc = pc /\ call'[c].storage = storage
               /\ \A o \in Calls \ {c} : call'[o] = call[o]
    BY <1>2, <1>4 DEF Called
  <1>5. ASSUME NEW n, NEW automatic, Called(c, "reserving", n, automatic, 0),
               nextStorage + Cardinality(Reserving) <= MaxStorage
        PROVE  StoreKept
    <2>1. /\ call'[c].pc = "reserving"
          /\ \A o \in Calls \ {c} : call'[o] = call[o]
      BY <1>4, <1>5
    <2>2. StorageSuffices'
      <3>1. Reserving' = Reserving \cup {c} /\ c \notin Reserving
        BY <1>1, <2>1 DEF Reserving
      <3>2. IsFiniteSet(Reserving) /\ MaxStorage \in Nat
        <4>1. Reserving \subseteq Calls /\ IsFiniteSet(Calls) /\ MaxStorage \in Nat
          BY CaptureAssumption DEF Reserving
        <4> QED  BY <4>1, FS_Subset
      <3>3. Cardinality(Reserving \cup {c}) = Cardinality(Reserving) + 1
            /\ Cardinality(Reserving) \in Nat
        BY <3>1, <3>2, FS_AddElement, FS_CardinalityType
      <3> QED  BY <1>2, <1>3, <1>5, <3>1, <3>2, <3>3 DEF Stored, StorageSuffices
    <2>3. call'[c].pc \notin Owning \cup Publishing
      BY <2>1 DEF Owning, Working, Publishing
    <2> QED  BY <1>1, <2>1, <2>2, <2>3, CallOnlyMoves, CallGoneFits, NothingIsSent
  <1>6. ASSUME NEW n, Promotable(c, n), Called(c, "loading", n, FALSE, reservations[n].storage)
        PROVE  StoreKept
    <2>1. /\ call'[c].pc = "loading" /\ call'[c].storage = reservations[n].storage
          /\ \A o \in Calls \ {c} : call'[o] = call[o]
      BY <1>4, <1>6
    <2>2. CallFits(c) /\ call'[c].storage < nextStorage
      BY <1>1, <1>6, <2>1, PromotableKind
         DEF CallFits, KeepsReservation, PublishesItsKind, StaysDone, Owning, Working
    <2> QED  BY <1>1, <2>1, <2>2, CallOnlyMoves, NothingIsSent
  <1> QED  BY <1>5, <1>6 DEF Begin, BeginAutomatic

\* A handler without a reservation of its own looks something up.
LEMMA LooksUpStored ==
    ASSUME IInv, Stored, NEW c \in Calls,
           Rejoin(c) \/ Refused(c) \/ Rejoined(c) \/ PromoteLoad(c)
    PROVE  StoreKept
  <1>1. UNCHANGED callFrame /\ UNCHANGED inbox
        /\ call[c].pc \in {"reserving", "rejoining", "loading"}
    BY DEF Rejoin, Refused, Rejoined, PromoteLoad
  <1>2. call \in [Calls -> CallRecords]
    BY DEF IInv, Typed
  <1>3. CASE Return(c)
    BY <1>1, <1>3, GoesHome, CallOnlyMoves, NothingIsSent DEF Publishing
  <1>4. CASE Rejoin(c)
    <2>1. Go(c, "rejoining") /\ "rejoining" \in CallPcs
      BY <1>4 DEF Rejoin, CallPcs
    <2>2. /\ call'[c].pc = "rejoining" /\ \A o \in Calls \ {c} : call'[o] = call[o]
      BY <2>1, GoesTo
    <2>3. call'[c].pc \notin Owning \cup Publishing
      BY <2>2 DEF Owning, Working, Publishing
    <2> QED  BY <1>1, <2>2, <2>3, CallOnlyMoves, CallGoneFits, NothingIsSent
  <1>5. CASE Rejoined(c) /\ Promotable(c, call[c].name)
    <2>1. call' = [call EXCEPT ![c].pc = "loading",
                               ![c].storage = reservations[call[c].name].storage]
      BY <1>5 DEF Rejoined
    <2>2. /\ call'[c].pc = "loading" /\ call'[c].storage = reservations[call[c].name].storage
          /\ \A o \in Calls \ {c} : call'[o] = call[o]
      BY <1>2, <2>1 DEF CallRecords
    <2>3. CallFits(c) /\ call'[c].storage < nextStorage
      BY <1>1, <1>5, <2>2, PromotableKind
         DEF CallFits, KeepsReservation, PublishesItsKind, StaysDone, Owning, Working
    <2> QED  BY <1>1, <2>2, <2>3, CallOnlyMoves, NothingIsSent
  <1>6. CASE PromoteLoad(c) /\ Go(c, "committing")
    <2>1. "committing" \in CallPcs /\ call[c].pc = "loading"
      BY <1>6 DEF PromoteLoad, CallPcs
    <2>2. /\ call'[c].pc = "committing" /\ call'[c].storage = call[c].storage
          /\ \A o \in Calls \ {c} : call'[o] = call[o]
      BY <1>6, <2>1, GoesTo
    <2>3. CallFits(c) /\ call'[c].storage < nextStorage
      BY <2>1, <2>2 DEF CallFits, KeepsReservation, PublishesItsKind, StaysDone, Owning, Working,
                        Stored, OwnersFit, StorageIsGiven, Publishing
    <2> QED  BY <1>1, <2>2, <2>3, CallOnlyMoves, NothingIsSent
  <1> QED  BY <1>3, <1>4, <1>5, <1>6 DEF Rejoin, Refused, Rejoined, PromoteLoad

\* Where an owner claims nothing about files or captures.
Claimless == {"capturing", "discarding", "abandoning", "retaining", "cleanup", "scratching",
              "releasing", "uncapturing"}

\* A call without a claim has made the progress it claims.
LEMMA ClaimlessProgress ==
    ASSUME NEW c \in Calls, call'[c].pc \in Claimless
    PROVE  Progress(c)'
  BY DEF Progress, Claimless

\* An owner moves.
LEMMA GoFits ==
    ASSUME IInv, NEW c \in Calls, NEW pc \in Owning, Go(c, pc), call[c].pc \in Owning,
           pc = "retaining" => c \in HeapCalls,
           Completed(c) /\ call[c].pc \in {"retaining", "cleanup"}
              => pc \in {"retaining", "cleanup"},
           ~Held(c) /\ call[c].pc \in Settled => pc \in Settled,
           pc \notin Claimless /\ Held(c) /\ Progress(c) => Progress(c)'
    PROVE  /\ CallFits(c)
           /\ call'[c].pc = pc
           /\ call'[c].name = call[c].name
           /\ call'[c].storage = call[c].storage
           /\ call'[c].pc \notin Publishing
           /\ call'[c].pc # "reserving"
           /\ \A o \in Calls \ {c} : call'[o] = call[o]
  <1>1. pc \in CallPcs /\ pc \notin Publishing /\ pc # "reserving"
    BY DEF CallPcs, Owning, Working, Publishing
  <1>2. /\ call'[c].pc = pc
        /\ call'[c].name = call[c].name
        /\ call'[c].storage = call[c].storage
        /\ \A o \in Calls \ {c} : call'[o] = call[o]
    BY <1>1, GoesTo
  <1>3. Held(c) /\ Progress(c) => Progress(c)'
    BY <1>2, ClaimlessProgress
  <1>4. KeepsReservation(c)
    BY <1>2, <1>3 DEF KeepsReservation
  <1> QED  BY <1>1, <1>2, <1>4 DEF CallFits, PublishesItsKind, StaysDone

\* A command about its own capture that a call sends fits.
LEMMA SentFits ==
    ASSUME IInv, IInv', NEW c \in Calls, NEW op \in {"copy", "delete"},
           NEW pc \in Waiting \ {"capturing"}, op = "copy" <=> pc = "copying",
           inbox' = Append(inbox, Command(op, call[c].name, call[c].storage, c, pc)),
           call'[c].pc \in Owning,
           call'[c].name = call[c].name,
           call'[c].storage = call[c].storage
    PROVE  CommandsCome
  <1>1. PICK m : m = Command(op, call[c].name, call[c].storage, c, pc)
    OBVIOUS
  <1>2. /\ m \in Commands /\ m.op = op /\ m.pc = pc /\ m.by = c
        /\ m.name = call[c].name /\ m.storage = call[c].storage
    BY <1>1 DEF IInv, Typed, CallRecords, Command, Commands, Actors
  <1>3. inbox \in Seq(Commands) /\ inbox' = Append(inbox, m)
    BY <1>1 DEF IInv, Typed
  <1>4. /\ Len(inbox') = Len(inbox) + 1 /\ Len(inbox) \in Nat
        /\ inbox'[Len(inbox) + 1] = m
        /\ \A i \in 1..Len(inbox) : inbox'[i] = inbox[i]
    BY <1>2, <1>3, Sent
  <1>5. CommandFits(m)'
    <2>1. ASSUME NEW o \in Calls, call'[o].pc \in Owning, call'[o].storage = m.storage
          PROVE  o = c
      BY <1>2, <2>1 DEF IInv, Related, StorageIsOwn
    <2>2. /\ op # "capture" /\ pc # "capturing"
      OBVIOUS
    <2> QED  BY <1>2, <2>1, <2>2 DEF CommandFits, Owner
  <1> QED  BY <1>2, <1>4, <1>5 DEF CommandsCome

\* A call sends a command, or goes on because its debugger has stopped.
LEMMA SendStored ==
    ASSUME IInv, IInv', Stored, NEW c \in Calls, NEW op \in {"copy", "delete"},
           NEW pc \in Waiting \ {"capturing"}, NEW stopped \in Claimless \ {"retaining"},
           op = "copy" <=> pc = "copying",
           op = "copy" => call[c].pc = "captured",
           Send(c, op, pc, stopped), call[c].pc \in {"captured", "cleanup"},
           call[c].pc = "cleanup" => Pending(c), UNCHANGED callFrame
    PROVE  StoreKept
  <1>1. UNCHANGED <<files, scratch>>
    BY StoreFrame
  <1>2. pc \in Owning /\ stopped \in Owning /\ call[c].pc \in Owning
    BY DEF Owning, Working, Waiting, Claimless
  <1>3. call[c].pc = "cleanup" => Held(c) /\ ~Completed(c)
    BY DEF Pending, Completed, Held
  <1>4. CASE Go(c, stopped) /\ UNCHANGED inbox
    <2>1. /\ CallFits(c)
          /\ call'[c].pc \notin Publishing
          /\ call'[c].pc # "reserving"
          /\ \A o \in Calls \ {c} : call'[o] = call[o]
      BY <1>2, <1>3, <1>4, GoFits DEF Settled
    <2> QED  BY <1>4, <2>1, CallOnlyMoves, NothingIsSent
  <1>5. CASE /\ Go(c, pc)
             /\ inbox' = Append(inbox, Command(op, call[c].name, call[c].storage, c, pc))
    <2>1. pc \notin Claimless => pc = "copying" /\ call[c].pc = "captured"
      BY DEF Waiting, Claimless
    <2>2. pc # "retaining"
      BY DEF Waiting
    <2>3. pc \in CallPcs
      BY <1>2 DEF CallPcs
    <2>4. pc \notin Claimless /\ Held(c) /\ Progress(c) => Progress(c)'
      BY <1>1, <1>5, <2>1, <2>3, GoesTo DEF Progress
    <2>5. /\ CallFits(c)
          /\ call'[c].pc = pc
          /\ call'[c].name = call[c].name
          /\ call'[c].storage = call[c].storage
          /\ call'[c].pc \notin Publishing
          /\ call'[c].pc # "reserving"
          /\ \A o \in Calls \ {c} : call'[o] = call[o]
      BY <1>2, <1>3, <1>5, <2>2, <2>4, GoFits DEF Settled
    <2>6. CommandsCome
      BY <1>2, <1>5, <2>5, SentFits
    <2> QED  BY <2>5, <2>6, CallOnlyMoves
  <1> QED  BY <1>4, <1>5 DEF Send

\* The steps of an owner that touch no file.
LEMMA OwnerMovesStored ==
    ASSUME IInv, IInv', Stored, NEW c \in Calls,
           Cancel(c) \/ Captured(c) \/ StoreCheck(c) \/ Cleanup(c) \/ Drop(c)
    PROVE  StoreKept
  <1>1. UNCHANGED callFrame /\ UNCHANGED <<files, scratch>>
    BY StoreFrame DEF Cancel, Captured, StoreCheck, Cleanup, Drop
  <1>2. call \in [Calls -> CallRecords]
    BY DEF IInv, Typed
  <1>3. ASSUME Go(c, "cleanup"), UNCHANGED inbox, call[c].pc \in Owning
        PROVE  StoreKept
    <2>1. "cleanup" \in Owning /\ "cleanup" \in Claimless
      BY DEF Owning, Working, Claimless
    <2>2. /\ CallFits(c)
          /\ call'[c].pc \notin Publishing
          /\ call'[c].pc # "reserving"
          /\ \A o \in Calls \ {c} : call'[o] = call[o]
      BY <1>3, <2>1, GoFits DEF Settled
    <2> QED  BY <1>1, <1>3, <2>2, CallOnlyMoves, NothingIsSent
  <1>4. ASSUME Return(c), UNCHANGED inbox
        PROVE  StoreKept
    BY <1>1, <1>4, GoesHome, CallOnlyMoves, NothingIsSent DEF Publishing
  <1>5. CASE Cancel(c)
    <2>1. call' = [call EXCEPT ![c].cancelled = TRUE] /\ UNCHANGED inbox
          /\ call[c].pc \in Owning
      BY <1>5 DEF Cancel, Owning, Working
    <2>2. /\ call'[c].pc = call[c].pc /\ call'[c].name = call[c].name
          /\ call'[c].storage = call[c].storage
          /\ \A o \in Calls \ {c} : call'[o] = call[o]
      BY <1>2, <2>1 DEF CallRecords
    <2>3. Progress(c) => Progress(c)'
      BY <1>1, <2>2 DEF Progress
    <2>4. call[c].pc \notin Publishing /\ call[c].pc # "reserving" /\ call[c].pc # "retaining"
      BY <1>5 DEF Cancel, Publishing
    <2>5. CallFits(c)
      BY <2>1, <2>2, <2>3, <2>4 DEF CallFits, KeepsReservation, PublishesItsKind, StaysDone
    <2> QED  BY <1>1, <2>1, <2>2, <2>4, <2>5, CallOnlyMoves, NothingIsSent
  <1>6. CASE Captured(c)
    <2>1. call[c].pc = "captured" /\ "captured" \in Owning
      BY <1>6 DEF Captured, Owning, Working
    <2>2. CASE c \notin HeapCalls
      <3>1. Go(c, "storing") /\ UNCHANGED inbox /\ "storing" \in Owning /\ "storing" \in CallPcs
        BY <1>6, <2>2 DEF Captured, Owning, Working, CallPcs
      <3>2. Progress(c)'
        BY <2>2, <3>1, GoesTo DEF Progress
      <3>3. /\ CallFits(c)
            /\ call'[c].pc \notin Publishing
            /\ call'[c].pc # "reserving"
            /\ \A o \in Calls \ {c} : call'[o] = call[o]
        BY <2>1, <3>1, <3>2, GoFits DEF Settled
      <3> QED  BY <1>1, <3>1, <3>3, CallOnlyMoves, NothingIsSent
    <2>3. CASE Send(c, "delete", "discarding", "cleanup")
      BY <1>1, <2>1, <2>3, SendStored DEF Waiting, Claimless
    <2>4. CASE Send(c, "copy", "copying", "abandoning")
      BY <1>1, <2>1, <2>4, SendStored DEF Waiting, Claimless
    <2> QED  BY <1>6, <2>2, <2>3, <2>4 DEF Captured
  <1>7. CASE StoreCheck(c)
    <2>1. call[c].pc = "storing" /\ UNCHANGED inbox
      BY <1>7 DEF StoreCheck
    <2>2. PICK pc \in {"writing", "retaining", "cleanup"} :
             Go(c, pc) /\ (pc = "retaining" => c \in HeapCalls)
      BY <1>7 DEF StoreCheck
    <2>3. pc \in Owning /\ pc \in CallPcs /\ call[c].pc \in Owning
      BY <2>1 DEF Owning, Working, CallPcs
    <2>4. Progress(c) => Progress(c)'
      BY <1>1, <2>1, <2>2, <2>3, GoesTo DEF Progress
    <2>5. /\ CallFits(c)
          /\ call'[c].pc \notin Publishing
          /\ call'[c].pc # "reserving"
          /\ \A o \in Calls \ {c} : call'[o] = call[o]
      BY <2>1, <2>2, <2>3, <2>4, GoFits DEF Settled
    <2> QED  BY <1>1, <2>1, <2>5, CallOnlyMoves, NothingIsSent
  <1>8. CASE Cleanup(c)
    <2>1. call[c].pc = "cleanup"
      BY <1>8 DEF Cleanup
    <2>2. CASE ~Pending(c)
      BY <1>4, <1>8, <2>2 DEF Cleanup
    <2>3. CASE Pending(c) /\ c \notin HeapCalls
      <3>1. Go(c, "releasing") /\ UNCHANGED inbox /\ "releasing" \in Owning
            /\ "releasing" \in Claimless /\ call[c].pc \in Owning
        BY <1>8, <2>1, <2>3 DEF Cleanup, Owning, Working, Claimless
      <3>2. Held(c) /\ ~Completed(c)
        BY <2>3 DEF Pending, Completed
      <3>3. /\ CallFits(c)
            /\ call'[c].pc \notin Publishing
            /\ call'[c].pc # "reserving"
            /\ \A o \in Calls \ {c} : call'[o] = call[o]
        BY <3>1, <3>2, GoFits
      <3> QED  BY <1>1, <3>1, <3>3, CallOnlyMoves, NothingIsSent
    <2>4. CASE Pending(c) /\ Send(c, "delete", "scratching", "releasing")
      BY <1>1, <2>1, <2>4, SendStored DEF Waiting, Claimless
    <2> QED  BY <1>8, <2>2, <2>3, <2>4 DEF Cleanup
  <1>9. CASE Drop(c)
    <2>1. CASE call[c].pc \in {"reserving", "loading", "rejoining", "committing"}
      BY <1>4, <1>9, <2>1 DEF Drop
    <2>2. CASE call[c].pc \notin {"reserving", "loading", "rejoining", "committing"}
      <3>1. Go(c, "cleanup") /\ UNCHANGED inbox /\ call[c].pc \in Owning
        BY <1>9, <2>2 DEF Drop, Owning, Working
      <3> QED  BY <1>3, <3>1
    <2> QED  BY <2>1, <2>2
  <1> QED  BY <1>5, <1>6, <1>7, <1>8, <1>9

\* A call that is not done with its storage has no completed reservation.
LEMMA AtWorkIsPending ==
    ASSUME Stored, NEW c \in Calls, call[c].pc \in Owning \ {"retaining", "cleanup"}
    PROVE  ~Completed(c)
  BY DEF Stored, OwnersFit, Owner, Completed, Held

\* An owner writes its own files.
LEMMA OwnerWrites ==
    ASSUME IInv, Stored, NEW c \in Calls, NEW file \in [staging : Int, final : Int],
           call[c].pc \in Owning,
           files' = [files EXCEPT ![call[c].storage] = file]
    PROVE  /\ files' \in [1..MaxStorage -> [staging : Int, final : Int]]
           /\ files'[call[c].storage] = file
           /\ \A s \in 1..MaxStorage : s # call[c].storage => files'[s] = files[s]
  <1>1. call[c].storage \in 1..MaxStorage
    BY FilesOfStorage
  <1>2. files \in [1..MaxStorage -> [staging : Int, final : Int]]
    BY DEF Stored, FilesTyped
  <1> QED  BY <1>1, <1>2

\* The steps of an owner with its files.
LEMMA OwnerFilesStored ==
    ASSUME IInv, Stored, NEW c \in Calls, NEW pc \in Owning,
           Go(c, pc), call[c].pc \in Owning, UNCHANGED inbox,
           UNCHANGED <<catalog, disk, reservations, deletion, purge, scratch, nextStorage,
                       lost, up>>,
           pc = "retaining" => c \in HeapCalls,
           Completed(c) => pc \in {"retaining", "cleanup"},
           call[c].pc \notin {"uncapturing", "cleanup"},
           call[c].pc = "retaining" => pc = "cleanup",
           pc \notin Claimless /\ Held(c) /\ Progress(c) => Progress(c)',
           files' = files \/ OnlyFilesOf(c),
           files' \in [1..MaxStorage -> [staging : Int, final : Int]]
    PROVE  StoreKept
  <1>1. ReservationsShrink
    BY DEF ReservationsShrink
  <1>2. FilesTyped'
    BY <1>1, FilesStayTyped DEF Stored
  <1>3. /\ CallFits(c)
        /\ call'[c].pc \notin Publishing
        /\ call'[c].pc # "reserving"
        /\ \A o \in Calls \ {c} : call'[o] = call[o]
    BY GoFits DEF Settled
  <1>4. StorageSuffices'
    BY <1>3, NoneReserves DEF Stored, IInv, Typed
  <1> QED  BY <1>1, <1>2, <1>3, <1>4, CallStep, NothingIsSent

\* The copy of a heap snapshot gets its place.
LEMMA PublishesStored ==
    ASSUME IInv, Stored, NEW c \in Calls, NEW renamed \in BOOLEAN, NEW ok \in BOOLEAN,
           PublishFile(c, renamed, ok)
    PROVE  StoreKept
  <1>1. /\ UNCHANGED <<catalog, disk, reservations, deletion, purge, scratch, nextStorage,
                       lost, up>>
        /\ UNCHANGED inbox
        /\ call[c].pc = "copied"
    BY DEF PublishFile, catalogVars, worldVars, targetVars, historyVars
  <1>2. call[c].pc \in Owning \ {"uncapturing", "cleanup", "retaining"}
    BY <1>1 DEF Owning, Working
  <1>3. ~Completed(c)
    BY <1>2, AtWorkIsPending
  <1> DEFINE s == call[c].storage
             file == [staging |-> Absent, final |-> files[s].staging]
  <1>4. files \in [1..MaxStorage -> [staging : Int, final : Int]] /\ s \in 1..MaxStorage
    BY <1>2, FilesOfStorage DEF Stored, FilesTyped
  <1>5. file \in [staging : Int, final : Int] /\ file.final = files[s].staging
    BY <1>4 DEF Absent
  <1>6. CASE renamed
    <2>1. files' = [files EXCEPT ![s] = file]
      BY <1>6, <1>4 DEF PublishFile
    <2> HIDE DEF file
    <2>2. /\ files' \in [1..MaxStorage -> [staging : Int, final : Int]]
          /\ files'[s] = file
          /\ \A t \in 1..MaxStorage : t # s => files'[t] = files[t]
      BY <1>2, <1>5, <2>1, OwnerWrites
    <2>3. OnlyFilesOf(c)
      BY <1>2, <1>3, <2>2 DEF OnlyFilesOf
    <2>4. PICK pc \in {"storing", "abandoning"} : Go(c, pc)
      BY DEF PublishFile
    <2>5. pc \in Owning /\ pc \in CallPcs /\ pc # "retaining"
      BY DEF Owning, Working, CallPcs
    <2>6. Progress(c) => Progress(c)'
      BY <1>1, <1>5, <2>2, <2>4, <2>5, GoesTo DEF Progress
    <2> QED  BY <1>1, <1>2, <1>3, <2>2, <2>3, <2>4, <2>5, <2>6, OwnerFilesStored
  <1>7. CASE ~renamed
    <2>1. files' = files /\ Go(c, "abandoning")
      BY <1>7 DEF PublishFile
    <2>2. "abandoning" \in Owning /\ "abandoning" \in Claimless
      BY DEF Owning, Working, Claimless
    <2> QED  BY <1>1, <1>2, <1>3, <1>4, <2>1, <2>2, OwnerFilesStored
  <1> QED  BY <1>6, <1>7

\* The payload gets its place.
LEMMA WritesStored ==
    ASSUME IInv, Stored, NEW c \in Calls, NEW renamed \in BOOLEAN, NEW ok \in BOOLEAN,
           StoreWrite(c, renamed, ok)
    PROVE  StoreKept
  <1>1. /\ UNCHANGED <<catalog, disk, reservations, deletion, purge, scratch, nextStorage,
                       lost, up>>
        /\ UNCHANGED inbox
        /\ call[c].pc = "writing"
    BY DEF StoreWrite, catalogVars, worldVars, targetVars, historyVars
  <1>2. call[c].pc \in Owning \ {"uncapturing", "cleanup", "retaining"}
    BY <1>1 DEF Owning, Working
  <1>3. ~Completed(c)
    BY <1>2, AtWorkIsPending
  <1> DEFINE s == call[c].storage
             file == [files[s] EXCEPT !.final = s]
  <1>4. files \in [1..MaxStorage -> [staging : Int, final : Int]] /\ s \in 1..MaxStorage
    BY <1>2, FilesOfStorage DEF Stored, FilesTyped
  <1>5. CASE c \in HeapCalls
    <2>1. PICK pc \in {"completing", "retaining"} : Go(c, pc)
      BY <1>5 DEF StoreWrite
    <2>2. pc \in Owning /\ pc \in CallPcs
      BY DEF Owning, Working, CallPcs
    <2>3. files' = files
      BY <1>5 DEF StoreWrite
    <2>4. Progress(c) => Progress(c)'
      BY <1>1, <1>5, <2>1, <2>2, <2>3, GoesTo DEF Progress
    <2> QED  BY <1>1, <1>2, <1>3, <1>4, <1>5, <2>1, <2>2, <2>3, <2>4, OwnerFilesStored
  <1>6. CASE c \notin HeapCalls /\ renamed
    <2>1. files' = [files EXCEPT ![s] = file]
      BY <1>4, <1>6 DEF StoreWrite
    <2>2. file \in [staging : Int, final : Int] /\ file.final = s
      BY <1>4
    <2> HIDE DEF file
    <2>3. /\ files' \in [1..MaxStorage -> [staging : Int, final : Int]]
          /\ files'[s] = file
          /\ \A t \in 1..MaxStorage : t # s => files'[t] = files[t]
      BY <1>2, <2>2, <2>1, OwnerWrites
    <2>4. OnlyFilesOf(c)
      BY <1>2, <1>3, <2>3 DEF OnlyFilesOf
    <2>5. PICK pc \in {"completing", "cleanup"} : Go(c, pc)
      BY <1>6 DEF StoreWrite
    <2>6. pc \in Owning /\ pc \in CallPcs /\ pc # "retaining"
      BY DEF Owning, Working, CallPcs
    <2>7. Progress(c)'
      BY <1>6, <2>2, <2>3, <2>5, <2>6, GoesTo DEF Progress
    <2> QED  BY <1>1, <1>2, <1>3, <2>3, <2>4, <2>5, <2>6, <2>7, OwnerFilesStored
  <1>7. CASE c \notin HeapCalls /\ ~renamed
    <2>1. files' = files /\ Go(c, "cleanup")
      BY <1>7 DEF StoreWrite
    <2>2. "cleanup" \in Owning /\ "cleanup" \in Claimless
      BY DEF Owning, Working, Claimless
    <2> QED  BY <1>1, <1>2, <1>3, <1>4, <2>1, <2>2, OwnerFilesStored
  <1> QED  BY <1>5, <1>6, <1>7

\* A snapshot that was not stored loses its file, unless it is retained.
LEMMA RetainsStored ==
    ASSUME IInv, Stored, NEW c \in Calls, Retain(c)
    PROVE  StoreKept
  <1>1. /\ UNCHANGED <<catalog, disk, reservations, deletion, purge, scratch, nextStorage,
                       lost, up>>
        /\ UNCHANGED inbox
        /\ call[c].pc = "retaining" /\ Go(c, "cleanup")
    BY DEF Retain, catalogVars, worldVars, targetVars, historyVars
  <1>2. call[c].pc \in Owning \ {"uncapturing", "cleanup"}
        /\ "cleanup" \in Owning /\ "cleanup" \in Claimless
    BY <1>1 DEF Owning, Working, Claimless
  <1> DEFINE s == call[c].storage
             file == [files[s] EXCEPT !.final = Absent]
  <1>3. files \in [1..MaxStorage -> [staging : Int, final : Int]] /\ s \in 1..MaxStorage
    BY <1>2, FilesOfStorage DEF Stored, FilesTyped
  <1>4. CASE Completed(c)
    <2>1. files' = files
      BY <1>4 DEF Retain, Retained
    <2> QED  BY <1>1, <1>2, <1>3, <2>1, OwnerFilesStored
  <1>5. CASE ~Completed(c)
    <2>1. files' = [files EXCEPT ![s] = file]
      BY <1>3, <1>5 DEF Retain, Retained
    <2>2. file \in [staging : Int, final : Int]
      BY <1>3 DEF Absent
    <2> HIDE DEF file
    <2>3. /\ files' \in [1..MaxStorage -> [staging : Int, final : Int]]
          /\ \A t \in 1..MaxStorage : t # s => files'[t] = files[t]
      BY <1>2, <2>2, <2>1, OwnerWrites
    <2>4. OnlyFilesOf(c)
      BY <1>2, <1>5, <2>3 DEF OnlyFilesOf
    <2> QED  BY <1>1, <1>2, <1>5, <2>3, <2>4, OwnerFilesStored
  <1> QED  BY <1>4, <1>5

\* The handler, or its guard, gives up: name and files are free again.
LEMMA GivesUpStored ==
    ASSUME IInv, Stored, NEW c \in Calls, Abandon(c) \/ Release(c)
    PROVE  StoreKept
  <1>1. /\ UNCHANGED <<catalog, disk, deletion, purge, scratch, nextStorage, lost, up>>
        /\ UNCHANGED inbox
        /\ call[c].pc \in {"abandoning", "releasing"} /\ Return(c)
        /\ reservations' = Abandoned(c)
        /\ files' = files \/ files' = WithoutFiles({call[c].storage})
    BY DEF Abandon, Release, catalogVars, worldVars, targetVars, historyVars
  <1>2. call[c].pc \in Owning \ {"uncapturing", "cleanup", "retaining"}
    BY <1>1 DEF Owning, Working
  <1>3. ~Completed(c)
    BY <1>2, AtWorkIsPending
  <1>4. ReservationsShrink
    <2>1. CASE Pending(c)
      BY <1>1, <2>1, ReservationRemoved DEF Abandoned, ReservationsShrink, IInv, Typed
    <2>2. CASE ~Pending(c)
      BY <1>1, <2>2 DEF Abandoned, ReservationsShrink
    <2> QED  BY <2>1, <2>2
  <1>5. files \in [1..MaxStorage -> [staging : Int, final : Int]]
    BY DEF Stored, FilesTyped
  <1>6. NoFile \in [staging : Int, final : Int]
    BY DEF NoFile, Absent
  <1>7. /\ files' \in [1..MaxStorage -> [staging : Int, final : Int]]
        /\ \A t \in 1..MaxStorage : t # call[c].storage => files'[t] = files[t]
    BY <1>1, <1>5, <1>6 DEF WithoutFiles
  <1>8. OnlyFilesOf(c)
    BY <1>2, <1>3, <1>7 DEF OnlyFilesOf
  <1>9. FilesTyped'
    BY <1>1, <1>4, <1>7, FilesStayTyped DEF Stored
  <1>10. /\ call'[c].pc = "idle"
         /\ \A o \in Calls \ {c} : call'[o] = call[o]
         /\ CallFits(c)
    BY <1>1, GoesHome
  <1>11. StorageSuffices'
    BY <1>1, <1>10, NoneReserves DEF Stored, IInv, Typed
  <1> QED  BY <1>1, <1>4, <1>8, <1>9, <1>10, <1>11, CallStep, NothingIsSent DEF Publishing

\* The catalog after one more entry.
LEMMA EntryAdded ==
    ASSUME IInv, NEW n \in DOMAIN reservations, catalog' = WithEntry(n)
    PROVE  /\ DOMAIN Captures' = DOMAIN Captures \cup {n}
           /\ Captures'[n].storage = reservations[n].storage
           /\ \A e \in DOMAIN Captures \ {n} : Captures'[e] = Captures[e]
  <1>1. catalog \in Catalogs
    BY DEF IInv, Typed
  <1> DEFINE entry == [storage |-> reservations[n].storage,
                       generation |-> reservations[n].generation]
  <1>2. catalog'.captures = With(catalog.captures, n, entry)
    BY <1>1 DEF WithEntry, Catalogs
  <1>3. entry.storage = reservations[n].storage
    OBVIOUS
  <1> HIDE DEF entry
  <1> QED  BY <1>2, <1>3 DEF With, Captures

\* A reservation becomes an entry.
LEMMA ReservationPublished ==
    ASSUME IInv, Stored, NEW c \in Calls, NEW n \in DOMAIN reservations,
           files[reservations[n].storage].final = reservations[n].storage
              \/ PublishesErased(reservations[n].storage),
           ~reservations[n].deleting,
           catalog' = WithEntry(n), disk' = catalog',
           reservations' = Without(reservations, n),
           UNCHANGED <<files, deletion, purge, scratch, inbox, nextStorage, lost, up>>,
           \A o \in Calls \ {c} : call'[o] = call[o],
           CallFits(c),
           call'[c].pc \notin Publishing \cup {"reserving"},
           call'[c].pc \in Owning => call'[c].pc = "uncapturing",
           \A o \in Calls \ {c} : Owner(o, reservations[n].storage) => call[o].pc \in Settled
    PROVE  StoreKept
  <1>1. /\ DOMAIN Captures' = DOMAIN Captures \cup {n}
        /\ Captures'[n].storage = reservations[n].storage
        /\ \A e \in DOMAIN Captures \ {n} : Captures'[e] = Captures[e]
    BY EntryAdded
  <1>2. /\ DOMAIN reservations' = DOMAIN reservations \ {n}
        /\ ReservationsShrink
    BY ReservationRemoved DEF IInv, Typed, ReservationsShrink
  <1>3. \A o \in Calls : CallFits(o)
    <2>1. ASSUME NEW o \in Calls \ {c}
          PROVE  CallFits(o)
      BY CallAloneFits DEF Stored
    <2> QED  BY <2>1
  <1>4. PayloadsStay /\ DeletionsGoOn /\ CommandsCome
    BY NothingIsSent DEF PayloadsStay, HasPayload, DeletionsGoOn
  <1>5. CompletedHavePayload'
    BY <1>2, <1>4, CompletedStay DEF Stored
  <1>6. OwnersFit'
    BY <1>2, <1>3, ShrinkKeeps, OwnersStay DEF Stored
  <1>7. CommandsFit'
    BY <1>2, <1>3, <1>4, ShrinkKeeps, CommandsStay DEF Stored
  <1>8. StorageSuffices'
    BY NoneReserves DEF Stored, IInv, Typed
  <1>9. FilesTyped'
    BY <1>2 DEF Stored, FilesTyped
  <1>10. /\ reservations[n].storage \in Nat /\ reservations[n].storage >= 1
         /\ reservations[n].storage < nextStorage
    <2>1. reservations[n] \in Reservations
      BY NamedMember DEF IInv, Typed
    <2> QED  BY <2>1 DEF Reservations, Stored, StorageIsGiven, IInv, Related, PendingHasCall
  <1>11. StorageIsGiven'
    <2>1. StorageIsGiven
      BY DEF Stored
    <2>2. \A m \in DOMAIN reservations' : reservations'[m].storage >= 1
      BY <1>2, <2>1 DEF StorageIsGiven, ReservationsShrink
    <2>3. \A e \in DOMAIN Captures' :
             Captures'[e].storage >= 1 /\ Captures'[e].storage < nextStorage
      BY <1>1, <1>10, <2>1 DEF StorageIsGiven
    <2>4. \A o \in Calls : call'[o].pc \in Owning => call'[o].storage >= 1
      BY <1>3, <2>1 DEF StorageIsGiven, CallFits, KeepsReservation
    <2>5. \A o \in Calls : call'[o].pc \in Publishing => call'[o].storage < nextStorage
      BY <2>1 DEF StorageIsGiven
    <2> QED  BY <2>1, <2>2, <2>3, <2>4, <2>5 DEF StorageIsGiven
  <1>12. StorageIsApart'
    <2>1. StorageIsApart
      BY DEF Stored
    <2>2. \A m, o \in DOMAIN reservations' :
             reservations'[m].storage = reservations'[o].storage => m = o
      BY <1>2, <2>1 DEF StorageIsApart, ReservationsShrink
    <2>3. \A m \in DOMAIN reservations' : reservations'[m].storage \notin purge
      BY <1>2, <2>1 DEF StorageIsApart, ReservationsShrink
    <2>4. ASSUME NEW m \in DOMAIN reservations', NEW e \in DOMAIN Captures'
          PROVE  reservations'[m].storage # Captures'[e].storage
      BY <1>1, <1>2, <2>1, <2>4 DEF StorageIsApart, ReservationsShrink
    <2>5. ASSUME NEW e \in DOMAIN Captures', NEW f \in DOMAIN Captures',
                 Captures'[e].storage = Captures'[f].storage
          PROVE  e = f
      BY <1>1, <2>1, <2>5 DEF StorageIsApart
    <2>6. \A e \in DOMAIN Captures' : Captures'[e].storage \notin purge
      BY <1>1, <2>1 DEF StorageIsApart
    <2> QED  BY <2>2, <2>3, <2>4, <2>5, <2>6 DEF StorageIsApart
  <1>13. DeletionsFit'
    <2>1. DeletionsFit
      BY DEF Stored
    <2>2. ASSUME NEW a \in Actors, deletion[a].pc \notin {"never", "idle"}
          PROVE  reservations[n].storage # deletion[a].storage
      BY <2>1, <2>2 DEF DeletionsFit
    <2>3. ASSUME NEW a \in Actors, deletion[a].pc \notin {"never", "idle"},
                 NEW e \in DOMAIN Captures'
          PROVE  Captures'[e].storage # deletion[a].storage
      BY <1>1, <2>1, <2>2, <2>3 DEF DeletionsFit
    <2>4. ASSUME NEW a \in Actors, deletion[a].pc \notin {"never", "idle"},
                 NEW m \in DOMAIN reservations', reservations'[m].storage = deletion[a].storage
          PROVE  /\ deletion[a].retained
                 /\ m = deletion[a].name
                 /\ reservations'[m].deleting
                 /\ deletion[a].pc # "forgetting" => HasPayload(deletion[a].storage)
                 /\ \A b \in Actors : Deletes(b, deletion[a].storage) => b = a
      <3>1. m \in DOMAIN reservations /\ reservations'[m] = reservations[m]
        BY <1>2, <2>4 DEF ReservationsShrink
      <3> QED  BY <2>1, <2>4, <3>1 DEF DeletionsFit
    <2> QED  BY <2>3, <2>4 DEF DeletionsFit, HasPayload, Deletes
  <1>14. ASSUME EntriesSettled
         PROVE  EntriesSettled'
    <2>1. ASSUME NEW e \in DOMAIN Captures', NEW o \in Calls,
                 call'[o].pc \in Owning, call'[o].storage = Captures'[e].storage
          PROVE  call'[o].pc \in Settled
      <3>1. CASE o = c
        BY <2>1, <3>1 DEF Settled
      <3>2. CASE o # c /\ e = n
        BY <1>1, <2>1, <3>2 DEF Owner
      <3>3. CASE o # c /\ e # n
        BY <1>1, <1>14, <2>1, <3>3 DEF EntriesSettled, Owner
      <3> QED  BY <3>1, <3>2, <3>3
    <2> QED  BY <2>1 DEF EntriesSettled, Owner, Settled
  <1>16. EntriesLast
    <2>1. ASSUME NEW e \in DOMAIN Captures', e # n
          PROVE  e \in DOMAIN Captures /\ Captures'[e].storage = Captures[e].storage
      BY <1>1, <2>1
    <2> QED  BY <1>1, <2>1 DEF EntriesLast
  <1>15. Stored'
    BY <1>5, <1>6, <1>7, <1>8, <1>9, <1>11, <1>12, <1>13 DEF Stored
  <1> QED  BY <1>14, <1>15, <1>16 DEF StoreKept

\* What an earlier call left is published.
LEMMA CommitStored ==
    ASSUME IInv, Stored, NEW c \in Calls, NEW ok \in BOOLEAN, Commit(c, ok)
    PROVE  StoreKept
  <1>1. UNCHANGED <<files, deletion, purge, scratch, inbox, nextStorage, lost, up>>
        /\ call[c].pc = "committing" /\ Return(c)
    BY DEF Commit, worldVars, targetVars, historyVars
  <1>2. /\ call'[c].pc = "idle"
        /\ \A o \in Calls \ {c} : call'[o] = call[o]
        /\ CallFits(c)
    BY <1>1, GoesHome
  <1> DEFINE n == call[c].name
  <1>3. CASE Committable(c) /\ ok
    <2>1. /\ n \in DOMAIN reservations /\ reservations[n].storage = call[c].storage
          /\ reservations[n].completed /\ ~reservations[n].deleting
      BY <1>3 DEF Committable, Completed, Held
    <2>2. files[reservations[n].storage].final = reservations[n].storage
             \/ PublishesErased(reservations[n].storage)
      BY <1>1, <2>1 DEF Stored, CompletedHavePayload, HasPayload, PublishesErased
    <2>3. catalog' = WithEntry(n) /\ disk' = catalog' /\ reservations' = Without(reservations, n)
      BY <1>3 DEF Commit, Persist
    <2>4. \A o \in Calls \ {c} : Owner(o, reservations[n].storage) => call[o].pc \in Settled
      BY <2>1 DEF Stored, OwnersFit, Settled
    <2>5. call'[c].pc \notin Publishing \cup {"reserving"} /\ call'[c].pc \notin Owning
      BY <1>2 DEF Publishing, Owning, Working
    <2> HIDE DEF n
    <2> QED  BY <1>1, <1>2, <2>1, <2>2, <2>3, <2>4, <2>5, ReservationPublished
  <1>4. CASE ~(Committable(c) /\ ok)
    <2>1. UNCHANGED <<catalog, disk, reservations>>
      BY <1>4 DEF Commit, Persist, catalogVars
    <2>2. ReservationsShrink
      BY <2>1 DEF ReservationsShrink
    <2>3. FilesTyped'
      BY <1>1, <2>1, <2>2, FilesStayTyped DEF Stored, FilesTyped
    <2>4. StorageSuffices'
      BY <1>1, <1>2, NoneReserves DEF Stored, IInv, Typed
    <2> QED  BY <1>1, <1>2, <2>1, <2>2, <2>3, <2>4, CallStep, NothingIsSent DEF Publishing
  <1> QED  BY <1>3, <1>4

\* The capture is complete but the catalog could not be written.
LEMMA CompletionKept ==
    ASSUME IInv, Stored, NEW c \in Calls, NEW pc \in {"retaining", "cleanup"}, Go(c, pc),
           pc = "retaining" => c \in HeapCalls,
           call[c].pc = "completing", Held(c),
           reservations' = [reservations EXCEPT ![call[c].name].completed = TRUE],
           UNCHANGED <<catalog, disk, files, deletion, purge, scratch, inbox, nextStorage, lost,
                       up>>
    PROVE  StoreKept
  <1> DEFINE n == call[c].name
  <1>1. n \in DOMAIN reservations /\ reservations[n].storage = call[c].storage
    BY DEF Held
  <1>2. pc \in CallPcs /\ pc \in Claimless /\ pc \notin Publishing /\ pc # "reserving"
        /\ call[c].pc \in Owning
    BY DEF CallPcs, Owning, Working, Claimless, Publishing
  <1>3. /\ call'[c].pc = pc
        /\ call'[c].name = call[c].name
        /\ call'[c].storage = call[c].storage
        /\ \A o \in Calls \ {c} : call'[o] = call[o]
    BY <1>2, GoesTo
  <1>4. \A m \in DOMAIN reservations : reservations[m] \in Reservations
    BY NamedMember DEF IInv, Typed
  <1>5. /\ DOMAIN reservations' = DOMAIN reservations
        /\ \A m \in DOMAIN reservations :
              /\ reservations'[m].storage = reservations[m].storage
              /\ reservations'[m].kind = reservations[m].kind
              /\ reservations'[m].deleting = reservations[m].deleting
        /\ reservations'[n].completed
        /\ \A m \in DOMAIN reservations \ {n} : reservations'[m] = reservations[m]
    BY <1>1, <1>4 DEF Reservations
  <1> HIDE DEF n
  <1>6. Progress(c)' /\ \A o \in Calls \ {c} : Progress(o) => Progress(o)'
    BY <1>2, <1>3, ClaimlessProgress DEF Progress
  <1>7. files[call[c].storage].final = call[c].storage
    <2>1. Progress(c)
      BY <1>1, <1>2 DEF Stored, OwnersFit, Owner
    <2> QED  BY <2>1 DEF Progress
  <1>8. \A o \in Calls \ {c} : call[o].pc \in Owning => call[o].storage # call[c].storage
    BY <1>2 DEF IInv, Related, StorageIsOwn
  <1>9. StorageSuffices'
    BY <1>2, <1>3, NoneReserves DEF Stored, IInv, Typed
  <1>10. StorageIsGiven'
    BY <1>2, <1>3, <1>5 DEF Stored, StorageIsGiven, Captures
  <1>11. FilesTyped'
    BY <1>5 DEF Stored, FilesTyped
  <1>12. StorageIsApart'
    BY <1>5 DEF Stored, StorageIsApart, Captures
  <1>13. OwnersFit'
    <2>1. ASSUME NEW m \in DOMAIN reservations, NEW o \in Calls,
                 call'[o].pc \in Owning, call'[o].storage = reservations[m].storage
          PROVE  /\ m = call'[o].name
                 /\ reservations[m].kind = Kind(o)
                 /\ reservations'[m].completed => call'[o].pc \in {"retaining", "cleanup"}
                 /\ Progress(o)'
      <3>1. call[o].pc \in Owning /\ call[o].storage = reservations[m].storage
            /\ call'[o].name = call[o].name
        BY <1>2, <1>3, <2>1
      <3>2. /\ m = call[o].name
            /\ reservations[m].kind = Kind(o)
            /\ reservations[m].completed => call[o].pc \in {"retaining", "cleanup"}
            /\ Progress(o)
        BY <3>1 DEF Stored, OwnersFit, Owner
      <3>3. CASE o = c
        BY <1>3, <1>6, <3>1, <3>2, <3>3
      <3>4. CASE o # c
        <4>1. m # n
          BY <1>1, <1>8, <3>1, <3>4
        <4> QED  BY <1>3, <1>5, <1>6, <3>1, <3>2, <3>4, <4>1
      <3> QED  BY <3>3, <3>4
    <2>2. \A m \in DOMAIN reservations, o \in Calls :
             call'[o].pc \in Publishing /\ call'[o].storage = reservations[m].storage
                => reservations[m].kind = Kind(o)
      BY <1>2, <1>3 DEF Stored, OwnersFit
    <2>3. \A o \in Calls : call'[o].pc = "retaining" => o \in HeapCalls
      BY <1>3 DEF Stored, OwnersFit
    <2>4. \A o \in Calls : Kind(o)' = Kind(o)
      BY DEF Kind
    <2> QED  BY <1>5, <2>1, <2>2, <2>3, <2>4 DEF OwnersFit, Owner
  <1>14. DeletionsFit'
    BY <1>5 DEF Stored, DeletionsFit, HasPayload, Deletes, Captures
  <1>15. CompletedHavePayload'
    <2>1. ASSUME NEW m \in DOMAIN reservations
          PROVE  /\ reservations'[m].deleting => reservations'[m].completed
                 /\ reservations'[m].completed /\ ~reservations'[m].deleting =>
                       files[reservations[m].storage].final = reservations[m].storage
                          \/ reservations[m].storage \in lost
      <3>1. CASE m = n
        BY <1>1, <1>5, <1>7, <3>1
      <3>2. CASE m # n
        BY <1>5, <3>2 DEF Stored, CompletedHavePayload, HasPayload
      <3> QED  BY <3>1, <3>2
    <2> QED  BY <1>5, <2>1 DEF CompletedHavePayload, HasPayload
  <1>16. CommandsFit'
    <2>1. ASSUME NEW m, CommandFits(m)
          PROVE  CommandFits(m)'
      BY <1>2, <1>3, <1>5, <2>1 DEF CommandFits, Owner
    <2>2. ASSUME NEW i \in 1..Len(inbox), NEW m, inbox'[i] = m
          PROVE  CommandFits(m)' => CommandFits(inbox[i])'
      BY <2>2 DEF CommandFits
    <2> QED  BY <2>1, <2>2 DEF Stored, CommandsFit
  <1>17. EntriesSettled => EntriesSettled' /\ EntriesLast
    <2>1. EntriesSettled => EntriesSettled'
      BY <1>2, <1>3 DEF EntriesSettled, Owner, Captures, Settled
    <2>2. EntriesLast
      BY DEF EntriesLast, Captures
    <2> QED  BY <2>1, <2>2
  <1>18. Stored'
    BY <1>9, <1>10, <1>11, <1>12, <1>13, <1>14, <1>15, <1>16 DEF Stored
  <1> QED  BY <1>17, <1>18 DEF StoreKept

\* The capture is published, kept as completed, or its file is removed again.
LEMMA CompletesStored ==
    ASSUME IInv, Stored, NEW c \in Calls, NEW ok \in BOOLEAN, StoreComplete(c, ok)
    PROVE  StoreKept
  <1> DEFINE n == call[c].name
             failed == IF c \in HeapCalls THEN "retaining" ELSE "cleanup"
  <1>1. UNCHANGED <<deletion, purge, scratch, inbox, nextStorage, lost, up>>
        /\ call[c].pc = "completing"
    BY DEF StoreComplete, worldVars, targetVars, historyVars
  <1>2. call[c].pc \in Owning \ {"uncapturing", "cleanup", "retaining"}
    BY <1>1 DEF Owning, Working
  <1>3. ~Completed(c)
    BY <1>2, AtWorkIsPending
  <1>4. CASE Held(c) /\ Current(call[c].generation) /\ ok
    <2>1. /\ n \in DOMAIN reservations /\ reservations[n].storage = call[c].storage
          /\ ~reservations[n].completed
      BY <1>3, <1>4 DEF Held, Completed
    <2>2. ~reservations[n].deleting
      BY <2>1 DEF Stored, CompletedHavePayload
    <2>3. files[reservations[n].storage].final = reservations[n].storage
      <3>1. Progress(c)
        BY <1>2, <2>1 DEF Stored, OwnersFit, Owner
      <3> QED  BY <1>1, <2>1, <3>1 DEF Progress
    <2>4. catalog' = WithEntry(n) /\ disk' = catalog' /\ reservations' = Without(reservations, n)
          /\ files' = files
      BY <1>4 DEF StoreComplete, Persist
    <2>5. \A o \in Calls \ {c} : ~Owner(o, reservations[n].storage)
      BY <1>2, <2>1 DEF IInv, Related, StorageIsOwn, Owner
    <2>6. CASE Return(c)
      <3>1. /\ call'[c].pc = "idle"
            /\ \A o \in Calls \ {c} : call'[o] = call[o]
            /\ CallFits(c)
        BY <2>6, GoesHome
      <3>2. call'[c].pc \notin Publishing \cup {"reserving"} /\ call'[c].pc \notin Owning
        BY <3>1 DEF Publishing, Owning, Working
      <3> HIDE DEF n
      <3> QED  BY <1>1, <2>1, <2>2, <2>3, <2>4, <2>5, <3>1, <3>2, ReservationPublished
    <2>7. CASE Go(c, "uncapturing")
      <3>1. "uncapturing" \in Owning /\ "uncapturing" \in Claimless
        BY DEF Owning, Claimless
      <3>2. /\ CallFits(c)
            /\ call'[c].pc = "uncapturing"
            /\ call'[c].pc \notin Publishing
            /\ call'[c].pc # "reserving"
            /\ \A o \in Calls \ {c} : call'[o] = call[o]
        BY <1>2, <1>3, <2>7, <3>1, GoFits DEF Settled
      <3> HIDE DEF n
      <3> QED  BY <1>1, <2>1, <2>2, <2>3, <2>4, <2>5, <3>2, ReservationPublished
    <2> QED  BY <1>4, <2>6, <2>7 DEF StoreComplete
  <1>5. failed \in {"retaining", "cleanup"} /\ (failed = "retaining" => c \in HeapCalls)
    OBVIOUS
  <1>6. CASE Held(c) /\ Current(call[c].generation) /\ ~ok
    <2>1. /\ UNCHANGED <<catalog, disk, files>> /\ Go(c, failed)
          /\ reservations' = [reservations EXCEPT ![call[c].name].completed = TRUE]
      BY <1>6 DEF StoreComplete, Persist, catalogVars
    <2> HIDE DEF failed
    <2> QED  BY <1>1, <1>5, <1>6, <2>1, CompletionKept
  <1>7. CASE ~(Held(c) /\ Current(call[c].generation))
    <2> DEFINE s == call[c].storage
               file == [files[s] EXCEPT !.final = Absent]
    <2>1. UNCHANGED <<catalog, disk, reservations>> /\ Go(c, failed)
      BY <1>7 DEF StoreComplete, catalogVars
    <2>2. files \in [1..MaxStorage -> [staging : Int, final : Int]] /\ s \in 1..MaxStorage
      BY <1>2, FilesOfStorage DEF Stored, FilesTyped
    <2>3. files' = [files EXCEPT ![s] = file]
      BY <1>7, <2>2 DEF StoreComplete
    <2>4. file \in [staging : Int, final : Int]
      BY <2>2 DEF Absent
    <2> HIDE DEF file, failed
    <2>5. /\ files' \in [1..MaxStorage -> [staging : Int, final : Int]]
          /\ \A t \in 1..MaxStorage : t # s => files'[t] = files[t]
      BY <1>2, <2>3, <2>4, OwnerWrites
    <2>6. OnlyFilesOf(c)
      BY <1>2, <1>3, <2>5 DEF OnlyFilesOf
    <2>7. failed \in Owning /\ failed \in Claimless
      BY <1>5 DEF Owning, Working, Claimless
    <2> QED  BY <1>1, <1>2, <1>3, <1>5, <2>1, <2>5, <2>6, <2>7, OwnerFilesStored
  <1> QED  BY <1>4, <1>6, <1>7

\* What reserving a name does to the state.
Reserves(c, n, pc) ==
    /\ n \in Names /\ n \notin DOMAIN reservations
    /\ pc \in {"capturing", "abandoning"}
    /\ call'[c].pc = pc /\ call'[c].name = n /\ call'[c].storage = nextStorage
    /\ \A o \in Calls \ {c} : call'[o] = call[o]
    /\ DOMAIN reservations' = DOMAIN reservations \cup {n}
    /\ reservations'[n] = Reservation(c)
    /\ \A m \in DOMAIN reservations : reservations'[m] = reservations[m]
    /\ nextStorage' = nextStorage + 1
    /\ \/ inbox' = inbox
       \/ inbox' = Append(inbox, Command("capture", n, nextStorage, c, "capturing"))
    /\ Captures' = Captures
    /\ disk' = catalog'

\* The step reserves a name, or the call returns because its number was not stored.
LEMMA ReserveEffect ==
    ASSUME IInv, Stored, NEW c \in Calls, NEW ok \in BOOLEAN, Reserve(c, ok)
    PROVE  \/ \E n, pc : Reserves(c, n, pc)
           \/ Return(c) /\ UNCHANGED <<catalog, disk, reservations, nextStorage, inbox>>
  <1>1. /\ call \in [Calls -> CallRecords] /\ catalog \in Catalogs
        /\ reservations \in Named(Reservations) /\ nextStorage \in Nat /\ disk = catalog
    BY DEF IInv, Typed, Stored, FilesTyped
  <1> DEFINE Numbers(n) ==
                IF call[c].automatic
                THEN /\ Persist(ok, [catalog EXCEPT !.nextId = n[2] + 1])
                     /\ issued' = IF ok THEN issued \cup {n} ELSE issued
                ELSE ok /\ UNCHANGED <<catalogVars, faults, issued>>
             new(n) == [call[c] EXCEPT !.name = n, !.storage = nextStorage]
             Kept(n) == /\ reservations' = With(reservations, n, Reservation(c))
                        /\ nextStorage' = nextStorage + 1
                        /\ IF debugger = call[c].handle
                           THEN /\ inbox' = Append(inbox, Command("capture", n, nextStorage,
                                                                  c, "capturing"))
                                /\ call' = [call EXCEPT ![c] =
                                               [new(n) EXCEPT !.pc = "capturing"]]
                           ELSE /\ call' = [call EXCEPT ![c] =
                                               [new(n) EXCEPT !.pc = "abandoning"]]
                                /\ UNCHANGED inbox
  <1>2. PICK n \in NamesFor(c) :
           /\ Numbers(n)
           /\ IF ok THEN Kept(n)
              ELSE Return(c) /\ UNCHANGED <<reservations, nextStorage, inbox>>
    BY DEF Reserve
  <1>3. CASE ~ok
    BY <1>2, <1>3 DEF Persist, catalogVars
  <1>4. CASE ok
    <2>1. n \in Names /\ n \notin DOMAIN reservations
      <3>1. CASE ~call[c].automatic
        BY <1>1, <1>2, <3>1 DEF NamesFor, CallRecords
      <3>2. CASE call[c].automatic
        <4>1. n \in FreeNames(Kind(c))
          BY <1>2, <3>2 DEF NamesFor
        <4>2. MaxStorage \in Nat /\ Kind(c) \in Kinds
          BY CaptureAssumption DEF Kind, Kinds
        <4> QED  BY <4>1, <4>2 DEF FreeNames, Names
      <3> QED  BY <3>1, <3>2
    <2>2. Captures' = Captures /\ disk' = catalog'
      BY <1>1, <1>2, <1>4 DEF Persist, catalogVars, Captures, Catalogs
    <2>3. Kept(n)
      BY <1>2, <1>4
    <2>4. PICK pc \in {"capturing", "abandoning"} :
             call' = [call EXCEPT ![c] = [new(n) EXCEPT !.pc = pc]]
      BY <2>3
    <2> DEFINE to == [new(n) EXCEPT !.pc = pc]
    <2>5. to.pc = pc /\ to.name = n /\ to.storage = nextStorage
      BY <1>1 DEF CallRecords
    <2>6. /\ call'[c] = to
          /\ \A o \in Calls \ {c} : call'[o] = call[o]
      BY <1>1, <2>4
    <2>7. /\ DOMAIN reservations' = DOMAIN reservations \cup {n}
          /\ reservations'[n] = Reservation(c)
          /\ \A m \in DOMAIN reservations : reservations'[m] = reservations[m]
      BY <2>1, <2>3 DEF With
    <2>8. /\ nextStorage' = nextStorage + 1
          /\ \/ inbox' = inbox
             \/ inbox' = Append(inbox, Command("capture", n, nextStorage, c, "capturing"))
      BY <2>3
    <2> HIDE DEF to
    <2> QED  BY <2>1, <2>2, <2>5, <2>6, <2>7, <2>8 DEF Reserves
  <1> QED  BY <1>3, <1>4

\* A new reservation has storage and a file of its own.
LEMMA ReservationMade ==
    ASSUME IInv, IInv', Stored, NEW c \in Calls, call[c].pc = "reserving", live, NEW n, NEW pc,
           Reserves(c, n, pc), up,
           UNCHANGED <<files, deletion, purge, scratch, lost, up>>
    PROVE  StoreKept
  <1> USE DEF Reserves
  <1>1. /\ nextStorage \in Nat /\ nextStorage >= 1 /\ nextStorage' = nextStorage + 1
        /\ reservations'[n].storage = nextStorage /\ reservations'[n].kind = Kind(c)
        /\ ~reservations'[n].completed /\ ~reservations'[n].deleting
    BY DEF IInv, Typed, Stored, StorageSuffices, Reservation
  <1>2. /\ \A m \in DOMAIN reservations :
              /\ reservations[m].storage < nextStorage /\ reservations[m].storage \in Nat
        /\ \A e \in DOMAIN Captures :
              /\ Captures[e].storage < nextStorage /\ Captures[e].storage \in Nat
        /\ \A o \in Calls : /\ call[o].storage \in Nat
                            /\ call[o].pc \in Owning \cup Publishing
                                  => call[o].storage < nextStorage
        /\ \A a \in Actors : /\ deletion[a].storage \in Nat
                             /\ deletion[a].pc \notin {"never", "idle"} =>
                                   deletion[a].storage < nextStorage
        /\ \A s \in purge : s \in Nat /\ s < nextStorage
    <2>1. \A m \in DOMAIN reservations : reservations[m] \in Reservations
      BY NamedMember DEF IInv, Typed
    <2>2. \A m \in DOMAIN reservations :
             /\ reservations[m].storage < nextStorage /\ reservations[m].storage \in Nat
      BY <2>1 DEF IInv, Related, PendingHasCall, Reservations
    <2>3. Captures \in Named(Entries)
      BY DEF IInv, Typed, Catalogs, Captures
    <2>4. \A e \in DOMAIN Captures : Captures[e] \in Entries
      BY <2>3, NamedMember
    <2>5. \A e \in DOMAIN Captures :
             /\ Captures[e].storage < nextStorage /\ Captures[e].storage \in Nat
      BY <2>4 DEF Entries, Stored, StorageIsGiven
    <2>6. \A o \in Calls : /\ call[o].storage \in Nat
                           /\ call[o].pc \in Owning \cup Publishing
                                 => call[o].storage < nextStorage
      BY DEF IInv, Typed, Related, StorageIsOwn, Stored, StorageIsGiven, CallRecords
    <2>7. \A a \in Actors : /\ deletion[a].storage \in Nat
                            /\ deletion[a].pc \notin {"never", "idle"} =>
                                  deletion[a].storage < nextStorage
      BY DEF IInv, Typed, Deletions, Stored, StorageIsGiven
    <2>8. \A s \in purge : s \in Nat /\ s < nextStorage
      BY DEF Stored, StorageIsGiven
    <2> QED  BY <2>2, <2>5, <2>6, <2>7, <2>8
  <1>3. pc \in Claimless /\ pc \in Owning /\ pc \notin Publishing /\ pc # "reserving"
        /\ pc # "retaining"
    BY DEF Claimless, Owning, Working, Publishing
  <1>4. StorageSuffices'
    <2>1. Reserving' = Reserving \ {c} /\ c \in Reserving
      BY <1>3 DEF Reserving
    <2>2. IsFiniteSet(Reserving) /\ MaxStorage \in Nat
      <3>1. Reserving \subseteq Calls /\ IsFiniteSet(Calls) /\ MaxStorage \in Nat
        BY CaptureAssumption DEF Reserving
      <3> QED  BY <3>1, FS_Subset
    <2>3. Cardinality(Reserving \ {c}) = Cardinality(Reserving) - 1
          /\ Cardinality(Reserving) \in Nat
      BY <2>1, <2>2, FS_RemoveElement, FS_CardinalityType
    <2> QED  BY <1>1, <2>1, <2>2, <2>3 DEF Stored, StorageSuffices
  <1>5. StorageIsGiven'
    <2>1. \A m \in DOMAIN reservations' : reservations'[m].storage >= 1
      BY <1>1 DEF Stored, StorageIsGiven
    <2>2. \A e \in DOMAIN Captures : Captures[e].storage >= 1
                                     /\ Captures[e].storage < nextStorage + 1
      BY <1>1, <1>2 DEF Stored, StorageIsGiven
    <2>3. \A o \in Calls : call'[o].pc \in Owning => call'[o].storage >= 1
      BY <1>1 DEF Stored, StorageIsGiven
    <2>4. \A o \in Calls : call'[o].pc \in Publishing => call'[o].storage < nextStorage + 1
      BY <1>1, <1>2, <1>3
    <2>5. \A a \in Actors : deletion[a].pc \notin {"never", "idle"} =>
                               deletion[a].storage < nextStorage + 1
      BY <1>1, <1>2
    <2>6. \A s \in purge : s \in Nat /\ s < nextStorage + 1
      BY <1>1, <1>2
    <2> QED  BY <1>1, <2>1, <2>2, <2>3, <2>4, <2>5, <2>6 DEF StorageIsGiven
  <1>6. FilesTyped'
    BY DEF Stored, FilesTyped
  <1>7. StorageIsApart'
    <2>1. StorageIsApart
      BY DEF Stored
    <2>2. \A m, o \in DOMAIN reservations' :
             reservations'[m].storage = reservations'[o].storage => m = o
      BY <1>1, <1>2, <2>1 DEF StorageIsApart
    <2>3. \A m \in DOMAIN reservations' : reservations'[m].storage \notin purge
      BY <1>1, <1>2, <2>1 DEF StorageIsApart
    <2>4. \A m \in DOMAIN reservations', e \in DOMAIN Captures :
             reservations'[m].storage # Captures[e].storage
      BY <1>1, <1>2, <2>1 DEF StorageIsApart
    <2> QED  BY <2>1, <2>2, <2>3, <2>4 DEF StorageIsApart
  <1>8. OwnersFit'
    <2>1. ASSUME NEW m \in DOMAIN reservations', NEW o \in Calls,
                 call'[o].pc \in Owning, call'[o].storage = reservations'[m].storage
          PROVE  /\ m = call'[o].name
                 /\ reservations'[m].kind = Kind(o)
                 /\ reservations'[m].completed => call'[o].pc \in {"retaining", "cleanup"}
                 /\ Progress(o)'
      <3>1. CASE o = c
        <4>1. m = n
          BY <1>1, <1>2, <2>1, <3>1
        <4>2. Progress(c)'
          BY <1>3, ClaimlessProgress
        <4> QED  BY <1>1, <3>1, <4>1, <4>2
      <3>2. CASE o # c
        <4>1. m # n
          BY <1>1, <1>2, <2>1, <3>2
        <4>2. /\ m = call[o].name
              /\ reservations[m].kind = Kind(o)
              /\ reservations[m].completed => call[o].pc \in {"retaining", "cleanup"}
              /\ Progress(o)
          BY <2>1, <3>2, <4>1 DEF Stored, OwnersFit, Owner
        <4>3. Progress(o)'
          BY <3>2, <4>2 DEF Progress
        <4> QED  BY <2>1, <3>2, <4>1, <4>2, <4>3
      <3> QED  BY <3>1, <3>2
    <2>2. ASSUME NEW m \in DOMAIN reservations', NEW o \in Calls,
                 call'[o].pc \in Publishing, call'[o].storage = reservations'[m].storage
          PROVE  reservations'[m].kind = Kind(o)
      <3>1. o # c /\ call'[o] = call[o]
        BY <1>3, <2>2
      <3>2. m # n
        BY <1>1, <1>2, <2>2, <3>1
      <3> QED  BY <2>2, <3>1, <3>2 DEF Stored, OwnersFit
    <2>3. \A o \in Calls : call'[o].pc = "retaining" => o \in HeapCalls
      BY <1>3 DEF Stored, OwnersFit
    <2>4. \A o \in Calls : Kind(o)' = Kind(o)
      BY DEF Kind
    <2> QED  BY <2>1, <2>2, <2>3, <2>4 DEF OwnersFit, Owner
  <1>9. DeletionsFit'
    <2>1. DeletionsFit
      BY DEF Stored
    <2>2. ASSUME NEW a \in Actors, deletion[a].pc \notin {"never", "idle"},
                 NEW m \in DOMAIN reservations', reservations'[m].storage = deletion[a].storage
          PROVE  m \in DOMAIN reservations /\ reservations'[m] = reservations[m]
      BY <1>1, <1>2, <2>2
    <2>3. ASSUME NEW a \in Actors, deletion[a].pc \notin {"never", "idle"},
                 NEW m \in DOMAIN reservations', reservations'[m].storage = deletion[a].storage
          PROVE  /\ deletion[a].retained
                 /\ m = deletion[a].name
                 /\ reservations'[m].deleting
                 /\ deletion[a].pc # "forgetting" => HasPayload(deletion[a].storage)
                 /\ \A b \in Actors : Deletes(b, deletion[a].storage) => b = a
      BY <2>1, <2>2, <2>3 DEF DeletionsFit
    <2>4. \A a \in Actors, e \in DOMAIN Captures' : deletion[a].pc \notin {"never", "idle"} =>
             Captures'[e].storage # deletion[a].storage
      BY <2>1 DEF DeletionsFit
    <2> QED  BY <2>3, <2>4 DEF DeletionsFit, HasPayload, Deletes
  <1>10. CompletedHavePayload'
    BY <1>1 DEF Stored, CompletedHavePayload, HasPayload
  <1>11. CommandsFit'
    <2>1. inbox \in Seq(Commands)
      BY DEF IInv, Typed
    <2>2. ASSUME NEW i \in 1..Len(inbox), NEW m, inbox[i] = m
          PROVE  CommandFits(m)'
      <3>1. CommandFits(m)
        BY <2>2 DEF Stored, CommandsFit
      <3>2. m.pc # "erasing" => m.storage < nextStorage /\ m.storage \in Nat
        <4>1. m \in Commands
          BY <2>1, <2>2, ElementOfSeq
        <4> QED  BY <2>2, <4>1 DEF IInv, Related, CaptureComesFirst, Commands
      <3>3. m.op = "capture" /\ m.by \in HeapCalls => m.name \in DOMAIN reservations
        BY <2>2 DEF IInv, Related, SnapshotHasCall, Pending, Held
      <3>4. m.pc # "erasing" =>
               \A o \in Calls : call'[o].pc \in Owning /\ call'[o].storage = m.storage =>
                  o = m.by /\ call'[o].name = m.name
        BY <1>1, <3>1, <3>2 DEF CommandFits, Owner
      <3> QED  BY <3>1, <3>3, <3>4 DEF CommandFits, Owner
    <2>3. PICK k : k = Command("capture", n, nextStorage, c, "capturing")
      OBVIOUS
    <2>4. /\ k.op = "capture" /\ k.pc = "capturing" /\ k.by = c
          /\ k.name = n /\ k.storage = nextStorage /\ k \in Commands
      BY <1>1, <2>3 DEF Command, Commands, Actors, Waiting
    <2>5. CommandFits(k)'
      <3>1. \A o \in Calls : call'[o].pc \in Owning /\ call'[o].storage = nextStorage => o = c
        BY <1>1, <1>2
      <3> QED  BY <1>1, <2>4, <3>1 DEF CommandFits, Owner
    <2>6. ASSUME NEW i \in 1..Len(inbox')
          PROVE  \E m : inbox'[i] = m /\ CommandFits(m)'
      <3>1. CASE inbox' = inbox
        BY <2>2, <2>6, <3>1
      <3>2. CASE inbox' = Append(inbox, k)
        <4>1. /\ Len(inbox') = Len(inbox) + 1 /\ Len(inbox) \in Nat
              /\ inbox'[Len(inbox) + 1] = k
              /\ \A j \in 1..Len(inbox) : inbox'[j] = inbox[j]
          BY <2>1, <2>4, <3>2, Sent
        <4> QED  BY <2>2, <2>5, <2>6, <4>1
      <3> QED  BY <2>3, <3>1, <3>2
    <2>7. ASSUME NEW i \in 1..Len(inbox'), NEW m, inbox'[i] = m
          PROVE  CommandFits(m)' => CommandFits(inbox[i])'
      BY <2>7 DEF CommandFits
    <2> QED  BY <2>6, <2>7 DEF CommandsFit
  <1>12. ASSUME EntriesSettled
         PROVE  EntriesSettled' /\ EntriesLast
    <2>1. ASSUME NEW e \in DOMAIN Captures, NEW o \in Calls,
                 call'[o].pc \in Owning, call'[o].storage = Captures[e].storage
          PROVE  call'[o].pc \in Settled
      <3>1. o # c
        BY <1>1, <1>2, <2>1
      <3> QED  BY <1>12, <2>1, <3>1 DEF EntriesSettled, Owner
    <2>2. EntriesLast
      BY DEF EntriesLast
    <2> QED  BY <2>1, <2>2 DEF EntriesSettled, Owner, Settled
  <1>13. Stored'
    BY <1>4, <1>5, <1>6, <1>7, <1>8, <1>9, <1>10, <1>11 DEF Stored
  <1> QED  BY <1>12, <1>13 DEF StoreKept

\* The step that reserves a name keeps what is stored.
LEMMA ReserveStored ==
    ASSUME IInv, IInv', Stored, NEW c \in Calls, NEW ok \in BOOLEAN, Reserve(c, ok)
    PROVE  StoreKept
  <1>1. /\ UNCHANGED <<files, deletion, purge, scratch, lost, up>>
        /\ up /\ live /\ call[c].pc = "reserving"
    BY DEF Reserve, targetVars, Current
  <1>2. ASSUME NEW n, NEW pc, Reserves(c, n, pc)
        PROVE  StoreKept
    BY <1>1, <1>2, ReservationMade
  <1>3. ASSUME Return(c), UNCHANGED <<catalog, disk, reservations, nextStorage, inbox>>
        PROVE  StoreKept
    <2>1. ReservationsShrink
      BY <1>3 DEF ReservationsShrink
    <2>2. FilesTyped'
      BY <1>1, <1>3, <2>1, FilesStayTyped DEF Stored, FilesTyped
    <2>3. /\ call'[c].pc = "idle"
          /\ \A o \in Calls \ {c} : call'[o] = call[o]
          /\ CallFits(c)
      BY <1>3, GoesHome
    <2>4. StorageSuffices'
      BY <1>3, <2>3, NoneReserves DEF Stored, IInv, Typed
    <2> QED  BY <1>1, <1>3, <2>1, <2>2, <2>3, <2>4, CallStep, NothingIsSent DEF Publishing
  <1> QED  BY <1>2, <1>3, ReserveEffect

\* A step of a deletion, given that the deletions and the completed
\* reservations are as they should be after it.
LEMMA DeletionStep ==
    ASSUME IInv, Stored, FilesTyped', DeletionsFit', CompletedHavePayload',
           ReservationsKeep, EntriesShrink, CommandsCome,
           UNCHANGED <<purge, nextStorage>>,
           EntriesSettled => EntryPayloadsStay,
           \A o \in Calls : CallFits(o),
           \A o \in Calls : call'[o] = call[o] \/ call'[o].pc = "idle",
           \A b \in Actors : deletion'[b].pc \notin {"never", "idle"} =>
                                deletion'[b].storage < nextStorage
    PROVE  StoreKept
  <1>1. /\ \A o \in Calls : call'[o].pc \in Publishing => call'[o].storage < nextStorage
        /\ \A o \in Calls : call'[o].pc = "reserving" => call[o].pc = "reserving"
    BY DEF Stored, StorageIsGiven, Publishing
  <1>2. StorageSuffices'
    BY <1>1, NoneReserves DEF Stored, IInv, Typed
  <1>3. Stored'
    BY <1>1, <1>2, ApartStays, OwnersStay, CommandsStay, GivenStays DEF Stored
  <1>4. EntriesSettled => EntriesSettled' /\ EntriesLast
    BY EntriesStay DEF Stored
  <1> QED  BY <1>3, <1>4 DEF StoreKept

\* What the steps of one deletion, but those that begin it, leave alone.
LEMMA DeletionFrame ==
    ASSUME IInv, Stored, NEW a \in Actors,
           \/ \E ok \in BOOLEAN : Remove(a, ok)
           \/ Forget(a) \/ RestoreDeletion(a) \/ DropDeletion(a)
    PROVE  /\ UNCHANGED <<catalog, disk, call, inbox, scratch, purge, nextStorage, up>>
           /\ EntriesShrink /\ CommandsCome /\ purge' \subseteq purge
           /\ StorageSuffices'
           /\ \A b \in Actors \ {a} : deletion'[b] = deletion[b]
           /\ deletion[a].pc \notin {"never", "idle"}
           /\ \A o \in Calls : call'[o].pc \in Publishing => call'[o].storage < nextStorage
  <1>1. UNCHANGED <<catalog, disk, call, inbox, scratch, purge, nextStorage, up>>
    BY DEF Remove, Forget, RestoreDeletion, DropDeletion, catalogVars, worldVars, targetVars,
           historyVars
  <1>2. EntriesShrink /\ CommandsCome
    BY <1>1, NothingIsSent DEF EntriesShrink, Captures
  <1>3. deletion \in [Actors -> Deletions]
    BY DEF IInv, Typed
  <1>4. /\ \A b \in Actors \ {a} : deletion'[b] = deletion[b]
        /\ deletion[a].pc \notin {"never", "idle"}
    BY <1>3 DEF Remove, Forget, RestoreDeletion, DropDeletion
  <1>5. StorageSuffices'
    BY <1>1, NoneReserves DEF Stored, IInv, Typed
  <1> QED  BY <1>1, <1>2, <1>4, <1>5 DEF Stored, StorageIsGiven

\* A step of a deletion that only lets go of what it has marked.
LEMMA DeletionEndsStored ==
    ASSUME IInv, Stored, NEW a \in Actors, Forget(a) \/ DropDeletion(a)
    PROVE  StoreKept
  <1>1. /\ UNCHANGED <<catalog, disk, call, inbox, scratch, purge, nextStorage, up>>
        /\ EntriesShrink /\ CommandsCome /\ purge' \subseteq purge
        /\ StorageSuffices'
        /\ \A b \in Actors \ {a} : deletion'[b] = deletion[b]
        /\ deletion[a].pc \notin {"never", "idle"}
        /\ \A o \in Calls : call'[o].pc \in Publishing => call'[o].storage < nextStorage
    BY DeletionFrame
  <1>2. UNCHANGED files /\ lost \subseteq lost'
    BY DEF Forget, DropDeletion, worldVars, historyVars
  <1>3. ReservationsShrink
    <2>1. reservations' = reservations \/ reservations' = Without(reservations, deletion[a].name)
      BY DEF Forget, DropDeletion
    <2> QED  BY <2>1, ReservationRemoved DEF IInv, Typed, ReservationsShrink
  <1>4. FilesTyped'
    BY <1>1, <1>2, <1>3, FilesStayTyped DEF Stored, FilesTyped
  <1>5. PayloadsStay /\ (EntriesSettled => EntryPayloadsStay)
    BY <1>2 DEF PayloadsStay, EntryPayloadsStay, HasPayload
  <1>6. DeletionsGoOn
    <2>1. deletion \in [Actors -> Deletions] /\ NoDeletion.pc = "idle"
      BY DEF IInv, Typed, NoDeletion
    <2>2. CASE Forget(a)
      BY <1>1, <2>1, <2>2 DEF Forget, DeletionsGoOn
    <2>3. CASE DropDeletion(a)
      <3>1. CASE deletion[a].retained
        <4> DEFINE new == [deletion[a] EXCEPT !.pc = "restoring"]
        <4>1. new.storage = deletion[a].storage /\ new.name = deletion[a].name
              /\ new.retained = deletion[a].retained
          BY <2>1 DEF Deletions
        <4>2. deletion'[a] = new
          BY <2>1, <2>3, <3>1 DEF DropDeletion, Erased
        <4> HIDE DEF new
        <4>3. deletion[a].pc = "forgetting" => deletion[a].storage \in lost'
          BY <2>3 DEF DropDeletion
        <4> QED  BY <1>1, <4>1, <4>2, <4>3 DEF DeletionsGoOn
      <3>2. CASE ~deletion[a].retained
        <4>1. deletion'[a].pc = "idle"
          BY <2>1, <2>3, <3>2 DEF DropDeletion, Erased
        <4> QED  BY <1>1, <4>1 DEF DeletionsGoOn
      <3> QED  BY <3>1, <3>2
    <2> QED  BY <2>2, <2>3
  <1>7. \A o \in Calls : CallFits(o)
    BY <1>1, <1>2, CallAloneFits DEF Stored
  <1> QED  BY <1>1, <1>3, <1>4, <1>5, <1>6, <1>7, QuietStep

\* A payload file is removed.  Where nothing is marked for it, nobody refers to
\* it; otherwise its reservation is still marked until it is forgotten.
LEMMA RemoveStored ==
    ASSUME IInv, Stored, NEW a \in Actors, NEW ok \in BOOLEAN, Remove(a, ok)
    PROVE  StoreKept
  <1>1. /\ UNCHANGED <<catalog, disk, call, inbox, scratch, purge, nextStorage, up>>
        /\ EntriesShrink /\ CommandsCome /\ purge' \subseteq purge
        /\ StorageSuffices'
        /\ \A b \in Actors \ {a} : deletion'[b] = deletion[b]
        /\ deletion[a].pc \notin {"never", "idle"}
        /\ \A o \in Calls : call'[o].pc \in Publishing => call'[o].storage < nextStorage
    BY DeletionFrame
  <1>2. UNCHANGED <<reservations, lost>> /\ ReservationsShrink
    BY DEF Remove, worldVars, historyVars, ReservationsShrink
  <1> DEFINE d == deletion[a]
             s == d.storage
  <1>3. /\ files' \in [1..MaxStorage -> [staging : Int, final : Int]]
        /\ \A r \in 1..MaxStorage : r # s => files'[r] = files[r]
        /\ ok \/ files' = files
    <2>1. files \in [1..MaxStorage -> [staging : Int, final : Int]]
      BY DEF Stored, FilesTyped
    <2>2. CASE ~ok
      BY <2>1, <2>2 DEF Remove
    <2>3. CASE ok
      <3>1. files' = [files EXCEPT ![s] = [files[s] EXCEPT !.final = Absent]]
        BY <2>3 DEF Remove
      <3>2. s \in 1..MaxStorage =>
               [files[s] EXCEPT !.final = Absent] \in [staging : Int, final : Int]
        BY <2>1 DEF Absent
      <3> QED  BY <2>1, <2>3, <3>1, <3>2
    <2> QED  BY <2>2, <2>3
  <1>4. FilesTyped'
    BY <1>1, <1>2, <1>3, FilesStayTyped DEF Stored, FilesTyped
  <1>5. deletion \in [Actors -> Deletions] /\ d.pc = "removing"
    BY DEF IInv, Typed, Remove
  <1>6. /\ \A n \in DOMAIN reservations :
              /\ reservations[n].storage \in 1..MaxStorage
              /\ reservations[n].storage = s => /\ d.retained
                                                /\ reservations[n].deleting
                                                /\ reservations[n].completed
                                                /\ n = d.name
                                                /\ \A b \in Actors : Deletes(b, s) => b = a
        /\ \A e \in DOMAIN Captures : Captures[e].storage \in 1..MaxStorage
                                      /\ Captures[e].storage # s
    BY <1>1, FilesOfStorage DEF Stored, DeletionsFit, CompletedHavePayload
  <1>7. EntryPayloadsStay
    BY <1>2, <1>3, <1>6 DEF EntryPayloadsStay, HasPayload
  <1>8. ASSUME NEW o \in Calls
        PROVE  CallFits(o)
    <2>1. CASE call[o].pc \in Owning /\ call[o].storage = s /\ Held(o)
      <3>1. Completed(o)
        BY <1>6, <2>1 DEF Held, Completed
      <3>2. call[o].pc \in {"retaining", "cleanup"} => Progress(o)'
        BY <1>1, ClaimlessProgress DEF Claimless
      <3>3. KeepsReservation(o)
        BY <1>1, <3>1, <3>2 DEF KeepsReservation
      <3>4. PublishesItsKind(o)
        BY <1>1 DEF PublishesItsKind, Stored, OwnersFit
      <3> QED  BY <1>1, <3>3, <3>4 DEF CallFits, StaysDone, Stored, OwnersFit
    <2>2. CASE call[o].pc \in Owning /\ call[o].storage = s /\ ~Held(o)
      <3>1. KeepsReservation(o)
        BY <1>1, <2>2 DEF KeepsReservation, Completed
      <3>2. PublishesItsKind(o)
        BY <1>1 DEF PublishesItsKind, Stored, OwnersFit
      <3> QED  BY <1>1, <3>1, <3>2 DEF CallFits, StaysDone, Stored, OwnersFit
    <2>3. CASE call[o].pc \in Owning => call[o].storage # s
      <3>1. call[o].pc \in Owning => files'[call[o].storage] = files[call[o].storage]
        BY <1>3, <2>3, FilesOfStorage
      <3> QED  BY <1>1, <3>1, CallAloneFits DEF Stored
    <2> QED  BY <2>1, <2>2, <2>3
  <1>9. CASE d.retained /\ ok
    <2> DEFINE new == [d EXCEPT !.pc = "forgetting"]
    <2>1. new.pc = "forgetting" /\ new.storage = s /\ new.name = d.name
          /\ new.retained = d.retained
      BY <1>5 DEF Deletions
    <2>2. deletion'[a] = new
      BY <1>5, <1>9 DEF Remove
    <2> HIDE DEF new
    <2>3. CompletedHavePayload'
      <3>1. ASSUME NEW n \in DOMAIN reservations, reservations[n].completed,
                   ~reservations[n].deleting
            PROVE  files'[reservations[n].storage] = files[reservations[n].storage]
        BY <1>3, <1>6, <3>1
      <3> QED  BY <1>2, <3>1 DEF Stored, CompletedHavePayload, HasPayload
    <2>4. DeletionsFit'
      <3>1. \A b \in Actors : /\ deletion'[b].storage = deletion[b].storage
                              /\ deletion'[b].name = deletion[b].name
                              /\ deletion'[b].retained = deletion[b].retained
                              /\ deletion'[b].pc \notin {"never", "idle"} <=>
                                    deletion[b].pc \notin {"never", "idle"}
                              /\ b # a => deletion'[b].pc = deletion[b].pc
        BY <1>1, <2>1, <2>2
      <3>2. ASSUME NEW b \in Actors, deletion[b].pc \notin {"never", "idle"}
            PROVE  \A e \in DOMAIN Captures : Captures[e].storage # deletion[b].storage
        BY <3>2 DEF Stored, DeletionsFit
      <3>3. ASSUME NEW b \in Actors, deletion[b].pc \notin {"never", "idle"},
                   NEW n \in DOMAIN reservations, reservations[n].storage = deletion[b].storage
            PROVE  /\ deletion[b].retained
                   /\ n = deletion[b].name
                   /\ reservations[n].deleting
                   /\ deletion'[b].pc # "forgetting" => HasPayload(deletion[b].storage)'
                   /\ \A o \in Actors : Deletes(o, deletion[b].storage)' => o = b
        <4>1. /\ deletion[b].retained
              /\ n = deletion[b].name
              /\ reservations[n].deleting
              /\ deletion[b].pc # "forgetting" => HasPayload(deletion[b].storage)
              /\ \A o \in Actors : Deletes(o, deletion[b].storage) => o = b
          BY <3>3 DEF Stored, DeletionsFit
        <4>2. ASSUME b # a, deletion'[b].pc # "forgetting"
              PROVE  HasPayload(deletion[b].storage)'
          <5>1. deletion[b].storage # s
            BY <1>1, <4>1, <4>2 DEF Deletes
          <5>2. files'[deletion[b].storage] = files[deletion[b].storage]
            BY <1>3, <1>6, <3>3, <5>1
          <5>3. deletion'[b] = deletion[b]
            BY <1>1, <4>2
          <5> QED  BY <1>2, <4>1, <4>2, <5>2, <5>3 DEF HasPayload
        <4>3. b = a => deletion'[b].pc = "forgetting"
          BY <2>1, <2>2
        <4>4. \A o \in Actors : Deletes(o, deletion[b].storage)' => o = b
          BY <3>1, <4>1 DEF Deletes
        <4> QED  BY <4>1, <4>2, <4>3, <4>4
      <3> QED  BY <1>1, <1>2, <3>1, <3>2, <3>3 DEF DeletionsFit, Captures, HasPayload, Deletes
    <2>5. \A b \in Actors : deletion'[b].pc \notin {"never", "idle"} =>
                               deletion'[b].storage < nextStorage
      BY <1>1, <2>1, <2>2 DEF Stored, StorageIsGiven
    <2> QED
      BY <1>1, <1>2, <1>4, <1>7, <1>8, <2>3, <2>4, <2>5, ShrinkKeeps, DeletionStep
  <1>10. CASE ~(d.retained /\ ok)
    <2>1. PayloadsStay
      <3>1. ok => \A n \in DOMAIN reservations : reservations[n].storage # s
        BY <1>6, <1>10
      <3> QED  BY <1>2, <1>3, <1>6, <3>1 DEF PayloadsStay, HasPayload
    <2>2. DeletionsGoOn
      <3>1. CASE ~d.retained
        <4>1. deletion'[a].pc = "idle"
          BY <1>5, <3>1 DEF Remove, NoDeletion
        <4> QED  BY <1>1, <4>1 DEF DeletionsGoOn
      <3>2. CASE d.retained /\ ~ok
        <4> DEFINE new == [d EXCEPT !.pc = "restoring"]
        <4>1. new.storage = s /\ new.name = d.name /\ new.retained = d.retained
          BY <1>5 DEF Deletions
        <4>2. deletion'[a] = new
          BY <1>5, <3>2 DEF Remove
        <4> HIDE DEF new
        <4> QED  BY <1>1, <1>5, <4>1, <4>2 DEF DeletionsGoOn
      <3> QED  BY <1>10, <3>1, <3>2
    <2> QED  BY <1>1, <1>2, <1>4, <1>7, <1>8, <2>1, <2>2, QuietStep
  <1> QED  BY <1>9, <1>10

\* The reservation n is marked or unmarked, and nothing else of it changes.
LEMMA MarkKeeps ==
    ASSUME IInv, NEW n \in DOMAIN reservations, NEW mark \in BOOLEAN,
           reservations' = [reservations EXCEPT ![n].deleting = mark]
    PROVE  /\ ReservationsKeep
           /\ DOMAIN reservations' = DOMAIN reservations
           /\ reservations'[n].deleting = mark
           /\ \A m \in DOMAIN reservations \ {n} : reservations'[m] = reservations[m]
  <1>1. reservations \in [DOMAIN reservations -> Reservations]
    BY NamedShape DEF IInv, Typed
  <1> DEFINE new == [reservations[n] EXCEPT !.deleting = mark]
  <1>2. /\ new.storage = reservations[n].storage /\ new.kind = reservations[n].kind
        /\ new.completed = reservations[n].completed /\ new.deleting = mark
    BY <1>1 DEF Reservations
  <1>3. /\ reservations'[n] = new
        /\ DOMAIN reservations' = DOMAIN reservations
        /\ \A m \in DOMAIN reservations \ {n} : reservations'[m] = reservations[m]
    BY <1>1
  <1> HIDE DEF new
  <1> QED  BY <1>2, <1>3 DEF ReservationsKeep

\* A deletion that could not remove the payload unmarks its reservation.
LEMMA RestoreStored ==
    ASSUME IInv, Stored, NEW a \in Actors, RestoreDeletion(a)
    PROVE  StoreKept
  <1>1. /\ UNCHANGED <<catalog, disk, call, inbox, scratch, purge, nextStorage, up>>
        /\ EntriesShrink /\ CommandsCome
        /\ \A b \in Actors \ {a} : deletion'[b] = deletion[b]
        /\ deletion[a].pc \notin {"never", "idle"}
    BY DeletionFrame
  <1>2. UNCHANGED <<files, lost>>
    BY DEF RestoreDeletion, worldVars, historyVars
  <1>3. deletion'[a].pc = "idle" /\ deletion[a].pc = "restoring"
    BY DEF RestoreDeletion, NoDeletion, IInv, Typed
  <1> DEFINE d == deletion[a]
  <1>4. CASE ~Marked(a)
    <2>1. ReservationsShrink
      BY <1>4 DEF RestoreDeletion, ReservationsShrink
    <2>2. FilesTyped' /\ PayloadsStay /\ (EntriesSettled => EntryPayloadsStay)
      BY <1>1, <1>2, <2>1, FilesStayTyped
         DEF Stored, FilesTyped, PayloadsStay, EntryPayloadsStay, HasPayload
    <2>3. DeletionsGoOn
      BY <1>1, <1>3 DEF DeletionsGoOn
    <2>4. \A o \in Calls : CallFits(o)
      BY <1>1, <1>2, CallAloneFits DEF Stored
    <2>5. /\ StorageSuffices'
          /\ \A o \in Calls : call'[o].pc \in Publishing => call'[o].storage < nextStorage
      BY DeletionFrame
    <2> QED  BY <1>1, <2>1, <2>2, <2>3, <2>4, <2>5, QuietStep
  <1>5. CASE Marked(a)
    <2>1. PICK n \in DOMAIN reservations :
             /\ n = d.name
             /\ reservations[n].storage = d.storage
             /\ reservations' = [reservations EXCEPT ![n].deleting = FALSE]
      BY <1>5 DEF RestoreDeletion, Marked
    <2>2. /\ ReservationsKeep
          /\ DOMAIN reservations' = DOMAIN reservations
          /\ ~reservations'[n].deleting
          /\ \A m \in DOMAIN reservations \ {n} : reservations'[m] = reservations[m]
      BY <2>1, MarkKeeps
    <2>3. /\ HasPayload(reservations[n].storage)
          /\ \A b \in Actors : Deletes(b, reservations[n].storage) => b = a
      BY <1>1, <1>3, <2>1 DEF Stored, DeletionsFit
    <2>4. CompletedHavePayload'
      <3>1. reservations'[n].storage = reservations[n].storage
        BY <2>2 DEF ReservationsKeep
      <3>2. HasPayload(reservations[n].storage)'
        <4>1. \A s : HasPayload(s) => files'[s].final = s \/ s \in lost'
          BY <1>2 DEF HasPayload
        <4> QED  BY <2>2, <2>3, <3>1, <4>1 DEF HasPayload
      <3>3. \A m \in DOMAIN reservations' \ {n} : reservations'[m] = reservations[m]
        BY <2>2
      <3> QED  BY <1>2, <2>2, <2>3, <3>1, <3>3 DEF Stored, CompletedHavePayload, HasPayload
    <2>5. DeletionsFit'
      <3>1. ASSUME NEW b \in Actors, deletion'[b].pc \notin {"never", "idle"}
            PROVE  /\ deletion'[b] = deletion[b]
                   /\ deletion[b].storage # reservations[n].storage
        BY <1>1, <1>3, <2>3, <3>1 DEF Deletes
      <3>2. \A s : \A b \in Actors : Deletes(b, s)' => Deletes(b, s)
        BY <3>1 DEF Deletes
      <3>3. ASSUME NEW b \in Actors, deletion'[b].pc \notin {"never", "idle"},
                   NEW m \in DOMAIN reservations', reservations'[m].storage = deletion[b].storage
            PROVE  m \in DOMAIN reservations /\ reservations'[m] = reservations[m]
        BY <2>2, <3>1, <3>3 DEF ReservationsKeep
      <3>4. ASSUME NEW b \in Actors, deletion'[b].pc \notin {"never", "idle"},
                   NEW m \in DOMAIN reservations', reservations'[m].storage = deletion[b].storage
            PROVE  /\ deletion[b].retained
                   /\ m = deletion[b].name
                   /\ reservations'[m].deleting
                   /\ deletion[b].pc # "forgetting" => HasPayload(deletion[b].storage)
                   /\ \A o \in Actors : Deletes(o, deletion[b].storage) => o = b
        BY <3>1, <3>3, <3>4 DEF Stored, DeletionsFit
      <3>5. ASSUME NEW b \in Actors, deletion'[b].pc \notin {"never", "idle"},
                   NEW e \in DOMAIN Captures
            PROVE  Captures[e].storage # deletion[b].storage
        BY <3>1, <3>5 DEF Stored, DeletionsFit
      <3> QED  BY <1>1, <1>2, <3>1, <3>2, <3>4, <3>5
               DEF DeletionsFit, HasPayload, Captures, Deletes
    <2>6. FilesTyped'
      BY <1>1, <1>2, <2>2 DEF Stored, FilesTyped
    <2>7. EntryPayloadsStay
      BY <1>2 DEF EntryPayloadsStay, HasPayload
    <2>8. \A o \in Calls : CallFits(o)
      BY <1>1, <1>2, CallAloneFits DEF Stored
    <2>9. \A b \in Actors : deletion'[b].pc \notin {"never", "idle"} =>
                               deletion'[b].storage < nextStorage
      BY <1>1, <1>3 DEF Stored, StorageIsGiven
    <2> QED  BY <1>1, <2>2, <2>4, <2>5, <2>6, <2>7, <2>8, <2>9, DeletionStep
  <1> QED  BY <1>4, <1>5

\* How the deletion of the storage s, found under the name n, is under way after
\* delete_capture took it from the catalog or marked its reservation.
Starts(a, n, s, retained) ==
    /\ \A b \in Actors \ {a} : deletion'[b] = deletion[b]
    /\ \/ deletion'[a].pc = "idle"
       \/ /\ deletion'[a].pc \in {"erasing", "removing", "restoring"}
          /\ deletion'[a].name = n
          /\ deletion'[a].storage = s
          /\ deletion'[a].retained = retained
    /\ CommandsCome

\* delete_capture starts the deletion of what it found, ends it because there is no
\* debugger to ask, or asks the debugger.
LEMMA BeginStarts ==
    ASSUME IInv, NEW a \in Actors, NEW n \in Names, NEW s \in Nat, NEW retained \in BOOLEAN,
           NEW erasing,
           erasing = [pc |-> "erasing", name |-> n, storage |-> s, retained |-> retained],
           \/ /\ \E gone \in BOOLEAN : deletion' = [deletion EXCEPT ![a] = Erased(erasing, gone)]
              /\ UNCHANGED inbox
           \/ /\ deletion' = [deletion EXCEPT ![a] = erasing]
              /\ inbox' = Append(inbox, Command("delete", n, s, a, "erasing"))
    PROVE  Starts(a, n, s, retained)
  <1>1. deletion \in [Actors -> Deletions] /\ inbox \in Seq(Commands)
    BY DEF IInv, Typed
  <1>2. /\ erasing.pc = "erasing" /\ erasing.name = n /\ erasing.storage = s
        /\ erasing.retained = retained
    OBVIOUS
  <1>3. \A b \in Actors \ {a} : deletion'[b] = deletion[b]
    BY <1>1
  <1>4. ASSUME NEW gone \in BOOLEAN,
               deletion' = [deletion EXCEPT ![a] = Erased(erasing, gone)], UNCHANGED inbox
        PROVE  Starts(a, n, s, retained)
    <2>1. deletion'[a] = Erased(erasing, gone)
      BY <1>1, <1>4
    <2>2. \A pc \in {"removing", "restoring"} :
             /\ [erasing EXCEPT !.pc = pc].pc = pc
             /\ [erasing EXCEPT !.pc = pc].name = n
             /\ [erasing EXCEPT !.pc = pc].storage = s
             /\ [erasing EXCEPT !.pc = pc].retained = retained
      OBVIOUS
    <2>3. \/ deletion'[a].pc = "idle"
          \/ \E pc \in {"removing", "restoring"} : deletion'[a] = [erasing EXCEPT !.pc = pc]
      BY <2>1 DEF Erased, NoDeletion
    <2> QED  BY <1>3, <1>4, <2>2, <2>3, NothingIsSent DEF Starts
  <1>5. CASE /\ deletion' = [deletion EXCEPT ![a] = erasing]
             /\ inbox' = Append(inbox, Command("delete", n, s, a, "erasing"))
    <2>1. deletion'[a] = erasing
      BY <1>1, <1>5
    <2>2. PICK m : m = Command("delete", n, s, a, "erasing")
      OBVIOUS
    <2>3. m \in Commands /\ m.op = "delete" /\ m.pc = "erasing"
      BY <2>2 DEF Command, Commands
    <2>4. CommandFits(m)'
      BY <2>3 DEF CommandFits
    <2>5. /\ Len(inbox') = Len(inbox) + 1 /\ Len(inbox) \in Nat
          /\ inbox'[Len(inbox) + 1] = m
          /\ \A i \in 1..Len(inbox) : inbox'[i] = inbox[i]
      BY <1>1, <1>5, <2>2, <2>3, Sent
    <2>6. CommandsCome
      BY <2>3, <2>4, <2>5 DEF CommandsCome
    <2> QED  BY <1>2, <1>3, <2>1, <2>6 DEF Starts
  <1> QED  BY <1>4, <1>5

\* What the two ways in which delete_capture finds its capture have in common.
LEMMA DeleteStep ==
    ASSUME IInv, Stored, NEW a \in Actors, NEW n, NEW s, NEW retained,
           Starts(a, n, s, retained), s < nextStorage,
           ReservationsKeep, EntriesShrink,
           DeletionsFit', CompletedHavePayload', FilesTyped',
           UNCHANGED <<files, lost, purge, nextStorage, scratch>>,
           \A o \in Calls : call'[o] = call[o] \/ call'[o].pc = "idle"
    PROVE  StoreKept
  <1>1. \A b \in Actors : deletion'[b].pc \notin {"never", "idle"} =>
                             deletion'[b].storage < nextStorage
    BY DEF Starts, Stored, StorageIsGiven
  <1>2. CommandsCome
    BY DEF Starts
  <1>3. ASSUME NEW o \in Calls
        PROVE  CallFits(o)
    <2>1. CASE call'[o] = call[o]
      BY <2>1, CallAloneFits DEF Stored
    <2>2. CASE call'[o].pc = "idle"
      <3>1. "idle" \notin Owning \cup Publishing
        BY DEF Owning, Working, Publishing
      <3> QED  BY <2>2, <3>1, CallGoneFits
    <2> QED  BY <2>1, <2>2
  <1>4. EntryPayloadsStay
    BY DEF EntryPayloadsStay, HasPayload
  <1> QED  BY <1>1, <1>2, <1>3, <1>4, DeletionStep

\* An entry is taken from the catalog: nothing else has its storage.
LEMMA EntryDeleted ==
    ASSUME IInv, Stored, NEW a \in Actors, NEW n \in DOMAIN Captures,
           Starts(a, n, Captures[n].storage, FALSE),
           DOMAIN Captures' = DOMAIN Captures \ {n},
           \A e \in DOMAIN Captures' : Captures'[e] = Captures[e],
           disk' = catalog',
           UNCHANGED <<reservations, files, lost, purge, nextStorage, scratch, up>>,
           \A o \in Calls : call'[o] = call[o] \/ call'[o].pc = "idle"
    PROVE  StoreKept
  <1>1. PICK s : s = Captures[n].storage
    OBVIOUS
  <1>2. /\ s < nextStorage
        /\ \A m \in DOMAIN reservations : reservations[m].storage # s
        /\ \A e \in DOMAIN Captures' : Captures'[e].storage # s
    BY <1>1 DEF Stored, StorageIsGiven, StorageIsApart
  <1>3. ReservationsShrink /\ EntriesShrink
    BY DEF ReservationsShrink, EntriesShrink
  <1>4. FilesTyped'
    BY DEF Stored, FilesTyped
  <1>5. CompletedHavePayload'
    BY DEF Stored, CompletedHavePayload, HasPayload
  <1>6. /\ \A b \in Actors \ {a} : deletion'[b] = deletion[b]
        /\ deletion'[a].pc \notin {"never", "idle"} => deletion'[a].storage = s
    BY <1>1 DEF Starts
  <1>7. DeletionsFit'
    <2>1. ASSUME NEW b \in Actors, deletion'[b].pc \notin {"never", "idle"},
                 NEW e \in DOMAIN Captures'
          PROVE  Captures'[e].storage # deletion'[b].storage
      BY <1>2, <1>3, <1>6, <2>1 DEF Stored, DeletionsFit, EntriesShrink
    <2>2. ASSUME NEW b \in Actors, deletion'[b].pc \notin {"never", "idle"},
                 NEW m \in DOMAIN reservations, reservations[m].storage = deletion'[b].storage
          PROVE  b # a /\ deletion'[b] = deletion[b]
      BY <1>2, <1>6, <2>2
    <2>3. ASSUME NEW b \in Actors, deletion'[b].pc \notin {"never", "idle"},
                 NEW m \in DOMAIN reservations, reservations[m].storage = deletion'[b].storage
          PROVE  /\ deletion[b].retained
                 /\ m = deletion[b].name
                 /\ reservations[m].deleting
                 /\ deletion[b].pc # "forgetting" => HasPayload(deletion[b].storage)
                 /\ \A o \in Actors : Deletes(o, deletion[b].storage) => o = b
      BY <2>2, <2>3 DEF Stored, DeletionsFit
    <2>4. ASSUME NEW b \in Actors, deletion'[b].pc \notin {"never", "idle"},
                 NEW m \in DOMAIN reservations, reservations[m].storage = deletion'[b].storage,
                 NEW o \in Actors, deletion'[o].pc \notin {"never", "idle"},
                 deletion'[o].storage = deletion'[b].storage
          PROVE  o = b
      BY <2>2, <2>3, <2>4 DEF Deletes
    <2> QED  BY <2>1, <2>2, <2>3, <2>4 DEF DeletionsFit, HasPayload, Deletes
  <1> QED  BY <1>1, <1>2, <1>3, <1>4, <1>5, <1>7, ShrinkKeeps, DeleteStep

\* A completed reservation is marked: no other deletion is at work on it.
LEMMA ReservationMarked ==
    ASSUME IInv, Stored, NEW a \in Actors, NEW n \in DOMAIN reservations,
           reservations[n].completed, ~reservations[n].deleting,
           Starts(a, n, reservations[n].storage, TRUE),
           reservations' = [reservations EXCEPT ![n].deleting = TRUE],
           UNCHANGED <<catalog, disk, files, lost, purge, nextStorage, scratch, up>>,
           \A o \in Calls : call'[o] = call[o] \/ call'[o].pc = "idle"
    PROVE  StoreKept
  <1>1. PICK s : s = reservations[n].storage
    OBVIOUS
  <1>2. /\ ReservationsKeep
        /\ DOMAIN reservations' = DOMAIN reservations
        /\ reservations'[n].deleting
        /\ \A m \in DOMAIN reservations \ {n} : reservations'[m] = reservations[m]
    BY MarkKeeps
  <1>3. reservations'[n].storage = s /\ reservations'[n].completed
    BY <1>1, <1>2 DEF ReservationsKeep
  <1>4. /\ s < nextStorage
        /\ HasPayload(s)
        /\ \A m \in DOMAIN reservations \ {n} : reservations[m].storage # s
        /\ \A e \in DOMAIN Captures : Captures[e].storage # s
        /\ \A b \in Actors : ~Deletes(b, s)
    <2>1. s < nextStorage
      BY <1>1 DEF IInv, Related, PendingHasCall
    <2>2. HasPayload(s)
      BY <1>1 DEF Stored, CompletedHavePayload
    <2>3. /\ \A m \in DOMAIN reservations \ {n} : reservations[m].storage # s
          /\ \A e \in DOMAIN Captures : Captures[e].storage # s
      BY <1>1 DEF Stored, StorageIsApart
    <2>4. \A b \in Actors : ~Deletes(b, s)
      BY <1>1 DEF Stored, DeletionsFit, Deletes
    <2> QED  BY <2>1, <2>2, <2>3, <2>4
  <1>5. EntriesShrink
    BY DEF EntriesShrink, Captures
  <1>6. FilesTyped'
    BY <1>2 DEF Stored, FilesTyped
  <1>7. CompletedHavePayload'
    BY <1>2, <1>3 DEF Stored, CompletedHavePayload, HasPayload
  <1>8. /\ \A b \in Actors \ {a} : deletion'[b] = deletion[b]
        /\ deletion'[a].pc \notin {"never", "idle"} => /\ deletion'[a].storage = s
                                                       /\ deletion'[a].name = n
                                                       /\ deletion'[a].retained
    BY <1>1 DEF Starts
  <1>9. DeletionsFit'
    <2>1. ASSUME NEW b \in Actors, deletion'[b].pc \notin {"never", "idle"},
                 NEW e \in DOMAIN Captures
          PROVE  Captures[e].storage # deletion'[b].storage
      BY <1>4, <1>8, <2>1 DEF Stored, DeletionsFit
    <2>2. ASSUME NEW b \in Actors, deletion'[b].pc \notin {"never", "idle"},
                 NEW o \in Actors, deletion'[o].pc \notin {"never", "idle"},
                 deletion'[o].storage = deletion'[b].storage
          PROVE  a \in {o, b} => o = b
      BY <1>4, <1>8, <2>2 DEF Deletes
    <2>3. ASSUME NEW b \in Actors, deletion'[b].pc \notin {"never", "idle"},
                 NEW m \in DOMAIN reservations', reservations'[m].storage = deletion'[b].storage,
                 b # a
          PROVE  /\ deletion'[b] = deletion[b]
                 /\ m # n /\ m \in DOMAIN reservations /\ reservations'[m] = reservations[m]
      BY <1>2, <1>3, <1>4, <1>8, <2>3 DEF Deletes
    <2>4. ASSUME NEW b \in Actors, deletion'[b].pc \notin {"never", "idle"},
                 NEW m \in DOMAIN reservations', reservations'[m].storage = deletion'[b].storage,
                 b # a
          PROVE  /\ deletion'[b].retained
                 /\ m = deletion'[b].name
                 /\ reservations'[m].deleting
                 /\ deletion'[b].pc # "forgetting" => HasPayload(deletion[b].storage)
                 /\ \A o \in Actors : Deletes(o, deletion[b].storage) => o = b
      BY <2>3, <2>4 DEF Stored, DeletionsFit
    <2>5. ASSUME NEW b \in Actors, deletion'[b].pc \notin {"never", "idle"},
                 NEW m \in DOMAIN reservations', reservations'[m].storage = deletion'[b].storage,
                 b = a
          PROVE  m = n
      BY <1>2, <1>3, <1>4, <1>8, <2>5
    <2>6. ASSUME NEW b \in Actors, deletion'[b].pc \notin {"never", "idle"},
                 NEW m \in DOMAIN reservations', reservations'[m].storage = deletion'[b].storage,
                 NEW o \in Actors, deletion'[o].pc \notin {"never", "idle"},
                 deletion'[o].storage = deletion'[b].storage
          PROVE  o = b
      BY <1>8, <2>2, <2>3, <2>4, <2>6 DEF Deletes
    <2>7. \A b \in Actors, m \in DOMAIN reservations' :
             /\ deletion'[b].pc \notin {"never", "idle"}
             /\ reservations'[m].storage = deletion'[b].storage
             => /\ deletion'[b].retained
                /\ m = deletion'[b].name
                /\ reservations'[m].deleting
                /\ deletion'[b].pc # "forgetting" =>
                      \/ files'[deletion'[b].storage].final = deletion'[b].storage
                      \/ deletion'[b].storage \in lost'
      <3> SUFFICES ASSUME NEW b \in Actors, deletion'[b].pc \notin {"never", "idle"},
                          NEW m \in DOMAIN reservations',
                          reservations'[m].storage = deletion'[b].storage
                   PROVE  /\ deletion'[b].retained
                          /\ m = deletion'[b].name
                          /\ reservations'[m].deleting
                          /\ deletion'[b].pc # "forgetting" =>
                                \/ files'[deletion'[b].storage].final = deletion'[b].storage
                                \/ deletion'[b].storage \in lost'
        OBVIOUS
      <3>1. CASE b = a
        BY <1>2, <1>4, <1>8, <2>5, <3>1 DEF HasPayload
      <3>2. CASE b # a
        BY <2>3, <2>4, <3>2 DEF HasPayload
      <3> QED  BY <3>1, <3>2
    <2> QED  BY <2>1, <2>6, <2>7 DEF DeletionsFit, HasPayload, Deletes, Captures
  <1> QED  BY <1>1, <1>2, <1>4, <1>5, <1>6, <1>7, <1>9, DeleteStep

\* delete_capture begins.
LEMMA DeleteBeginStored ==
    ASSUME IInv, Stored, NEW a \in Actors, NEW n \in Names, NEW ok \in BOOLEAN,
           DeleteBegin(a, n, ok)
    PROVE  StoreKept
  <1> DEFINE stored == n \in DOMAIN catalog.captures
             retained == ~stored /\ n \in DOMAIN reservations /\ reservations[n].completed
                                 /\ ~reservations[n].deleting
             owner == IF stored THEN catalog.captures[n] ELSE reservations[n]
             registered == live /\ generation = owner.generation
             erasing == [pc |-> "erasing", name |-> n, storage |-> owner.storage,
                         retained |-> retained]
             begin == IF ~registered
                      THEN deletion' = [deletion EXCEPT ![a] = Erased(erasing, TRUE)]
                           /\ UNCHANGED inbox
                      ELSE IF debugger # connects
                      THEN deletion' = [deletion EXCEPT ![a] = Erased(erasing, FALSE)]
                           /\ UNCHANGED inbox
                      ELSE deletion' = [deletion EXCEPT ![a] = erasing]
                           /\ inbox' = Append(inbox, Command("delete", n, owner.storage, a,
                                                             "erasing"))
             Takes == /\ stored
                      /\ Persist(ok, [catalog EXCEPT !.captures = Without(@, n)])
                      /\ IF ok THEN begin ELSE UNCHANGED <<deletion, inbox>>
                      /\ UNCHANGED reservations
             Marks == /\ retained /\ ok
                      /\ reservations' = [reservations EXCEPT ![n].deleting = TRUE]
                      /\ begin
                      /\ UNCHANGED <<catalogVars, faults>>
             Rests == /\ ok
                      /\ UNCHANGED <<catalogVars, faults, reservations, deletion, inbox>>
  <1>1. Takes \/ Marks \/ Rests
    BY DEF DeleteBegin
  <1>2. /\ UNCHANGED <<files, lost, purge, nextStorage, scratch, up>>
        /\ IF a \in Calls THEN Return(a) ELSE UNCHANGED call
    BY DEF DeleteBegin, worldVars, targetVars, historyVars
  <1>3. /\ catalog \in Catalogs /\ disk = catalog
        /\ call \in [Calls -> CallRecords]
        /\ Captures \in Named(Entries)
        /\ reservations \in Named(Reservations)
    BY DEF IInv, Typed, Catalogs, Captures, Stored, FilesTyped
  <1>4. \A o \in Calls : call'[o] = call[o] \/ call'[o].pc = "idle"
    BY <1>2, <1>3 DEF Return, NoCall
  <1>5. \A o \in Calls : CallFits(o)
    <2>1. "idle" \notin Owning \cup Publishing
      BY DEF Owning, Working, Publishing
    <2> QED  BY <1>2, <1>4, <2>1, CallAloneFits, CallGoneFits DEF Stored
  <1>6. ASSUME UNCHANGED <<catalog, disk, reservations, deletion, inbox>>
        PROVE  StoreKept
    <2>1. ReservationsShrink /\ EntriesShrink /\ DeletionsGoOn /\ CommandsCome
      BY <1>6, NothingIsSent DEF ReservationsShrink, EntriesShrink, DeletionsGoOn, Captures
    <2>2. PayloadsStay /\ EntryPayloadsStay
      BY <1>2 DEF PayloadsStay, EntryPayloadsStay, HasPayload
    <2>3. FilesTyped'
      BY <1>2, <1>6 DEF Stored, FilesTyped
    <2>4. /\ \A o \in Calls : call'[o].pc \in Publishing => call'[o].storage < nextStorage
          /\ \A o \in Calls : call'[o].pc = "reserving" => call[o].pc = "reserving"
      BY <1>4 DEF Stored, StorageIsGiven, Publishing
    <2>5. StorageSuffices'
      BY <1>2, <2>4, NoneReserves DEF Stored, IInv, Typed
    <2> QED  BY <1>2, <1>5, <2>1, <2>2, <2>3, <2>4, <2>5, QuietStep
  <1>7. CASE Rests
    BY <1>6, <1>7 DEF catalogVars
  <1>8. CASE Takes /\ ~ok
    BY <1>6, <1>8 DEF Persist, catalogVars
  <1>9. CASE Takes /\ ok
    <2>1. begin
      BY <1>9
    <2>2. owner = Captures[n] /\ retained = FALSE /\ n \in DOMAIN Captures
      BY <1>9 DEF Captures
    <2>3. Captures[n] \in Entries
      BY <1>3, <2>2, NamedMember
    <2>4. /\ Captures' = Without(Captures, n) /\ disk' = catalog'
          /\ UNCHANGED reservations
      BY <1>3, <1>9 DEF Persist, Captures, Catalogs
    <2>5. /\ DOMAIN Captures' = DOMAIN Captures \ {n}
          /\ \A e \in DOMAIN Captures' : Captures'[e] = Captures[e]
      BY <1>3, <2>4, NamedShape DEF Without, Restrict
    <2>6. Captures[n].storage \in Nat
      BY <2>3 DEF Entries
    <2>7. erasing = [pc |-> "erasing", name |-> n, storage |-> Captures[n].storage,
                     retained |-> FALSE]
      BY <2>2
    <2>8. \/ /\ \E gone \in BOOLEAN : deletion' = [deletion EXCEPT ![a] = Erased(erasing, gone)]
             /\ UNCHANGED inbox
          \/ /\ deletion' = [deletion EXCEPT ![a] = erasing]
             /\ inbox' = Append(inbox, Command("delete", n, Captures[n].storage, a, "erasing"))
      BY <2>1, <2>2
    <2> HIDE DEF erasing, owner, retained, registered, begin, stored, Takes, Marks, Rests
    <2>9. Starts(a, n, Captures[n].storage, FALSE)
      BY <2>6, <2>7, <2>8, BeginStarts
    <2> QED  BY <1>2, <1>4, <2>2, <2>4, <2>5, <2>9, EntryDeleted
  <1>10. CASE Marks
    <2>1. begin
      BY <1>10
    <2>2. /\ owner = reservations[n] /\ retained = TRUE /\ n \in DOMAIN reservations
          /\ reservations[n].completed /\ ~reservations[n].deleting
          /\ reservations' = [reservations EXCEPT ![n].deleting = TRUE]
          /\ UNCHANGED <<catalog, disk>>
      BY <1>10 DEF catalogVars
    <2>3. reservations[n] \in Reservations
      BY <1>3, <2>2, NamedMember
    <2>6. reservations[n].storage \in Nat
      BY <2>3 DEF Reservations
    <2>7. erasing = [pc |-> "erasing", name |-> n, storage |-> reservations[n].storage,
                     retained |-> TRUE]
      BY <2>2
    <2>8. \/ /\ \E gone \in BOOLEAN : deletion' = [deletion EXCEPT ![a] = Erased(erasing, gone)]
             /\ UNCHANGED inbox
          \/ /\ deletion' = [deletion EXCEPT ![a] = erasing]
             /\ inbox' = Append(inbox, Command("delete", n, reservations[n].storage, a,
                                               "erasing"))
      BY <2>1, <2>2
    <2> HIDE DEF erasing, owner, retained, registered, begin, stored, Takes, Marks, Rests
    <2>9. Starts(a, n, reservations[n].storage, TRUE)
      BY <2>6, <2>7, <2>8, BeginStarts
    <2> QED  BY <1>2, <1>4, <2>2, <2>9, ReservationMarked
  <1> QED  BY <1>1, <1>7, <1>8, <1>9, <1>10

\* A call that rests still fits when the files of its reservation do.
LEMMA CallRestsFits ==
    ASSUME OwnersFit, NEW o \in Calls, call'[o] = call[o],
           call[o].pc \in Owning /\ Held(o) => files'[call[o].storage] = files[call[o].storage],
           \A n \in DOMAIN scratch' : n \in DOMAIN scratch /\ scratch'[n] = scratch[n]
    PROVE  CallFits(o)
  <1>1. CASE call[o].pc \in Owning /\ ~Held(o)
    <2>1. KeepsReservation(o)
      BY <1>1 DEF KeepsReservation, Completed
    <2>2. PublishesItsKind(o)
      BY DEF PublishesItsKind, OwnersFit
    <2> QED  BY <2>1, <2>2 DEF CallFits, StaysDone, OwnersFit
  <1>2. CASE call[o].pc \in Owning => Held(o)
    BY <1>2, CallAloneFits
  <1> QED  BY <1>1, <1>2

\* Steps that the store does not see.
LEMMA StoreRests ==
    ASSUME IInv, Stored,
           UNCHANGED <<catalog, disk, reservations, files, call, deletion, purge, inbox, scratch,
                       up, nextStorage, lost>>
    PROVE  StoreKept
  <1>1. ReservationsShrink /\ EntriesShrink /\ DeletionsGoOn /\ CommandsCome
    BY NothingIsSent DEF ReservationsShrink, EntriesShrink, DeletionsGoOn, Captures
  <1>2. PayloadsStay /\ EntryPayloadsStay
    BY DEF PayloadsStay, EntryPayloadsStay, HasPayload
  <1>3. FilesTyped' /\ StorageSuffices'
    BY NoneReserves DEF Stored, FilesTyped, IInv, Typed
  <1>4. \A o \in Calls : CallFits(o)
    BY CallAloneFits DEF Stored
  <1>5. \A o \in Calls : call'[o].pc \in Publishing => call'[o].storage < nextStorage
    BY DEF Stored, StorageIsGiven
  <1> QED  BY <1>1, <1>2, <1>3, <1>4, <1>5, QuietStep

\* What a deleted context leaves is removed: nothing refers to it any more.
LEMMA PurgeStored ==
    ASSUME IInv, Stored, Purge
    PROVE  StoreKept
  <1>1. /\ UNCHANGED <<catalog, disk, reservations, call, deletion, inbox, scratch, up,
                      nextStorage, lost>>
        /\ files' = WithoutFiles(purge) /\ purge' = {}
    BY DEF Purge, catalogVars, targetVars, historyVars
  <1>2. files \in [1..MaxStorage -> [staging : Int, final : Int]]
    BY DEF Stored, FilesTyped
  <1>3. /\ files' \in [1..MaxStorage -> [staging : Int, final : Int]]
        /\ \A s \in 1..MaxStorage : s \notin purge => files'[s] = files[s]
    BY <1>1, <1>2 DEF WithoutFiles, NoFile, Absent
  <1>4. /\ \A n \in DOMAIN reservations :
              files'[reservations[n].storage] = files[reservations[n].storage]
        /\ \A e \in DOMAIN Captures : files'[Captures[e].storage] = files[Captures[e].storage]
    BY <1>3, FilesOfStorage DEF Stored, StorageIsApart
  <1>5. ReservationsShrink /\ EntriesShrink /\ DeletionsGoOn /\ CommandsCome
    BY <1>1, NothingIsSent DEF ReservationsShrink, EntriesShrink, DeletionsGoOn, Captures
  <1>6. PayloadsStay /\ EntryPayloadsStay
    BY <1>1, <1>4 DEF PayloadsStay, EntryPayloadsStay, HasPayload
  <1>7. FilesTyped' /\ StorageSuffices'
    BY <1>1, <1>3, NoneReserves DEF Stored, FilesTyped, IInv, Typed
  <1>8. \A o \in Calls : CallFits(o)
    BY <1>1, <1>4, CallRestsFits DEF Stored, Held
  <1>9. \A o \in Calls : call'[o].pc \in Publishing => call'[o].storage < nextStorage
    BY <1>1 DEF Stored, StorageIsGiven
  <1> QED  BY <1>1, <1>5, <1>6, <1>7, <1>8, <1>9, QuietStep

\* A process that starts keeps the payloads of its entries, and has no reservations.
LEMMA RestartStored ==
    ASSUME IInv, Stored, Restart
    PROVE  StoreKept
  <1>1. /\ UNCHANGED <<disk, reservations, call, deletion, purge, inbox, scratch, nextStorage,
                      lost>>
        /\ ~up /\ up' = TRUE /\ catalog' = disk
        /\ files' = WithoutFiles(DOMAIN files \ {e.storage : e \in Range(disk.captures)})
    BY DEF Restart, historyVars
  <1>2. /\ files \in [1..MaxStorage -> [staging : Int, final : Int]]
        /\ disk = catalog /\ DOMAIN reservations = {}
    BY <1>1 DEF Stored, FilesTyped
  <1>3. /\ files' \in [1..MaxStorage -> [staging : Int, final : Int]]
        /\ \A s \in {e.storage : e \in Range(disk.captures)} : files'[s] = files[s]
    <2>1. \A S : WithoutFiles(S) \in [1..MaxStorage -> [staging : Int, final : Int]]
      BY <1>2 DEF WithoutFiles, NoFile, Absent
    <2>2. ASSUME NEW e \in DOMAIN Captures
          PROVE  files'[Captures[e].storage] = files[Captures[e].storage]
      <3>1. Captures[e].storage \in DOMAIN files
        BY <1>2, FilesOfStorage
      <3>2. Captures[e] \in Range(disk.captures)
        BY <1>2 DEF Range, Captures
      <3> QED  BY <1>1, <3>1, <3>2 DEF WithoutFiles
    <2>3. \A e \in Range(disk.captures) : \E n \in DOMAIN Captures : e = Captures[n]
      BY <1>2 DEF Range, Captures
    <2> QED  BY <1>1, <2>1, <2>2, <2>3
  <1>4. \A e \in DOMAIN Captures : files'[Captures[e].storage] = files[Captures[e].storage]
    BY <1>2, <1>3 DEF Range, Captures
  <1>5. ReservationsShrink /\ EntriesShrink /\ DeletionsGoOn /\ CommandsCome
    BY <1>1, <1>2, NothingIsSent DEF ReservationsShrink, EntriesShrink, DeletionsGoOn, Captures
  <1>6. PayloadsStay /\ EntryPayloadsStay
    BY <1>1, <1>2, <1>4 DEF PayloadsStay, EntryPayloadsStay, HasPayload
  <1>7. FilesTyped' /\ StorageSuffices'
    BY <1>1, <1>2, <1>3, NoneReserves DEF Stored, FilesTyped, IInv, Typed
  <1>8. \A o \in Calls : CallFits(o)
    BY <1>1, <1>2, CallRestsFits DEF Stored, Held
  <1>9. \A o \in Calls : call'[o].pc \in Publishing => call'[o].storage < nextStorage
    BY <1>1 DEF Stored, StorageIsGiven
  <1> QED  BY <1>1, <1>5, <1>6, <1>7, <1>8, <1>9, QuietStep

\* A process that ends forgets its calls and its reservations.
LEMMA CrashStored ==
    ASSUME IInv, Stored, Crash
    PROVE  StoreKept
  <1>1. /\ UNCHANGED <<catalog, disk, files, nextStorage, lost>>
        /\ reservations' = <<>> /\ purge' = {} /\ inbox' = <<>> /\ scratch' = <<>>
        /\ call' = Idle(call, NoCall) /\ deletion' = Idle(deletion, NoDeletion)
    BY DEF Crash, catalogVars, historyVars
  <1>2. DOMAIN reservations' = {} /\ DOMAIN scratch' = {} /\ Len(inbox') = 0
    BY <1>1, NamedEmpty, EmptySeq
  <1>3. /\ \A o \in Calls : call'[o].pc \in {"never", "idle"}
        /\ \A a \in Actors : deletion'[a].pc \in {"never", "idle"}
    BY <1>1 DEF Idle, NoCall, NoDeletion, IInv, Typed
  <1>4. ReservationsShrink /\ EntriesShrink /\ DeletionsGoOn /\ CommandsCome
    BY <1>1, <1>2, <1>3 DEF ReservationsShrink, EntriesShrink, DeletionsGoOn, Captures,
                            CommandsCome
  <1>5. PayloadsStay /\ EntryPayloadsStay
    BY <1>1 DEF PayloadsStay, EntryPayloadsStay, HasPayload
  <1>6. \A o \in Calls : call'[o].pc \notin Owning \cup Publishing /\ call'[o].pc # "reserving"
    <2>1. {"never", "idle"} \cap (Owning \cup Publishing \cup {"reserving"}) = {}
      BY DEF Owning, Working, Publishing
    <2> QED  BY <1>3, <2>1
  <1>7. FilesTyped' /\ StorageSuffices'
    BY <1>1, <1>2, <1>6, NoneReserves DEF Stored, FilesTyped, IInv, Typed
  <1>8. \A o \in Calls : CallFits(o)
    BY <1>6, CallGoneFits
  <1> QED  BY <1>1, <1>4, <1>5, <1>6, <1>7, <1>8, QuietStep

\* A context that is deleted leaves the storage of its captures to be removed.
LEMMA DeleteContextStored ==
    ASSUME IInv, Stored, NEW ok \in BOOLEAN, DeleteContext(ok)
    PROVE  StoreKept
  <1>1. /\ UNCHANGED <<nextStorage, lost, files, call, deletion, scratch, inbox, up>>
        /\ Persist(ok, [catalog EXCEPT !.captures = <<>>])
    BY DEF DeleteContext, historyVars
  <1>2. catalog \in Catalogs /\ reservations \in Named(Reservations) /\ nextStorage \in Nat
        /\ Captures \in Named(Entries)
    BY DEF IInv, Typed, Catalogs, Captures
  <1>3. CASE ~ok
    <2>1. UNCHANGED <<catalog, disk, reservations, purge>>
      BY <1>1, <1>3 DEF DeleteContext, Persist, catalogVars
    <2> QED  BY <1>1, <2>1, StoreRests
  <1>4. CASE ok
    <2>1. /\ Captures' = <<>> /\ disk' = catalog' /\ reservations' = <<>>
          /\ purge' = purge \cup {e.storage : e \in Range(catalog.captures)}
                            \cup {r.storage : r \in Range(reservations)}
      BY <1>1, <1>2, <1>4 DEF DeleteContext, Persist, Captures, Catalogs
    <2>2. DOMAIN Captures' = {} /\ DOMAIN reservations' = {}
      BY <2>1, NamedEmpty
    <2>3. ReservationsShrink /\ EntriesShrink /\ DeletionsGoOn /\ CommandsCome
      BY <1>1, <2>2, NothingIsSent DEF ReservationsShrink, EntriesShrink, DeletionsGoOn
    <2>4. PayloadsStay /\ EntryPayloadsStay
      BY <1>1 DEF PayloadsStay, EntryPayloadsStay, HasPayload
    <2>5. FilesTyped' /\ StorageSuffices'
      BY <1>1, <2>1, <2>2, NoneReserves DEF Stored, FilesTyped, IInv, Typed
    <2>6. \A o \in Calls : CallFits(o)
      BY <1>1, CallAloneFits DEF Stored
    <2>7. StorageIsGiven'
      <3>1. ASSUME NEW n \in DOMAIN reservations
            PROVE  reservations[n].storage \in Nat /\ reservations[n].storage < nextStorage
        <4>1. reservations[n] \in Reservations
          BY <1>2, <3>1, NamedMember
        <4> QED  BY <3>1, <4>1 DEF Reservations, IInv, Related, PendingHasCall
      <3>2. ASSUME NEW e \in DOMAIN Captures
            PROVE  Captures[e].storage \in Nat /\ Captures[e].storage < nextStorage
        <4>1. Captures[e] \in Entries
          BY <1>2, <3>2, NamedMember
        <4> QED  BY <3>2, <4>1 DEF Entries, Stored, StorageIsGiven
      <3>3. \A s \in purge' : s \in Nat /\ s < nextStorage
        <4>1. \A s \in purge : s \in Nat /\ s < nextStorage
          BY DEF Stored, StorageIsGiven
        <4>2. \A e \in Range(catalog.captures) : e.storage \in Nat /\ e.storage < nextStorage
          BY <3>2 DEF Range, Captures
        <4>3. \A r \in Range(reservations) : r.storage \in Nat /\ r.storage < nextStorage
          BY <3>1 DEF Range
        <4> QED  BY <2>1, <4>1, <4>2, <4>3
      <3> QED  BY <1>1, <2>2, <3>3 DEF Stored, StorageIsGiven
    <2>8. StorageIsApart'
      BY <2>2 DEF StorageIsApart
    <2>9. Stored'
      BY <2>3, <2>4, <2>5, <2>6, <2>7, <2>8, ShrinkKeeps, CompletedStay, DeletionsStay, OwnersStay,
         CommandsStay DEF Stored
    <2>10. EntriesSettled' /\ EntriesLast
      BY <2>2 DEF EntriesSettled, EntriesLast
    <2> QED  BY <2>9, <2>10 DEF StoreKept
  <1> QED  BY <1>3, <1>4

\* The context and the connection change, which the store does not see.
LEMMA WorldStored ==
    ASSUME IInv, Stored, CreateContext \/ Connect \/ Disconnect
    PROVE  StoreKept
  BY StoreRests DEF CreateContext, Connect, Disconnect, catalogVars, historyVars

\* Where a call goes after an answer.
LEMMA AnsweredPc ==
    ASSUME NEW pc \in Waiting
    PROVE  /\ pc \in Owning /\ pc \notin {"retaining", "cleanup", "uncapturing"}
           /\ Answered(pc, FALSE) \in Claimless \ {"retaining"}
           /\ \A ok \in BOOLEAN :
                 /\ Answered(pc, ok) \in Owning
                 /\ Answered(pc, ok) # "retaining"
                 /\ Answered(pc, ok) \notin Claimless =>
                       \/ pc = "capturing" /\ ok /\ Answered(pc, ok) = "captured"
                       \/ pc = "copying" /\ ok /\ Answered(pc, ok) = "copied"
  BY DEF Answered, Waiting, Owning, Working, Claimless

\* The debugger ends: whoever waits for it goes on without an answer.
LEMMA DebuggerEndsStored ==
    ASSUME IInv, Stored, DebuggerEnds
    PROVE  StoreKept
  <1>1. /\ UNCHANGED <<catalog, disk, reservations, files, purge, nextStorage, lost, up>>
        /\ inbox' = <<>> /\ scratch' = <<>>
    BY DEF DebuggerEnds, catalogVars, historyVars
  <1>2. DOMAIN scratch' = {} /\ Len(inbox') = 0
    BY <1>1, NamedEmpty, EmptySeq
  <1>3. call \in [Calls -> CallRecords] /\ deletion \in [Actors -> Deletions]
    BY DEF IInv, Typed
  <1>4. ASSUME NEW o \in Calls, call[o].pc \notin Waiting
        PROVE  CallFits(o) /\ call'[o] = call[o]
    <2>1. call'[o] = call[o]
      BY <1>4 DEF DebuggerEnds
    <2> QED  BY <1>1, <1>2, <2>1, CallAloneFits DEF Stored
  <1>5. ASSUME NEW o \in Calls, call[o].pc \in Waiting
        PROVE  CallFits(o) /\ call'[o].pc \in Owning
    <2>1. PICK pc : pc = Answered(call[o].pc, FALSE)
      OBVIOUS
    <2>2. /\ pc \in Claimless \ {"retaining"} /\ pc \in Owning
          /\ call[o].pc \in Owning
          /\ call[o].pc \notin {"retaining", "cleanup", "uncapturing"}
      BY <1>5, <2>1, AnsweredPc
    <2>3. pc \in CallPcs
      BY <2>2 DEF CallPcs
    <2>4. call'[o] = [call[o] EXCEPT !.pc = pc]
      BY <1>5, <2>1 DEF DebuggerEnds
    <2>5. call'[o].pc = pc /\ call'[o].name = call[o].name /\ call'[o].storage = call[o].storage
      BY <1>3, <2>3, <2>4, CallAt
    <2>6. Progress(o)'
      BY <2>2, <2>5, ClaimlessProgress
    <2>7. KeepsReservation(o)
      BY <2>2, <2>5, <2>6 DEF KeepsReservation
    <2>8. pc \notin Publishing /\ pc # "retaining"
      BY <2>2 DEF Publishing, Claimless
    <2> QED  BY <2>2, <2>5, <2>7, <2>8 DEF CallFits, PublishesItsKind, StaysDone, Settled
  <1>6. DeletionsGoOn
    <2>1. ASSUME NEW a \in Actors, deletion[a].pc = "erasing"
          PROVE  \/ deletion'[a].pc \in {"never", "idle"}
                 \/ /\ deletion'[a].storage = deletion[a].storage
                    /\ deletion'[a].name = deletion[a].name
                    /\ deletion'[a].retained = deletion[a].retained
      <3>1. deletion'[a] = Erased(deletion[a], FALSE)
        BY <2>1 DEF DebuggerEnds
      <3>2. CASE deletion[a].retained
        <4> DEFINE new == [deletion[a] EXCEPT !.pc = "restoring"]
        <4>1. new.storage = deletion[a].storage /\ new.name = deletion[a].name
              /\ new.retained = deletion[a].retained
          BY <1>3 DEF Deletions
        <4>2. deletion'[a] = new
          BY <3>1, <3>2 DEF Erased
        <4> HIDE DEF new
        <4> QED  BY <4>1, <4>2
      <3>3. CASE ~deletion[a].retained
        BY <3>1, <3>3 DEF Erased, NoDeletion
      <3> QED  BY <3>2, <3>3
    <2>2. ASSUME NEW a \in Actors, deletion[a].pc # "erasing"
          PROVE  deletion'[a] = deletion[a]
      BY <2>2 DEF DebuggerEnds
    <2> QED  BY <2>1, <2>2 DEF DeletionsGoOn
  <1>7. ReservationsShrink /\ EntriesShrink /\ CommandsCome
    BY <1>1, <1>2 DEF ReservationsShrink, EntriesShrink, CommandsCome, Captures
  <1>8. PayloadsStay /\ EntryPayloadsStay
    BY <1>1 DEF PayloadsStay, EntryPayloadsStay, HasPayload
  <1>9. /\ \A o \in Calls : call'[o].pc = "reserving" => call[o].pc = "reserving"
        /\ \A o \in Calls : call'[o].pc \in Publishing => call'[o].storage < nextStorage
    <2>1. Owning \cap (Publishing \cup {"reserving"}) = {}
      BY DEF Owning, Working, Publishing
    <2> QED  BY <1>4, <1>5, <2>1 DEF Stored, StorageIsGiven
  <1>10. FilesTyped' /\ StorageSuffices'
    BY <1>1, <1>2, <1>9, NoneReserves DEF Stored, FilesTyped, IInv, Typed
  <1> QED  BY <1>1, <1>4, <1>5, <1>6, <1>7, <1>8, <1>9, <1>10, QuietStep

\* The debugger has served a command: what it may have changed.
Served(cmd, ok) ==
    /\ inbox # <<>> /\ cmd = Head(inbox) /\ inbox' = Tail(inbox)
    /\ Answer(cmd, ok)
    /\ UNCHANGED <<catalog, disk, reservations, purge, nextStorage, lost, up>>
    /\ files' \in [1..MaxStorage -> [staging : Int, final : Int]]
    /\ \A s : files'[s].final = files[s].final
    /\ \A n \in DOMAIN scratch' : scratch'[n] \in Int

\* Nothing but the call or the deletion that waits moves after a command.
LEMMA ServedStored ==
    ASSUME IInv, Stored, NEW cmd, NEW ok \in BOOLEAN, Served(cmd, ok),
           \A o \in Calls : call'[o] = call[o] => CallFits(o),
           /\ ok /\ Awaited(cmd) /\ cmd.pc \in {"capturing", "copying"}
           /\ Held(cmd.by) /\ Progress(cmd.by)
           /\ call'[cmd.by].pc = Answered(cmd.pc, ok)
           /\ call'[cmd.by].name = call[cmd.by].name
           /\ call'[cmd.by].storage = call[cmd.by].storage
           => Progress(cmd.by)'
    PROVE  StoreKept
  <1>1. inbox \in Seq(Commands) /\ deletion \in [Actors -> Deletions]
    BY DEF IInv, Typed
  <1>2. /\ cmd \in Commands /\ cmd = inbox[1] /\ 1 \in 1..Len(inbox)
        /\ Len(inbox) \in Nat /\ Len(inbox') = Len(inbox) - 1
        /\ \A i \in 1..Len(inbox') : i + 1 \in 1..Len(inbox) /\ inbox'[i] = inbox[i + 1]
    BY <1>1, HeadTailProperties, EmptySeq, LenProperties DEF Served
  <1>3. CommandsCome
    BY <1>2 DEF CommandsCome
  <1>4. ReservationsShrink /\ EntriesShrink
    BY DEF Served, ReservationsShrink, EntriesShrink, Captures
  <1>5. PayloadsStay /\ EntryPayloadsStay
    BY DEF Served, PayloadsStay, EntryPayloadsStay, HasPayload
  <1>6. FilesTyped'
    BY DEF Served, Stored, FilesTyped
  <1>7. ASSUME StorageSuffices', DeletionsGoOn, \A o \in Calls : CallFits(o),
               \A o \in Calls : call'[o].pc \in Publishing => call'[o].storage < nextStorage
        PROVE  StoreKept
    BY <1>3, <1>4, <1>5, <1>6, <1>7, QuietStep DEF Served
  <1>8. CASE UNCHANGED call
    <2>1. \A o \in Calls : CallFits(o)
      BY <1>8
    <2>2. StorageSuffices'
      BY <1>8, NoneReserves DEF Served, Stored, IInv, Typed
    <2>3. \A o \in Calls : call'[o].pc \in Publishing => call'[o].storage < nextStorage
      BY <1>8 DEF Stored, StorageIsGiven
    <2>4. DeletionsGoOn
      <3>1. CASE UNCHANGED deletion
        BY <3>1 DEF DeletionsGoOn
      <3>2. CASE /\ deletion' = [deletion EXCEPT ![cmd.by] = Erased(@, ok)]
                 /\ deletion[cmd.by].pc = "erasing"
        <4>1. cmd.by \in Actors
          BY <1>2 DEF Commands
        <4>2. PICK d : d = deletion[cmd.by]
          OBVIOUS
        <4>3. \A pc \in {"removing", "restoring"} :
                 /\ [d EXCEPT !.pc = pc].storage = d.storage
                 /\ [d EXCEPT !.pc = pc].name = d.name
                 /\ [d EXCEPT !.pc = pc].retained = d.retained
          BY <1>1, <4>1, <4>2 DEF Deletions
        <4>4. \/ deletion'[cmd.by].pc = "idle"
              \/ \E pc \in {"removing", "restoring"} :
                    deletion'[cmd.by] = [d EXCEPT !.pc = pc]
          BY <1>1, <3>2, <4>1, <4>2 DEF Erased, NoDeletion
        <4>5. \A b \in Actors \ {cmd.by} : deletion'[b] = deletion[b]
          BY <1>1, <3>2
        <4>6. d.pc = "erasing"
          BY <3>2, <4>2
        <4>7. \/ deletion'[cmd.by].pc \in {"never", "idle"}
              \/ /\ deletion[cmd.by].pc \notin {"never", "idle"}
                 /\ deletion[cmd.by].pc # "forgetting"
                 /\ deletion'[cmd.by].storage = deletion[cmd.by].storage
                 /\ deletion'[cmd.by].name = deletion[cmd.by].name
                 /\ deletion'[cmd.by].retained = deletion[cmd.by].retained
          BY <4>2, <4>3, <4>4, <4>6
        <4> QED  BY <4>5, <4>7 DEF DeletionsGoOn
      <3>3. UNCHANGED deletion \/ (Awaited(cmd) /\ cmd.pc = "erasing")
        BY DEF Served, Answer
      <3> QED  BY <3>1, <3>2, <3>3 DEF Served, Answer, Awaited
    <2> QED  BY <1>7, <2>1, <2>2, <2>3, <2>4
  <1>9. CASE ~UNCHANGED call
    <2> DEFINE c == cmd.by
    <2>1. /\ Awaited(cmd) /\ cmd.pc # "erasing"
          /\ Go(c, Answered(cmd.pc, ok)) /\ UNCHANGED deletion
      BY <1>9 DEF Served, Answer
    <2>2. c \in Calls /\ call[c].pc = cmd.pc /\ call[c].pc \in Waiting
      BY <1>2, <2>1 DEF IInv, Related, CaptureComesFirst, Awaited, Commands
    <2>3. PICK pc : pc = Answered(cmd.pc, ok)
      OBVIOUS
    <2>4. /\ pc \in Owning /\ pc # "retaining" /\ call[c].pc \in Owning
          /\ call[c].pc \notin {"retaining", "cleanup", "uncapturing"}
          /\ pc \notin Claimless => cmd.pc \in {"capturing", "copying"} /\ ok
      BY <2>2, <2>3, AnsweredPc
    <2>5. Go(c, pc)
      BY <2>1, <2>3
    <2>6. /\ call'[c].pc = pc /\ call'[c].name = call[c].name
          /\ call'[c].storage = call[c].storage
      BY <2>2, <2>4, <2>5, GoesTo DEF CallPcs
    <2>7. pc \notin Claimless /\ Held(c) /\ Progress(c) => Progress(c)'
      BY <2>1, <2>3, <2>4, <2>6
    <2>8. /\ CallFits(c) /\ call'[c].pc \notin Publishing /\ call'[c].pc # "reserving"
          /\ \A o \in Calls \ {c} : call'[o] = call[o]
      BY <2>2, <2>4, <2>5, <2>7, GoFits DEF Settled
    <2>9. \A o \in Calls : CallFits(o)
      BY <2>8
    <2>10. StorageSuffices'
      BY <2>8, NoneReserves DEF Served, Stored, IInv, Typed
    <2>11. \A o \in Calls : call'[o].pc \in Publishing => call'[o].storage < nextStorage
      BY <2>8 DEF Stored, StorageIsGiven
    <2>12. DeletionsGoOn
      BY <2>1 DEF DeletionsGoOn
    <2> QED  BY <1>7, <2>9, <2>10, <2>11, <2>12
  <1> QED  BY <1>8, <1>9

\* A call that rests still fits when its progress does.
LEMMA ProgressFits ==
    ASSUME OwnersFit, NEW o \in Calls, call'[o] = call[o],
           call[o].pc \in Owning /\ Held(o) /\ Progress(o) => Progress(o)'
    PROVE  CallFits(o)
  <1>1. KeepsReservation(o)
    BY DEF KeepsReservation
  <1>2. PublishesItsKind(o)
    BY DEF PublishesItsKind, OwnersFit
  <1> QED  BY <1>1, <1>2 DEF CallFits, StaysDone, OwnersFit

\* Nothing changes where there is nothing.
LEMMA NothingThere ==
    ASSUME NEW S, NEW T, NEW f \in [S -> T], NEW x, x \notin S, NEW y
    PROVE  [f EXCEPT ![x] = y] = f
  <1> DEFINE g == [f EXCEPT ![x] = y]
  <1>1. g = [s \in S |-> IF s = x THEN y ELSE f[s]]
    OBVIOUS
  <1>2. g = [s \in S |-> f[s]]
    BY <1>1
  <1>3. f = [s \in S |-> f[s]]
    OBVIOUS
  <1> QED  BY <1>2, <1>3

\* The command at the head fits its call, and its storage was given out.
LEMMA HeadFits ==
    ASSUME IInv, Stored, inbox # <<>>, NEW cmd, cmd = Head(inbox)
    PROVE  /\ cmd \in Commands
           /\ CommandFits(cmd)
           /\ cmd.pc # "erasing" => cmd.by \in Calls
  <1>1. inbox \in Seq(Commands)
    BY DEF IInv, Typed
  <1>2. cmd = inbox[1] /\ 1 \in 1..Len(inbox) /\ cmd \in Commands
    BY <1>1, HeadTailProperties, EmptySeq, LenProperties
  <1>3. CommandFits(cmd)
    BY <1>2 DEF Stored, CommandsFit
  <1> QED  BY <1>2, <1>3 DEF IInv, Related, CaptureComesFirst

\* The debugger takes a capture: it holds it for the reservation of its name.
LEMMA ServeCaptureStored ==
    ASSUME IInv, Stored, NEW cmd, NEW ok \in BOOLEAN, inbox # <<>>, cmd = Head(inbox),
           inbox' = Tail(inbox), ServeCapture(cmd, ok),
           UNCHANGED <<catalog, disk, reservations, purge, nextStorage, lost, up>>
    PROVE  StoreKept
  <1>1. /\ cmd \in Commands /\ CommandFits(cmd)
        /\ cmd.op = "capture" /\ cmd.pc = "capturing" /\ cmd.by \in Calls
        /\ UNCHANGED files /\ Answer(cmd, ok)
    BY HeadFits DEF ServeCapture, CommandFits
  <1> DEFINE Takes == cmd.by \in HeapCalls /\ ok /\ Awaited(cmd)
  <1>2. scratch' = IF Takes THEN With(scratch, cmd.name, cmd.storage)
                   ELSE IF cmd.by \notin HeapCalls \/ ~ok THEN scratch
                   ELSE Without(scratch, cmd.name)
    BY DEF ServeCapture
  <1>3. /\ ~Takes => \A n \in DOMAIN scratch' : n \in DOMAIN scratch /\ scratch'[n] = scratch[n]
        /\ Takes => \A n \in DOMAIN scratch' :
                       IF n = cmd.name THEN scratch'[n] = cmd.storage
                       ELSE n \in DOMAIN scratch /\ scratch'[n] = scratch[n]
    BY <1>2 DEF With, Without, Restrict
  <1>4. \A n \in DOMAIN scratch' : scratch'[n] \in Int
    BY <1>1, <1>3 DEF Commands, Stored, FilesTyped
  <1>5. Served(cmd, ok)
    BY <1>1, <1>4 DEF Served, Stored, FilesTyped
  <1>6. ASSUME NEW o \in Calls, Held(o), Takes, call[o].name = cmd.name
        PROVE  call[o].storage = cmd.storage
    BY <1>1, <1>6 DEF Held, CommandFits
  <1>7. ASSUME NEW o \in Calls, call'[o] = call[o]
        PROVE  CallFits(o)
    <2>1. ASSUME call[o].pc \in Owning, Held(o), Progress(o)
          PROVE  Progress(o)'
      <3>1. ASSUME call[o].name \in DOMAIN scratch',
                   call[o].name \in DOMAIN scratch => scratch[call[o].name] = call[o].storage
            PROVE  scratch'[call[o].name] = call[o].storage
        BY <1>3, <1>6, <2>1, <3>1
      <3> QED  BY <1>1, <1>7, <2>1, <3>1 DEF Progress
    <2> QED  BY <1>7, <2>1, ProgressFits DEF Stored
  <1>8. ASSUME ok, Awaited(cmd), call'[cmd.by].pc = Answered(cmd.pc, ok),
               call'[cmd.by].name = call[cmd.by].name,
               call'[cmd.by].storage = call[cmd.by].storage
        PROVE  Progress(cmd.by)'
    <2>1. call[cmd.by].pc = "capturing" /\ call[cmd.by].storage = cmd.storage
      BY <1>1, <1>8 DEF Awaited
    <2>2. call[cmd.by].name = cmd.name
      BY <1>1, <2>1 DEF CommandFits, Owner, Owning, Working
    <2>3. call'[cmd.by].pc = "captured"
      BY <1>1, <1>8 DEF Answered
    <2>4. cmd.by \in HeapCalls /\ cmd.name \in DOMAIN scratch' => scratch'[cmd.name] = cmd.storage
      BY <1>3, <1>8
    <2> QED  BY <1>8, <2>1, <2>2, <2>3, <2>4 DEF Progress
  <1> QED  BY <1>5, <1>7, <1>8, ServedStored

\* The debugger copies its capture to a new staging file of the call that asked.
LEMMA ServeCopyStored ==
    ASSUME IInv, Stored, NEW cmd, NEW ok \in BOOLEAN, inbox # <<>>, cmd = Head(inbox),
           inbox' = Tail(inbox), ServeCopy(cmd, ok),
           UNCHANGED <<catalog, disk, reservations, purge, nextStorage, lost, up>>
    PROVE  StoreKept
  <1>1. /\ cmd \in Commands /\ CommandFits(cmd)
        /\ cmd.op = "copy" /\ cmd.pc = "copying" /\ cmd.by \in Calls
        /\ UNCHANGED scratch /\ Answer(cmd, ok)
    BY HeadFits DEF ServeCopy, CommandFits
  <1> DEFINE possible == /\ cmd.name \in DOMAIN scratch
                         /\ files[cmd.storage].staging = Absent
             copied == IF ok THEN scratch[cmd.name] ELSE Partial
  <1>2. /\ files \in [1..MaxStorage -> [staging : Int, final : Int]]
        /\ \A n \in DOMAIN scratch : scratch[n] \in Int
    BY DEF Stored, FilesTyped
  <1>3. /\ ~possible => files' = files /\ ~ok
        /\ possible => files' = [files EXCEPT ![cmd.storage].staging = copied]
    BY DEF ServeCopy
  <1>4. possible => copied \in Int
    BY <1>2 DEF Partial
  <1>5. /\ files' \in [1..MaxStorage -> [staging : Int, final : Int]]
        /\ \A s : files'[s].final = files[s].final
        /\ \A s \in 1..MaxStorage : s # cmd.storage => files'[s] = files[s]
        /\ cmd.storage \in 1..MaxStorage /\ possible => files'[cmd.storage].staging = copied
    <2>1. CASE ~possible
      BY <1>2, <1>3, <2>1
    <2>2. CASE possible /\ cmd.storage \notin 1..MaxStorage
      <3> DEFINE new == [files[cmd.storage] EXCEPT !.staging = copied]
      <3>0. files' = [files EXCEPT ![cmd.storage] = new]
        BY <1>3, <2>2
      <3> HIDE DEF new
      <3>1. files' = files
        BY <1>2, <2>2, <3>0, NothingThere
      <3> QED  BY <1>2, <2>2, <3>1
    <2>3. CASE possible /\ cmd.storage \in 1..MaxStorage
      <3> DEFINE new == [files[cmd.storage] EXCEPT !.staging = copied]
      <3>1. files[cmd.storage] \in [staging : Int, final : Int]
        BY <1>2, <2>3
      <3>2. /\ new \in [staging : Int, final : Int]
            /\ new.staging = copied /\ new.final = files[cmd.storage].final
        BY <1>4, <2>3, <3>1
      <3>3. files' = [files EXCEPT ![cmd.storage] = new]
        BY <1>3, <2>3
      <3> HIDE DEF new, copied, possible
      <3>4. /\ files' \in [1..MaxStorage -> [staging : Int, final : Int]]
            /\ files'[cmd.storage] = new
            /\ \A s \in 1..MaxStorage : s # cmd.storage => files'[s] = files[s]
            /\ \A s : s \notin 1..MaxStorage => files'[s] = files[s]
        BY <1>2, <2>3, <3>2, <3>3
      <3> QED  BY <3>2, <3>4
    <2> QED  BY <2>1, <2>2, <2>3
  <1>6. Served(cmd, ok)
    BY <1>1, <1>2, <1>5 DEF Served
  <1>7. ASSUME NEW o \in Calls, call'[o] = call[o]
        PROVE  CallFits(o)
    <2>1. ASSUME call[o].pc \in Owning, Progress(o)
          PROVE  Progress(o)'
      <3>1. call[o].storage \in 1..MaxStorage
        BY <2>1, FilesOfStorage
      <3>2. ASSUME call[o].pc = "copied", files[call[o].storage].staging = call[o].storage
            PROVE  files'[call[o].storage] = files[call[o].storage]
        <4>1. CASE call[o].storage # cmd.storage
          BY <1>5, <3>1, <4>1
        <4>2. CASE call[o].storage = cmd.storage
          <5>1. ~possible
            BY <3>1, <3>2, <4>2 DEF Absent
          <5> QED  BY <1>3, <5>1
        <4> QED  BY <4>1, <4>2
      <3>3. files'[call[o].storage].final = files[call[o].storage].final
        BY <1>5
      <3> QED  BY <1>1, <1>7, <2>1, <3>2, <3>3 DEF Progress
    <2> QED  BY <1>7, <2>1, ProgressFits DEF Stored
  <1>8. ASSUME ok, Awaited(cmd), Progress(cmd.by), call'[cmd.by].pc = Answered(cmd.pc, ok),
               call'[cmd.by].name = call[cmd.by].name,
               call'[cmd.by].storage = call[cmd.by].storage
        PROVE  Progress(cmd.by)'
    <2>1. call[cmd.by].pc = "copying" /\ call[cmd.by].storage = cmd.storage
      BY <1>1, <1>8 DEF Awaited
    <2>2. call[cmd.by].name = cmd.name /\ call[cmd.by].pc \in Owning
      BY <1>1, <2>1 DEF CommandFits, Owner, Owning, Working
    <2>3. call'[cmd.by].pc = "copied"
      BY <1>1, <1>8 DEF Answered
    <2>4. cmd.storage \in 1..MaxStorage
      BY <1>1, <2>1, <2>2, FilesOfStorage
    <2>5. possible
      BY <1>3, <1>8
    <2>6. cmd.by \in HeapCalls => scratch[cmd.name] = cmd.storage
      BY <1>8, <2>1, <2>2, <2>5 DEF Progress
    <2>7. cmd.by \in HeapCalls => files'[cmd.storage].staging = cmd.storage
      BY <1>5, <1>8, <2>4, <2>5, <2>6
    <2> QED  BY <1>8, <2>1, <2>3, <2>7 DEF Progress
  <1> QED  BY <1>6, <1>7, <1>8, ServedStored

\* The debugger forgets a capture.
LEMMA ServeDeleteStored ==
    ASSUME IInv, Stored, NEW cmd, NEW ok \in BOOLEAN, inbox # <<>>, cmd = Head(inbox),
           inbox' = Tail(inbox), ServeDelete(cmd, ok),
           UNCHANGED <<catalog, disk, reservations, purge, nextStorage, lost, up>>
    PROVE  StoreKept
  <1>1. /\ cmd \in Commands /\ CommandFits(cmd) /\ cmd.op = "delete"
        /\ UNCHANGED files /\ Answer(cmd, ok)
    BY HeadFits DEF ServeDelete
  <1>2. cmd.pc \notin {"capturing", "copying"}
    BY <1>1 DEF CommandFits
  <1>3. \A n \in DOMAIN scratch' : n \in DOMAIN scratch /\ scratch'[n] = scratch[n]
    BY DEF ServeDelete, Without, Restrict
  <1>4. Served(cmd, ok)
    BY <1>1, <1>3 DEF Served, Stored, FilesTyped
  <1>5. \A o \in Calls : call'[o] = call[o] => CallFits(o)
    BY <1>1, <1>3, CallAloneFits DEF Stored
  <1> QED  BY <1>2, <1>4, <1>5, ServedStored

\* The debugger serves its next command.
LEMMA DebuggerServesStored ==
    ASSUME IInv, Stored, NEW ok \in BOOLEAN, DebuggerStep(ok)
    PROVE  StoreKept
  <1>1. /\ inbox # <<>> /\ inbox' = Tail(inbox)
        /\ UNCHANGED <<catalog, disk, reservations, purge, nextStorage, lost, up>>
    BY DEF DebuggerStep, catalogVars, historyVars
  <1>2. PICK cmd : cmd = Head(inbox)
    OBVIOUS
  <1>3. ServeCapture(cmd, ok) \/ ServeCopy(cmd, ok) \/ ServeDelete(cmd, ok)
    BY <1>2 DEF DebuggerStep
  <1> QED  BY <1>1, <1>2, <1>3, ServeCaptureStored, ServeCopyStored, ServeDeleteStored

\* Nothing is stored at first.
LEMMA StoredInitially ==
    ASSUME Init
    PROVE  Stored /\ EntriesSettled
  <1>1. \A c \in Calls : call[c].pc \in {"idle", "never"}
    <2>1. PICK present \in Clients :
             call = [c \in Calls |-> IF c \in present THEN NoCall ELSE Never(NoCall)]
      BY DEF Init
    <2>2. NoCall.pc = "idle" /\ Never(NoCall).pc = "never"
      BY DEF NoCall, Never
    <2> QED  BY <2>1, <2>2
  <1>2. \A a \in Actors : deletion[a].pc \in {"idle", "never"}
    <2>1. PICK present \in Clients :
             deletion = [a \in Actors |-> IF a \in present THEN NoDeletion
                                          ELSE Never(NoDeletion)]
      BY DEF Init
    <2>2. NoDeletion.pc = "idle" /\ Never(NoDeletion).pc = "never"
      BY DEF NoDeletion, Never
    <2> QED  BY <2>1, <2>2
  <1>3. /\ DOMAIN reservations = {} /\ DOMAIN Captures = {} /\ DOMAIN scratch = {}
        /\ Len(inbox) = 0
    BY NamedEmpty, EmptySeq DEF Init, Captures, EmptyCatalog
  <1>4. {"idle", "never"} \cap (Owning \cup Publishing \cup {"reserving", "retaining"}) = {}
    BY DEF Owning, Working, Publishing
  <1>5. StorageSuffices
    <2>1. Reserving = {}
      BY <1>1, <1>4 DEF Reserving
    <2>2. Cardinality(Reserving) = 0
      BY <2>1, FS_EmptySet
    <2>3. MaxStorage \in Nat
      BY CaptureAssumption
    <2> QED  BY <2>2, <2>3 DEF Init, StorageSuffices
  <1>6. StorageIsGiven
    BY <1>1, <1>2, <1>3, <1>4 DEF Init, StorageIsGiven
  <1>7. FilesTyped
    BY <1>3 DEF Init, FilesTyped, NoFile, Absent
  <1>8. StorageIsApart
    BY <1>3 DEF StorageIsApart
  <1>9. OwnersFit
    BY <1>1, <1>3, <1>4 DEF OwnersFit
  <1>10. DeletionsFit
    BY <1>2 DEF DeletionsFit
  <1>11. CompletedHavePayload /\ CommandsFit /\ EntriesSettled
    BY <1>3 DEF CompletedHavePayload, CommandsFit, EntriesSettled
  <1> QED  BY <1>5, <1>6, <1>7, <1>8, <1>9, <1>10, <1>11 DEF Stored

\* Every step keeps what is stored.
LEMMA StoreSteps ==
    ASSUME IInv, Stored, [Next]_vars
    PROVE  StoreKept
  <1>1. IInv'
    BY EveryStep
  <1>2. CASE UNCHANGED vars
    BY <1>2, StoreRests DEF vars
  <1>3. ASSUME NEW c \in Calls, CallSteps(c)
        PROVE  StoreKept
    <2>1. ASSUME NEW ok \in BOOLEAN, Reserve(c, ok) \/ Commit(c, ok) \/ StoreComplete(c, ok)
          PROVE  StoreKept
      BY <1>1, <2>1, ReserveStored, CommitStored, CompletesStored
    <2>2. ASSUME NEW renamed \in BOOLEAN, NEW ok \in BOOLEAN,
                 PublishFile(c, renamed, ok) \/ StoreWrite(c, renamed, ok)
          PROVE  StoreKept
      BY <2>2, PublishesStored, WritesStored
    <2>3. CASE Rejoin(c) \/ Refused(c) \/ Rejoined(c) \/ PromoteLoad(c)
      BY <2>3, LooksUpStored
    <2>4. CASE Captured(c) \/ StoreCheck(c) \/ Cleanup(c)
      BY <1>1, <2>4, OwnerMovesStored
    <2>5. CASE Abandon(c) \/ Release(c)
      BY <2>5, GivesUpStored
    <2>6. CASE Retain(c)
      BY <2>6, RetainsStored
    <2>7. ASSUME NEW ok \in BOOLEAN, DeleteBegin(c, call[c].name, ok)
          PROVE  StoreKept
      <3>1. call[c].name \in Names /\ c \in Actors
        BY DEF IInv, Typed, CallRecords, Actors
      <3> QED  BY <2>7, <3>1, DeleteBeginStored
    <2> QED  BY <1>3, <2>1, <2>2, <2>3, <2>4, <2>5, <2>6, <2>7 DEF CallSteps
  <1>4. ASSUME NEW c \in Calls,
               \/ \E n \in RequestedNames : Begin(c, n)
               \/ BeginAutomatic(c) \/ Cancel(c) \/ Drop(c)
        PROVE  StoreKept
    BY <1>1, <1>4, BeginsStored, OwnerMovesStored
  <1>5. ASSUME NEW a \in Actors, DeletionSteps(a) \/ DropDeletion(a)
        PROVE  StoreKept
    BY <1>5, RemoveStored, DeletionEndsStored, RestoreStored DEF DeletionSteps
  <1>6. ASSUME NEW a \in Deleters, NEW ok \in BOOLEAN,
               NEW n \in DOMAIN catalog.captures \cup DOMAIN reservations,
               DeleteBegin(a, n, ok)
        PROVE  StoreKept
    <2>1. catalog.captures \in Named(Entries) /\ reservations \in Named(Reservations)
      BY DEF IInv, Typed, Catalogs
    <2>2. n \in Names /\ a \in Actors
      BY <2>1, NamedShape DEF Actors
    <2> QED  BY <1>6, <2>2, DeleteBeginStored
  <1>7. ASSUME NEW ok \in BOOLEAN, DebuggerStep(ok) \/ DeleteContext(ok)
        PROVE  StoreKept
    BY <1>7, DebuggerServesStored, DeleteContextStored
  <1>8. CASE Purge \/ CreateContext \/ Connect \/ Disconnect
    BY <1>8, PurgeStored, WorldStored
  <1>9. CASE DebuggerEnds \/ Crash \/ Restart
    BY <1>9, DebuggerEndsStored, CrashStored, RestartStored
  <1> QED  BY <1>2, <1>3, <1>4, <1>5, <1>6, <1>7, <1>8, <1>9 DEF Next

\* The payloads, the reservations, the calls, the deletions and the commands to
\* the debugger fit together in every reachable state (Stored), whatever fails,
\* crashes, is cancelled or is deleted, and however many calls there are.
THEOREM StoreInvariance == Spec => []Stored
  <1>1. Init => Stored
    BY StoredInitially
  <1>2. IInv /\ Stored /\ [Next]_vars => Stored'
    BY StoreSteps DEF StoreKept
  <1> QED  BY <1>1, <1>2, Invariance, PTL DEF Spec

\* A completed capture whose catalog entry could not be written keeps its payload
\* for a repeated call, unless a deletion that had removed it was dropped.
THEOREM RetainedPayloadsAreKept == Spec => []RetainedPayloadIsKept
  <1>1. Stored => RetainedPayloadIsKept
    BY DEF Stored, CompletedHavePayload, HasPayload, RetainedPayloadIsKept, Range
  <1> QED  BY <1>1, StoreInvariance, PTL

\* The state file becomes unloadable in two steps only: a heap call whose
\* capture another call published meanwhile removes the file, or a call publishes
\* what a dropped deletion had removed.  Whatever else fails, crashes, is dropped,
\* cancelled or deleted, no entry loses its payload and none is added without one.
THEOREM OnlyRacesSpoilCatalog == Spec => CatalogStaysLoadable
  <1>1. Init => EntriesSettled
    BY StoredInitially
  <1>2. IInv /\ Stored /\ EntriesSettled /\ [Next]_vars => EntriesSettled'
    BY StoreSteps DEF StoreKept
  <1>3. ASSUME IInv, Stored, EntriesSettled, [Next]_vars,
               NEW t, t \in Unloadable', t \notin Unloadable
        PROVE  RemovesPublished(t) \/ PublishesErased(t)
    <2>1. StoreKept
      BY <1>3, StoreSteps
    <2>2. Captures = disk.captures /\ Captures' = disk'.captures
      BY <1>3, <2>1 DEF StoreKept, Stored, FilesTyped, Captures
    <2>3. PICK e \in DOMAIN Captures' : t = Captures'[e].storage
      BY <1>3, <2>2 DEF Unloadable, Range
    <2>4. files'[t].final # t
      BY <1>3 DEF Unloadable
    <2>5. ~(e \in DOMAIN Captures /\ Captures[e].storage = t /\ files[t].final # t)
      BY <1>3, <2>2 DEF Unloadable, Range
    <2> QED  BY <1>3, <2>1, <2>3, <2>4, <2>5 DEF StoreKept, EntriesLast
  <1>4. IInv /\ Stored /\ EntriesSettled /\ [Next]_vars =>
           \A s \in Unloadable' \ Unloadable : RemovesPublished(s) \/ PublishesErased(s)
    BY <1>3
  <1> QED  BY <1>1, <1>2, <1>4, Invariance, StoreInvariance, PTL DEF Spec, CatalogStaysLoadable
===============================================================================
