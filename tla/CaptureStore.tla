----------------------------- MODULE CaptureStore -----------------------------
(***************************************************************************)
(* The catalog of captures of one context: coverage, CPU profiles ("plain" *)
(* captures) and heap snapshots (service/debugger_service.rs with capture, *)
(* heap_profiler, coverage and cpu_profiler of service/debugger_service/). *)
(*                                                                         *)
(* A call reserves a name, has the target's debugger take the capture,     *)
(* brings the payload into a file of its own and publishes an entry in the *)
(* catalog, which is on disk.  Each of these is a step: other calls,       *)
(* deletions, a disconnect, the deletion of the context and a crash of the *)
(* process come in between, and so does the end of the caller, which drops *)
(* the handler at an await; guards then clean up.  When only the catalog   *)
(* cannot be written, the reservation keeps the completed payload for a    *)
(* repeated call or for an explicit deletion.                              *)
(*                                                                         *)
(* The catalog is shared under one lock, so a step is what a handler does  *)
(* between two awaits.  Payload files are told apart by their storage id   *)
(* and hold the capture they were made for; a crash keeps the files and    *)
(* the catalog on disk.                                                    *)
(***************************************************************************)
EXTENDS Integers, Sequences, FiniteSets, FiniteSetsExt, Functions

CONSTANTS
    Calls,            \* calls that take captures
    HeapCalls,        \* those of them that take heap snapshots
    Deleters,         \* calls of delete_capture
    Clients,          \* bound: the sets of calls that a behaviour may have
    RequestedNames,   \* the names a call may ask for
    MaxStorage,       \* bound: how many reservations are made
    MaxConnects,      \* bound: how often the connection connects
    MaxFaults         \* bound: failing writes and removals, crashes and dropped deletions

Kinds == {"plain", "heap"}

\* A name is a prefix and a number: the prefix of a generated name is its kind.
Names == (Kinds \cup {"chosen"}) \X (0..(MaxStorage + 1))
NoName == <<"chosen", 0>>

ASSUME CaptureAssumption ==
    /\ IsFiniteSet(Calls)
    /\ HeapCalls \subseteq Calls
    /\ Calls \cap Deleters = {}
    /\ Clients \subseteq SUBSET (Calls \cup Deleters)
    /\ RequestedNames \subseteq Names
    /\ {MaxStorage, MaxConnects, MaxFaults} \subseteq Nat

VARIABLES
    catalog,      \* ServiceState: captures and next_capture_id
    reservations, \* ServiceState.capture_reservations
    disk,         \* the catalog in the state file
    files,        \* the payload files of each storage id, by their content
    call,         \* where each call of a capture is
    deletion,     \* where each deletion is
    purge,        \* the storage a deleted context leaves to be removed
    context,      \* the context exists
    generation,   \* the generation of the connection
    live,         \* the target and its debugger are registered in this generation
    connects,     \* how often the connection connected, in any incarnation of the context
    debugger,     \* the connect whose debugger runs, 0 when none does
    inbox,        \* commands to the target's debugger
    scratch,      \* the heap captures the debugger holds, by name
    up,           \* the process runs
    faults,       \* faults so far
    nextStorage,  \* the next storage id, unused before
    issued,       \* the names generated so far (history)
    lost          \* storage whose deletion was dropped after it was removed (history)

catalogVars == <<catalog, disk>>
targetVars == <<context, generation, live, connects, debugger, scratch>>
historyVars == <<nextStorage, issued, lost>>
worldVars == <<targetVars, historyVars, purge, up>>
\* What a step of a call that only moves on, or sends a command, leaves alone.
callFrame == <<catalogVars, worldVars, reservations, files, deletion, faults>>
vars == <<catalog, reservations, disk, files, call, deletion, purge, context, generation,
          live, connects, debugger, inbox, scratch, up, faults, nextStorage, issued,
          lost>>

Actors == Calls \cup Deleters
Kind(c) == IF c \in HeapCalls THEN "heap" ELSE "plain"
Absent == 0
Partial == -1

Without(f, k) == Restrict(f, DOMAIN f \ {k})
With(f, k, value) == [l \in DOMAIN f \cup {k} |-> IF l = k THEN value ELSE f[l]]

NoFile == [staging |-> Absent, final |-> Absent]
NoCall == [pc |-> "idle", name |-> NoName, automatic |-> FALSE, storage |-> 0,
           generation |-> 0, handle |-> 0, cancelled |-> FALSE]
NoDeletion == [pc |-> "idle", name |-> NoName, storage |-> 0, retained |-> FALSE]
\* A call that the behaviour does not have.
Never(none) == [none EXCEPT !.pc = "never"]
Idle(calls, none) ==
    [a \in DOMAIN calls |-> IF calls[a].pc = "never" THEN calls[a] ELSE none]
EmptyCatalog == [captures |-> <<>>, nextId |-> 0]

Init ==
    /\ catalog = EmptyCatalog
    /\ disk = EmptyCatalog
    /\ reservations = <<>>
    /\ files = [s \in 1..MaxStorage |-> NoFile]
    /\ \E present \in Clients :
          /\ call = [c \in Calls |-> IF c \in present THEN NoCall ELSE Never(NoCall)]
          /\ deletion = [a \in Actors |-> IF a \in present THEN NoDeletion
                                           ELSE Never(NoDeletion)]
    /\ purge = {}
    /\ context = TRUE
    /\ generation = 0
    /\ live = FALSE
    /\ connects = 0
    /\ debugger = 0
    /\ inbox = <<>>
    /\ scratch = <<>>
    /\ up = TRUE
    /\ faults = 0
    /\ nextStorage = 1
    /\ issued = {}
    /\ lost = {}

(***************************************************************************)
(* Parts of the handlers                                                   *)
(***************************************************************************)
\* A fault happens, or none.
Outcome(ok) == ok \/ faults < MaxFaults
Count(ok) == faults' = IF ok THEN faults ELSE faults + 1

\* Fault: the counter of generated names is not stored.
PersistNumberLost(ok, new) ==
    /\ Outcome(ok)
    /\ Count(ok)
    /\ IF ok
       THEN /\ catalog' = new
            /\ disk' = [new EXCEPT !.nextId = 0]
       ELSE UNCHANGED catalogVars

\* persist_or_restore: both copies of the catalog change, or neither does.
Persist(ok, new) ==
    /\ Outcome(ok)
    /\ Count(ok)
    /\ IF ok
       THEN /\ catalog' = new
            /\ disk' = new
       ELSE UNCHANGED catalogVars

Go(c, pc) == call' = [call EXCEPT ![c].pc = pc]
Return(c) == call' = [call EXCEPT ![c] = NoCall]

\* The reservation the call made is still there.
Held(c) == /\ call[c].name \in DOMAIN reservations
           /\ reservations[call[c].name].storage = call[c].storage
Completed(c) == Held(c) /\ reservations[call[c].name].completed
Pending(c) == Held(c) /\ ~reservations[call[c].name].completed

\* The target still belongs to the generation the call began in.
Current(g) == live /\ generation = g

\* completed_capture_is_retained
\* Fault: it takes an incomplete reservation for a completed one.
RetainedIncomplete(c) == Pending(c)
Retained(c) == Completed(c)

\* What commit_completed_capture asks of a reservation.
\* Fault: a deletion that has begun does not matter.
CommittableWhileDeleted(c) == Completed(c)
Committable(c) == Completed(c) /\ ~reservations[call[c].name].deleting

\* abandon_capture
Abandoned(c) == IF Pending(c) THEN Without(reservations, call[c].name) ELSE reservations

WithoutFiles(storages) == [s \in DOMAIN files |-> IF s \in storages THEN NoFile ELSE files[s]]

\* The catalog with the reserved capture among its entries.
WithEntry(n) ==
    LET entry == [storage |-> reservations[n].storage, generation |-> reservations[n].generation]
    IN [catalog EXCEPT !.captures = With(@, n, entry)]

\* Commands to the debugger carry who waits for the answer, and in which step.
Command(op, name, storage, by, pc) ==
    [op |-> op, name |-> name, storage |-> storage, by |-> by, pc |-> pc]

\* A call sends a command; when its debugger has stopped it goes on at "stopped".
Send(c, op, pc, stopped) ==
    IF debugger = call[c].handle
    THEN /\ inbox' = Append(inbox, Command(op, call[c].name, call[c].storage, c, pc))
         /\ Go(c, pc)
    ELSE Go(c, stopped) /\ UNCHANGED inbox

Waiting == {"capturing", "copying", "discarding", "scratching"}

\* Fault: the guard ends when the debugger cannot delete the capture.
AnsweredToGuard(pc, ok) ==
    CASE pc = "capturing"  -> IF ok THEN "captured" ELSE "abandoning"
      [] pc = "copying"    -> IF ok THEN "copied" ELSE "abandoning"
      [] pc = "discarding" -> IF ok THEN "abandoning" ELSE "cleanup"
      [] pc = "scratching" -> IF ok THEN "releasing" ELSE "idle"

\* How a call goes on after the answer to a command, or after its failure.
Answered(pc, ok) ==
    CASE pc = "capturing"  -> IF ok THEN "captured" ELSE "abandoning"
      [] pc = "copying"    -> IF ok THEN "copied" ELSE "abandoning"
      [] pc = "discarding" -> IF ok THEN "abandoning" ELSE "cleanup"
      [] pc = "scratching" -> "releasing"

\* How a deletion goes on after the debugger was asked.
Erased(d, ok) ==
    IF ok THEN [d EXCEPT !.pc = "removing"]
    ELSE IF d.retained THEN [d EXCEPT !.pc = "restoring"] ELSE NoDeletion

(***************************************************************************)
(* A call that takes a capture                                             *)
(***************************************************************************)
\* promote_completed_capture: what an earlier call left can be published.
Promotable(c, n) ==
    /\ n \in DOMAIN reservations
    /\ reservations[n].completed
    /\ ~reservations[n].deleting
    /\ reservations[n].kind = Kind(c)

Reserving == {c \in Calls : call[c].pc = "reserving"}

Called(c, pc, name, automatic, storage) ==
    call' = [call EXCEPT ![c] = [pc |-> pc, name |-> name, automatic |-> automatic,
                                 storage |-> storage, generation |-> generation,
                                 handle |-> connects, cancelled |-> FALSE]]

\* The call publishes a completed capture of this name, or gets the target's
\* debugger for a new one.
Begin(c, n) ==
    /\ up
    /\ call[c].pc = "idle"
    /\ \/ /\ Promotable(c, n)
          /\ Called(c, "loading", n, FALSE, reservations[n].storage)
       \/ /\ n \in DOMAIN reservations => ~reservations[n].completed
          /\ live
          /\ nextStorage + Cardinality(Reserving) <= MaxStorage
          /\ Called(c, "reserving", n, FALSE, 0)
    /\ UNCHANGED <<callFrame, inbox>>

BeginAutomatic(c) ==
    /\ up
    /\ call[c].pc = "idle"
    /\ live
    /\ nextStorage + Cardinality(Reserving) <= MaxStorage
    /\ Called(c, "reserving", NoName, TRUE, 0)
    /\ UNCHANGED <<callFrame, inbox>>

\* Generated names count on from nextId, up to a bound, and leave out those in use.
FreeNames(kind) ==
    {<<kind, k>> : k \in {k \in 1..(MaxStorage + 1) : k >= catalog.nextId}}
        \ (DOMAIN catalog.captures \cup DOMAIN reservations)

\* The names the call may reserve: the one it asks for, or the next generated one.
NamesFor(c) ==
    IF call[c].automatic
    THEN {n \in FreeNames(Kind(c)) : \A m \in FreeNames(Kind(c)) : n[2] <= m[2]}
    ELSE {call[c].name} \ (DOMAIN catalog.captures \cup DOMAIN reservations)

Reservation(c) ==
    [storage |-> nextStorage, generation |-> call[c].generation, kind |-> Kind(c),
     completed |-> FALSE, deleting |-> FALSE]

\* The name is free: the call reserves it under a new storage id and asks the
\* debugger for the capture.
Reserve(c, ok) ==
    /\ up
    /\ call[c].pc = "reserving"
    /\ Current(call[c].generation)
    /\ \E n \in NamesFor(c) :
          LET new == [call[c] EXCEPT !.name = n, !.storage = nextStorage] IN
          /\ IF call[c].automatic
             THEN /\ Persist(ok, [catalog EXCEPT !.nextId = n[2] + 1])
                  /\ issued' = IF ok THEN issued \cup {n} ELSE issued
             ELSE ok /\ UNCHANGED <<catalogVars, faults, issued>>
          /\ IF ok
             THEN /\ reservations' = With(reservations, n, Reservation(c))
                  /\ nextStorage' = nextStorage + 1
                  /\ IF debugger = call[c].handle
                     THEN /\ inbox' = Append(inbox, Command("capture", n, nextStorage, c,
                                                            "capturing"))
                          /\ call' = [call EXCEPT ![c] = [new EXCEPT !.pc = "capturing"]]
                     ELSE /\ call' = [call EXCEPT ![c] = [new EXCEPT !.pc = "abandoning"]]
                          /\ UNCHANGED inbox
             ELSE Return(c) /\ UNCHANGED <<reservations, nextStorage, inbox>>
    /\ UNCHANGED <<targetVars, files, deletion, purge, up, lost>>

\* Another call has completed the capture meanwhile, but not published it.
Rejoin(c) ==
    /\ up
    /\ call[c].pc = "reserving"
    /\ ~call[c].automatic
    /\ call[c].name \notin DOMAIN catalog.captures
    /\ Promotable(c, call[c].name)
    /\ reservations[call[c].name].generation = call[c].generation
    /\ Go(c, "rejoining")
    /\ UNCHANGED <<callFrame, inbox>>

\* The name is taken, or the target is gone.
Refused(c) ==
    /\ up
    /\ call[c].pc = "reserving"
    /\ LET n == call[c].name
           taken == n \in DOMAIN catalog.captures \cup DOMAIN reservations
           rejoined == /\ n \notin DOMAIN catalog.captures
                       /\ Promotable(c, n)
                       /\ reservations[n].generation = call[c].generation
       IN IF ~call[c].automatic /\ taken THEN ~rejoined ELSE ~Current(call[c].generation)
    /\ Return(c)
    /\ UNCHANGED <<callFrame, inbox>>

\* promote_completed_capture again, after the reservation.
Rejoined(c) ==
    /\ up
    /\ call[c].pc = "rejoining"
    /\ IF Promotable(c, call[c].name)
       THEN call' = [call EXCEPT ![c].pc = "loading",
                                 ![c].storage = reservations[call[c].name].storage]
       ELSE Return(c)
    /\ UNCHANGED <<callFrame, inbox>>

\* The payload is read back without the lock.
PromoteLoad(c) ==
    /\ up
    /\ call[c].pc = "loading"
    /\ IF files[call[c].storage].final = call[c].storage THEN Go(c, "committing") ELSE Return(c)
    /\ UNCHANGED <<callFrame, inbox>>

\* commit_completed_capture
Commit(c, ok) ==
    /\ up
    /\ call[c].pc = "committing"
    /\ LET n == call[c].name
       IN IF Committable(c)
          THEN /\ Persist(ok, WithEntry(n))
               /\ reservations' = IF ok THEN Without(reservations, n) ELSE reservations
          ELSE ok /\ UNCHANGED <<catalogVars, faults, reservations>>
    /\ Return(c)
    /\ UNCHANGED <<worldVars, files, deletion, inbox>>

\* The caller of a heap snapshot asks to stop, or no longer takes its progress.
Cancel(c) ==
    /\ up
    /\ c \in HeapCalls
    /\ call[c].pc \in {"capturing", "captured", "copying", "copied", "storing", "writing",
                       "completing"}
    /\ ~call[c].cancelled
    /\ call' = [call EXCEPT ![c].cancelled = TRUE]
    /\ UNCHANGED <<callFrame, inbox>>

\* The debugger's capture succeeded.
Captured(c) ==
    /\ up
    /\ call[c].pc = "captured"
    /\ CASE c \notin HeapCalls -> Go(c, "storing") /\ UNCHANGED inbox
         [] c \in HeapCalls /\ call[c].cancelled -> Send(c, "delete", "discarding", "cleanup")
         [] OTHER -> Send(c, "copy", "copying", "abandoning")
    /\ UNCHANGED callFrame

\* The copy of a heap snapshot is synchronized and renamed; either may fail,
\* and so may the synchronization of the directory after the rename.
PublishFile(c, renamed, ok) ==
    /\ up
    /\ call[c].pc = "copied"
    /\ ok => renamed
    /\ Outcome(ok)
    /\ Count(ok)
    /\ files' = IF renamed
                THEN [files EXCEPT ![call[c].storage] = [staging |-> Absent, final |-> @.staging]]
                ELSE files
    /\ Go(c, IF ok THEN "storing" ELSE "abandoning")
    /\ UNCHANGED <<catalogVars, worldVars, reservations, deletion, inbox>>

\* The handler gives up: the name is free again and its files are removed.
Abandon(c) ==
    /\ up
    /\ call[c].pc = "abandoning"
    /\ reservations' = Abandoned(c)
    /\ files' = WithoutFiles({call[c].storage})
    /\ Return(c)
    /\ UNCHANGED <<catalogVars, worldVars, deletion, inbox, faults>>

\* finalize_capture, first section.  (Only this call completes its reservation,
\* so the branch for a completed one is never taken.)
StoreCheck(c) ==
    /\ up
    /\ call[c].pc = "storing"
    /\ Go(c, IF Held(c) /\ Current(call[c].generation) THEN "writing"
             ELSE IF c \in HeapCalls THEN "retaining" ELSE "cleanup")
    /\ UNCHANGED <<callFrame, inbox>>

\* write_capture_payload: a heap snapshot is in its place already, any other
\* payload is renamed to it, and a failure may come before or after that.
StoreWrite(c, renamed, ok) ==
    /\ up
    /\ call[c].pc = "writing"
    /\ IF c \in HeapCalls
       THEN /\ ok /\ renamed
            /\ Go(c, IF files[call[c].storage].final # Absent THEN "completing" ELSE "retaining")
            /\ UNCHANGED <<files, faults>>
       ELSE /\ ok => renamed
            /\ Outcome(ok)
            /\ Count(ok)
            /\ files' = IF renamed THEN [files EXCEPT ![call[c].storage].final = call[c].storage]
                        ELSE files
            /\ Go(c, IF ok THEN "completing" ELSE "cleanup")
    /\ UNCHANGED <<catalogVars, worldVars, reservations, deletion, inbox>>

\* finalize_capture, last section: publish the capture, or keep it completed
\* when the catalog cannot be written.
StoreComplete(c, ok) ==
    /\ up
    /\ call[c].pc = "completing"
    /\ LET n == call[c].name
           failed == IF c \in HeapCalls THEN "retaining" ELSE "cleanup"
       IN IF Held(c) /\ Current(call[c].generation)
          THEN /\ Persist(ok, WithEntry(n))
               /\ reservations' = IF ok THEN Without(reservations, n)
                                  ELSE [reservations EXCEPT ![n].completed = TRUE]
               /\ IF ~ok THEN Go(c, failed)
                  ELSE IF call[c].cancelled THEN Go(c, "uncapturing") ELSE Return(c)
               /\ UNCHANGED files
          ELSE /\ ok
               /\ files' = [files EXCEPT ![call[c].storage].final = Absent]
               /\ Go(c, failed)
               /\ UNCHANGED <<catalogVars, faults, reservations>>
    /\ UNCHANGED <<worldVars, deletion, inbox>>

\* A heap snapshot that was not stored: its file stays only while the
\* reservation keeps it as completed.
Retain(c) ==
    /\ up
    /\ call[c].pc = "retaining"
    /\ files' = IF Retained(c) THEN files
                ELSE [files EXCEPT ![call[c].storage].final = Absent]
    /\ Go(c, "cleanup")
    /\ UNCHANGED <<catalogVars, worldVars, reservations, deletion, inbox, faults>>

\* The handler ends at an await; its guard, if it has one, cleans up.
Drop(c) ==
    /\ up
    /\ call[c].pc \in {"reserving", "loading", "rejoining", "committing", "capturing",
                       "copying", "discarding", "abandoning", "storing", "completing",
                       "retaining", "uncapturing"}
    /\ IF call[c].pc \in {"reserving", "loading", "rejoining", "committing"}
       THEN Return(c)
       ELSE Go(c, "cleanup")
    /\ UNCHANGED <<callFrame, inbox>>

\* Fault: the guard does not wait for the debugger.
CleanupAtOnce(c) ==
    /\ up
    /\ call[c].pc = "cleanup"
    /\ IF Pending(c) THEN Go(c, "releasing") ELSE Return(c)
    /\ UNCHANGED <<callFrame, inbox>>

\* The guard's task: a pending heap capture is deleted in the debugger first.
Cleanup(c) ==
    /\ up
    /\ call[c].pc = "cleanup"
    /\ CASE ~Pending(c) -> Return(c) /\ UNCHANGED inbox
         [] Pending(c) /\ c \notin HeapCalls -> Go(c, "releasing") /\ UNCHANGED inbox
         [] OTHER -> Send(c, "delete", "scratching", "releasing")
    /\ UNCHANGED callFrame

Release(c) ==
    /\ up
    /\ call[c].pc = "releasing"
    /\ reservations' = Abandoned(c)
    /\ files' = IF Pending(c) /\ c \in HeapCalls THEN WithoutFiles({call[c].storage}) ELSE files
    /\ Return(c)
    /\ UNCHANGED <<catalogVars, worldVars, deletion, inbox, faults>>

(***************************************************************************)
(* The target's debugger serves one command after the other                *)
(***************************************************************************)
\* Whether somebody waits for the answer of this command.
Awaited(cmd) ==
    IF cmd.pc = "erasing" THEN deletion[cmd.by].pc = "erasing"
    ELSE call[cmd.by].pc = cmd.pc /\ call[cmd.by].storage = cmd.storage

Answer(cmd, ok) ==
    IF ~Awaited(cmd) THEN UNCHANGED <<call, deletion>>
    ELSE IF cmd.pc = "erasing"
    THEN /\ deletion' = [deletion EXCEPT ![cmd.by] = Erased(@, ok)]
         /\ UNCHANGED call
    ELSE Go(cmd.by, Answered(cmd.pc, ok)) /\ UNCHANGED deletion

\* A heap capture nobody waits for any more is removed at once.
ServeCapture(cmd, ok) ==
    /\ cmd.op = "capture"
    /\ Outcome(ok)
    /\ Count(ok)
    /\ scratch' = IF cmd.by \notin HeapCalls \/ ~ok THEN scratch
                  ELSE IF Awaited(cmd) THEN With(scratch, cmd.name, cmd.storage)
                  ELSE Without(scratch, cmd.name)
    /\ UNCHANGED files
    /\ Answer(cmd, ok)

\* The copy needs the capture, and a staging file that does not exist yet.
ServeCopy(cmd, ok) ==
    LET possible == /\ cmd.name \in DOMAIN scratch
                    /\ files[cmd.storage].staging = Absent
    IN /\ cmd.op = "copy"
       /\ IF possible THEN Outcome(ok) /\ Count(ok) ELSE ~ok /\ UNCHANGED faults
       /\ files' = IF possible
                   THEN [files EXCEPT ![cmd.storage].staging =
                                          IF ok THEN scratch[cmd.name] ELSE Partial]
                   ELSE files
       /\ UNCHANGED scratch
       /\ Answer(cmd, ok)

ServeDelete(cmd, ok) ==
    /\ cmd.op = "delete"
    /\ Outcome(ok)
    /\ Count(ok)
    /\ scratch' = IF ok THEN Without(scratch, cmd.name) ELSE scratch
    /\ UNCHANGED files
    /\ Answer(cmd, ok)

DebuggerStep(ok) ==
    /\ up
    /\ inbox # <<>>
    /\ inbox' = Tail(inbox)
    /\ \/ ServeCapture(Head(inbox), ok)
       \/ ServeCopy(Head(inbox), ok)
       \/ ServeDelete(Head(inbox), ok)
    /\ UNCHANGED <<catalogVars, historyVars, reservations, purge, context, generation, live,
                   connects, debugger, up>>

(***************************************************************************)
(* delete_capture                                                          *)
(***************************************************************************)
\* The entry of the catalog is removed on disk first; a completed reservation
\* is marked until its payload is gone.  The debugger is asked to forget the
\* name after the lock is released.
DeleteBegin(a, n, ok) ==
    /\ up
    /\ deletion[a].pc = "idle"
    /\ a \in Calls => call[a].pc = "uncapturing"
    /\ LET stored == n \in DOMAIN catalog.captures
           retained == ~stored /\ n \in DOMAIN reservations /\ reservations[n].completed
                               /\ ~reservations[n].deleting
           owner == IF stored THEN catalog.captures[n] ELSE reservations[n]
           registered == live /\ generation = owner.generation
           erasing == [pc |-> "erasing", name |-> n, storage |-> owner.storage,
                       retained |-> retained]
           begin == IF ~registered
                    THEN deletion' = [deletion EXCEPT ![a] = Erased(erasing, TRUE)]
                         /\ UNCHANGED inbox
                    ELSE IF debugger # connects
                    THEN deletion' = [deletion EXCEPT ![a] = Erased(erasing, FALSE)]
                         /\ UNCHANGED inbox
                    ELSE deletion' = [deletion EXCEPT ![a] = erasing]
                         /\ inbox' = Append(inbox, Command("delete", n, owner.storage, a,
                                                           "erasing"))
       IN \/ /\ stored
             /\ Persist(ok, [catalog EXCEPT !.captures = Without(@, n)])
             /\ IF ok THEN begin ELSE UNCHANGED <<deletion, inbox>>
             /\ UNCHANGED reservations
          \/ /\ retained /\ ok
             /\ reservations' = [reservations EXCEPT ![n].deleting = TRUE]
             /\ begin
             /\ UNCHANGED <<catalogVars, faults>>
          \/ /\ a \in Calls /\ ~stored /\ ~retained /\ ok
             /\ UNCHANGED <<catalogVars, faults, reservations, deletion, inbox>>
    /\ IF a \in Calls THEN Return(a) ELSE UNCHANGED call
    /\ UNCHANGED <<worldVars, files>>

\* remove_for_delete
Remove(a, ok) ==
    /\ up
    /\ deletion[a].pc = "removing"
    /\ Outcome(ok)
    /\ Count(ok)
    /\ files' = IF ok THEN [files EXCEPT ![deletion[a].storage].final = Absent] ELSE files
    /\ deletion' = [deletion EXCEPT ![a] =
                       IF ~@.retained THEN NoDeletion
                       ELSE [@ EXCEPT !.pc = IF ok THEN "forgetting" ELSE "restoring"]]
    /\ UNCHANGED <<catalogVars, worldVars, reservations, call, inbox>>

\* The reservation the deletion began with.
Marked(a) ==
    /\ deletion[a].name \in DOMAIN reservations
    /\ reservations[deletion[a].name].storage = deletion[a].storage

Forget(a) ==
    /\ up
    /\ deletion[a].pc = "forgetting"
    /\ reservations' = IF Marked(a) THEN Without(reservations, deletion[a].name)
                       ELSE reservations
    /\ deletion' = [deletion EXCEPT ![a] = NoDeletion]
    /\ UNCHANGED <<catalogVars, worldVars, files, call, inbox, faults>>

\* restore_failed_capture_deletion
RestoreDeletion(a) ==
    /\ up
    /\ deletion[a].pc = "restoring"
    /\ reservations' = IF Marked(a)
                       THEN [reservations EXCEPT ![deletion[a].name].deleting = FALSE]
                       ELSE reservations
    /\ deletion' = [deletion EXCEPT ![a] = NoDeletion]
    /\ UNCHANGED <<catalogVars, worldVars, files, call, inbox, faults>>

\* The handler ends at an await; its guard restores the reservation.
DropDeletion(a) ==
    /\ up
    /\ deletion[a].pc \in {"erasing", "forgetting"}
    /\ Outcome(FALSE)
    /\ Count(FALSE)
    /\ deletion' = [deletion EXCEPT ![a] = Erased(@, FALSE)]
    /\ lost' = IF deletion[a].pc = "forgetting" THEN lost \cup {deletion[a].storage}
                                                 ELSE lost
    /\ UNCHANGED <<catalogVars, targetVars, nextStorage, issued, purge, up, reservations,
                   files, call, inbox>>

(***************************************************************************)
(* The context, the connection and the process                             *)
(***************************************************************************)
\* delete_context: the payloads are removed after the state is.
DeleteContext(ok) ==
    /\ up
    /\ context
    /\ Persist(ok, [catalog EXCEPT !.captures = <<>>])
    /\ IF ok
       THEN /\ reservations' = <<>>
            /\ purge' = purge \cup {e.storage : e \in Range(catalog.captures)}
                              \cup {r.storage : r \in Range(reservations)}
            /\ context' = FALSE
            /\ live' = FALSE
            /\ generation' = 0
       ELSE UNCHANGED <<reservations, purge, context, live, generation>>
    /\ UNCHANGED <<historyVars, files, call, deletion, connects, debugger, scratch, inbox, up>>

Purge ==
    /\ up
    /\ purge # {}
    /\ live \/ debugger = 0
    /\ files' = WithoutFiles(purge)
    /\ purge' = {}
    /\ UNCHANGED <<catalogVars, targetVars, historyVars, reservations, call, deletion, inbox,
                   up, faults>>

CreateContext ==
    /\ up
    /\ ~context
    /\ context' = TRUE
    /\ UNCHANGED <<catalogVars, historyVars, reservations, files, call, deletion, purge,
                   generation, live, connects, debugger, scratch, inbox, up, faults>>

Connect ==
    /\ up
    /\ context
    /\ ~live
    /\ debugger = 0
    /\ connects < MaxConnects
    /\ generation' = generation + 1
    /\ live' = TRUE
    /\ connects' = connects + 1
    /\ debugger' = connects + 1
    /\ UNCHANGED <<catalogVars, historyVars, reservations, files, call, deletion, purge,
                   context, scratch, inbox, up, faults>>

\* disconnect_connection_internal, and a lost connection once it is noticed.
Disconnect ==
    /\ up
    /\ live
    /\ live' = FALSE
    /\ UNCHANGED <<catalogVars, historyVars, reservations, files, call, deletion, purge,
                   context, generation, connects, debugger, scratch, inbox, up, faults>>

\* The runtime closes, or the connection is lost: whoever waits for the
\* debugger gets an error.
DebuggerEnds ==
    /\ up
    /\ debugger # 0
    /\ debugger' = 0
    /\ inbox' = <<>>
    /\ scratch' = <<>>
    /\ call' = [c \in Calls |-> IF call[c].pc \in Waiting
                                THEN [call[c] EXCEPT !.pc = Answered(call[c].pc, FALSE)]
                                ELSE call[c]]
    /\ deletion' = [a \in Actors |-> IF deletion[a].pc = "erasing"
                                     THEN Erased(deletion[a], FALSE) ELSE deletion[a]]
    /\ UNCHANGED <<catalogVars, historyVars, reservations, files, purge, context, generation,
                   live, connects, up, faults>>

\* The process ends between two steps: the files and the catalog stay.
Crash ==
    /\ up
    /\ Outcome(FALSE)
    /\ Count(FALSE)
    /\ up' = FALSE
    /\ reservations' = <<>>
    /\ call' = Idle(call, NoCall)
    /\ deletion' = Idle(deletion, NoDeletion)
    /\ purge' = {}
    /\ live' = FALSE
    /\ debugger' = 0
    /\ inbox' = <<>>
    /\ scratch' = <<>>
    /\ UNCHANGED <<catalogVars, historyVars, files, context, generation, connects>>

\* load_state and scavenge_capture_storage: a process loads the state only if
\* every entry has its payload, and removes the files that no entry refers to.
Restart ==
    /\ ~up
    /\ \A e \in Range(disk.captures) : files[e.storage].final = e.storage
    /\ up' = TRUE
    /\ catalog' = disk
    /\ generation' = 0
    /\ files' = WithoutFiles(DOMAIN files \ {e.storage : e \in Range(disk.captures)})
    /\ UNCHANGED <<disk, historyVars, reservations, call, deletion, purge, context,
                   live, connects, debugger, inbox, scratch, faults>>

CallSteps(c) ==
    \/ \E ok \in BOOLEAN : Reserve(c, ok) \/ Commit(c, ok) \/ StoreComplete(c, ok)
    \/ \E renamed, ok \in BOOLEAN : PublishFile(c, renamed, ok) \/ StoreWrite(c, renamed, ok)
    \/ Rejoin(c) \/ Refused(c) \/ Rejoined(c) \/ PromoteLoad(c) \/ Captured(c) \/ Abandon(c)
    \/ StoreCheck(c) \/ Retain(c) \/ Cleanup(c) \/ Release(c)
    \/ \E ok \in BOOLEAN : DeleteBegin(c, call[c].name, ok)

DeletionSteps(a) ==
    \/ \E ok \in BOOLEAN : Remove(a, ok)
    \/ Forget(a)
    \/ RestoreDeletion(a)

Next ==
    \/ \E c \in Calls : \/ CallSteps(c)
                        \/ \E n \in RequestedNames : Begin(c, n)
                        \/ BeginAutomatic(c)
                        \/ Cancel(c)
                        \/ Drop(c)
    \/ \E a \in Actors : DeletionSteps(a) \/ DropDeletion(a)
    \/ \E a \in Deleters, n \in DOMAIN catalog.captures \cup DOMAIN reservations,
          ok \in BOOLEAN : DeleteBegin(a, n, ok)
    \/ \E ok \in BOOLEAN : DebuggerStep(ok) \/ DeleteContext(ok)
    \/ Purge \/ CreateContext \/ Connect \/ Disconnect \/ DebuggerEnds \/ Crash \/ Restart

\* Tasks go on, the debugger answers, and the daemon is started again.  Callers
\* need not call, cancel or end, and nothing has to fail.
Fairness ==
    /\ \A c \in Calls : WF_vars(CallSteps(c))
    /\ \A a \in HeapCalls \cup Deleters : WF_vars(DeletionSteps(a))
    /\ WF_vars(\E ok \in BOOLEAN : DebuggerStep(ok))
    /\ WF_vars(Restart)

Spec == Init /\ [][Next]_vars /\ Fairness

(***************************************************************************)
(* Properties                                                              *)
(***************************************************************************)
CaptureTypeOK ==
    /\ DOMAIN catalog.captures \subseteq Names
    /\ DOMAIN reservations \subseteq Names
    /\ \A e \in Range(catalog.captures) \cup Range(disk.captures) :
          e.storage \in 1..(nextStorage - 1)
    /\ \A r \in Range(reservations) : r.storage \in 1..(nextStorage - 1)
    /\ \A r \in Range(reservations) : r.deleting => r.completed
    /\ \A f \in Range(files) : {f.staging, f.final} \subseteq Partial..MaxStorage
    /\ call \in [Calls -> [pc : STRING, name : Names, automatic : BOOLEAN,
                           storage : 0..MaxStorage, generation : 0..MaxConnects,
                           handle : 0..MaxConnects, cancelled : BOOLEAN]]
    /\ deletion \in [Actors -> [pc : STRING, name : Names, storage : 0..MaxStorage,
                                retained : BOOLEAN]]
    /\ debugger \in 0..connects

\* The entries of the state file whose own, whole payload is not there.
Unloadable == {s \in {e.storage : e \in Range(disk.captures)} : files[s].final # s}

\* Every entry of the catalog on disk has its own, whole payload file.  The
\* daemon refuses to load a state file in which one entry has not, so one lost
\* payload makes all contexts unavailable after the next start.
CatalogIsLoadable == Unloadable = {}

\* A heap snapshot could not be put into the catalog and its call is about to
\* remove the file; another call has published it in between.
RemovesPublished(s) ==
    \E c \in HeapCalls : call[c].pc = "retaining" /\ call[c].storage = s

\* A call has read a completed payload back; a deletion then removed the file
\* and was dropped, which restored the reservation; now the call publishes it.
PublishesErased(s) ==
    s \in lost /\ \E c \in Calls : call[c].pc = "committing" /\ call[c].storage = s

\* The state file stays loadable but for two steps, in which an entry is left
\* without its payload by a race of two handlers.  No other step does that: not
\* a deletion, which gives the entry up before the file, not the cleanup of a
\* call or of a deleted context, and not a failed write or a crash at any point.
CatalogStaysLoadable ==
    [][\A s \in Unloadable' \ Unloadable : RemovesPublished(s) \/ PublishesErased(s)]_vars

\* A name reserved for a capture that is not complete has a call, or the guard
\* of a call, that will complete or release it.  And a heap snapshot the debugger
\* still has to take keeps its name reserved, even when its caller has gone: the
\* debugger stores it under that name, and must not meet another call's there.
ReservationsMatchWork ==
    /\ \A n \in DOMAIN reservations :
          reservations[n].completed
             \/ \E c \in Calls : /\ call[c].pc # "idle"
                                 /\ call[c].name = n
                                 /\ call[c].storage = reservations[n].storage
    /\ live => \A cmd \in Range(inbox) :
                  cmd.op = "capture" /\ cmd.by \in HeapCalls =>
                     /\ cmd.name \in DOMAIN reservations
                     /\ reservations[cmd.name].storage = cmd.storage

\* A completed capture that waits for the catalog keeps its payload, so that a
\* repeated call can publish it.  (Not after a deletion dropped as above.)
RetainedPayloadIsKept ==
    \A r \in Range(reservations) :
       r.completed /\ ~r.deleting =>
          files[r.storage].final = r.storage \/ r.storage \in lost

\* A generated name was not generated before: a caller that kept one does not
\* see another capture under it after deletions or a restart.
GeneratedNamesAreFresh ==
    [][\A c \in Calls :
          call[c].automatic /\ call[c].name = NoName /\ call'[c].name # NoName
             => call'[c].name \notin issued]_vars

\* No name stays reserved for a capture that is not complete: each of the
\* captures the bound admits is completed or released in the end.  And no
\* completed one stays marked as being deleted, which refuses both its
\* publication and its deletion.  (The deletion may be tried over and over.)
ReservationsSettle ==
    /\ <>[](\A r \in Range(reservations) : r.completed)
    /\ []<>(\A r \in Range(reservations) : ~r.deleting)
===============================================================================
