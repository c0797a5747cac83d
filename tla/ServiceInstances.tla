-------------------------- MODULE ServiceInstances --------------------------
(***************************************************************************)
(* `wokcore serve` as several processes of one user meet in the runtime    *)
(* directory: the two file locks of RuntimeLease, the ordered start of the *)
(* service and its unwinding, the publication of the discovery record with *)
(* its staging and retired names, the coordinated stop, the cleanup that   *)
(* ends with the lease, a crash at any point, and the `status` command     *)
(* that reads the record and asks the listener who it is.                  *)
(***************************************************************************)
EXTENDS Naturals, FiniteSets, TLAPS

CONSTANTS Procs,          \* processes (process identifiers, reused)
          Readers,        \* `status` commands
          MaxInstances    \* bound on the instance identifiers handed out

None == 0
ASSUME ProcsAssumption == None \notin Procs

Parts == {"diagnostics", "state", "query", "memory", "scheduler"}

VARIABLES pc,             \* where the process is
          inst,           \* its instance identifier, None without one
          parts,          \* the background parts it has running
          owner,          \* ServiceLifetime: what is owned of a server and a record
          cancelled,      \* the watch channel of OwnedServeTask
          namespace, lock,\* holders of the two locks of a lease
          port,           \* the instance whose server holds the port
          names,          \* canonical, staging and retired entry: the instance
          issued,         \* instance identifiers handed out
          left,           \* dead instances that could not remove their record
          reader          \* the `status` commands

vars == <<pc, inst, parts, owner, cancelled, namespace, lock, port, names,
          issued, left, reader>>
service == <<inst, parts, owner, port, issued>>
locks == <<namespace, lock>>

Unowned == {}
Entries(c, s, r) == [canonical |-> c, staging |-> s, retired |-> r]
NoReading == [pc |-> "idle", record |-> None, steady |-> None, answer |-> "none"]
Live == {inst[p] : p \in Procs} \ {None}

Init ==
    /\ pc = [p \in Procs |-> "idle"]
    /\ inst = [p \in Procs |-> None]
    /\ parts = [p \in Procs |-> {}]
    /\ owner = [p \in Procs |-> Unowned]
    /\ cancelled = [p \in Procs |-> FALSE]
    /\ namespace = None /\ lock = None /\ port = None
    /\ names = Entries(None, None, None)
    /\ issued = 0 /\ left = {}
    /\ reader = [s \in Readers |-> NoReading]

Goto(p, place) == pc' = [pc EXCEPT ![p] = place]

-----------------------------------------------------------------------------
(* The lease: two try-locks taken in order, given back in the same order.  *)

TryNamespace(p) ==
    /\ pc[p] = "idle" /\ issued < MaxInstances
    /\ namespace = None
    /\ namespace' = p
    /\ Goto(p, "locking")
    /\ UNCHANGED <<service, cancelled, lock, names, left, reader>>

TryInstance(p) ==
    /\ pc[p] = "locking"
    /\ IF lock = None
       THEN lock' = p /\ namespace' = namespace /\ Goto(p, "preparing")
       ELSE lock' = lock /\ namespace' = None /\ Goto(p, "idle")
    /\ UNCHANGED <<service, cancelled, names, left, reader>>

Acquire(p) == TryNamespace(p) \/ TryInstance(p)

DropNamespace(p) ==
    /\ pc[p] = "releasing" /\ namespace = p
    /\ namespace' = None
    /\ UNCHANGED <<pc, service, cancelled, lock, names, left, reader>>

DropLock(p) ==
    /\ pc[p] = "releasing" /\ namespace # p
    /\ lock' = None
    /\ Goto(p, "idle")
    /\ inst' = [inst EXCEPT ![p] = None]
    /\ cancelled' = [cancelled EXCEPT ![p] = FALSE]
    /\ UNCHANGED <<parts, owner, namespace, port, names, issued, left, reader>>

-----------------------------------------------------------------------------
(* start_service                                                           *)

Fails(p, place) ==
    /\ Goto(p, place)
    /\ UNCHANGED <<service, cancelled, locks, names, left, reader>>

\* Configuration, providers, store, credentials, then the first look at the
\* cancellation; nothing is running yet, so a failure goes to the cleanup.
Prepare(p) ==
    /\ pc[p] = "preparing"
    /\ \/ /\ ~cancelled[p]
          /\ issued' = issued + 1
          /\ inst' = [inst EXCEPT ![p] = issued + 1]
          /\ Goto(p, "diagnostics")
          /\ UNCHANGED <<parts, owner, cancelled, locks, port, names, left, reader>>
       \/ Fails(p, "stopping_server")

\* Mutant: a part that does not start takes the early return.
StartPartReturnsEarly(p, part, next) ==
    /\ pc[p] = part
    /\ \/ /\ parts' = [parts EXCEPT ![p] = @ \cup {part}]
          /\ Goto(p, next)
          /\ UNCHANGED <<inst, owner, cancelled, locks, port, names, issued, left, reader>>
       \/ Fails(p, "stopping_server")

StartPart(p, part, next) ==
    /\ pc[p] = part
    /\ \/ /\ parts' = [parts EXCEPT ![p] = @ \cup {part}]
          /\ Goto(p, next)
          /\ UNCHANGED <<inst, owner, cancelled, locks, port, names, issued, left, reader>>
       \/ Fails(p, "unwinding")

StartDiagnostics(p) == StartPart(p, "diagnostics", "state")
StartState(p) == StartPart(p, "state", "query")
StartQuery(p) == StartPart(p, "query", "binding")

\* The port is bound, the cancellation looked at again, and the server started
\* and handed to the owner.
Serve(p) ==
    /\ pc[p] = "binding"
    /\ \/ /\ port = None /\ ~cancelled[p]
          /\ port' = inst[p]
          /\ owner' = [owner EXCEPT ![p] = @ \cup {"running"}]
          /\ Goto(p, "verifying")
          /\ UNCHANGED <<inst, parts, cancelled, locks, names, issued, left, reader>>
       \/ Fails(p, "unwinding")

\* The service asks its own health and capabilities, looks at the cancellation
\* and makes the record its own before it is written.
Verify(p) ==
    /\ pc[p] = "verifying"
    /\ \/ /\ port = inst[p] /\ ~cancelled[p]
          /\ owner' = [owner EXCEPT ![p] = @ \cup {"discovery"}]
          /\ Goto(p, "sweeping")
          /\ UNCHANGED <<inst, parts, cancelled, locks, port, names, issued, left, reader>>
       \/ Fails(p, "unwinding")

\* A server that is owned has its shutdown requested; the parts are closed in
\* this order: query, diagnostics, state writer.
UnwindOrder(open) ==
    IF "query" \in open THEN "query"
    ELSE IF "diagnostics" \in open THEN "diagnostics" ELSE "state"

Unwind(p) ==
    /\ pc[p] = "unwinding"
    /\ IF parts[p] = {}
       THEN parts' = parts /\ Goto(p, "stopping_server")
       ELSE parts' = [parts EXCEPT ![p] = @ \ {UnwindOrder(@)}] /\ pc' = pc
    /\ UNCHANGED <<inst, owner, cancelled, locks, port, names, issued, left, reader>>

-----------------------------------------------------------------------------
(* DiscoveryStore::publish                                                 *)

Names(p, place, entries) ==
    /\ names' = entries
    /\ Goto(p, place)
    /\ UNCHANGED <<service, cancelled, locks, left, reader>>

\* The entries an interrupted publication or removal left are deleted.
Sweep(p) ==
    /\ pc[p] = "sweeping"
    /\ \/ Names(p, "staging", Entries(names.canonical, None, None))
       \/ Names(p, "unwinding", Entries(names.canonical, None, names.retired))
       \/ Fails(p, "unwinding")

Stage(p) ==
    /\ pc[p] = "staging"
    /\ \/ names.staging = None /\ Names(p, "committing", Entries(names.canonical, inst[p], names.retired))
       \/ Fails(p, "unwinding")

\* With a record in place the two entries are exchanged, without one the staged
\* file is renamed and never replaces.
Commit(p) ==
    /\ pc[p] = "committing"
    /\ \/ /\ names.canonical # None
          /\ Names(p, "discarding", Entries(names.staging, names.canonical, names.retired))
       \/ /\ names.canonical = None
          /\ Names(p, "publishing_done", Entries(names.staging, None, names.retired))
       \/ Fails(p, "unwinding")

\* The record that was exchanged away is deleted; when that fails, publish
\* fails although the record is in place.
Discard(p) ==
    /\ pc[p] = "discarding"
    /\ \/ Names(p, "publishing_done", Entries(names.canonical, None, names.retired))
       \/ Fails(p, "unwinding")

\* The directory is synced, or the publication fails with its record in place;
\* then the memory reclaimer starts.
Published(p) ==
    /\ pc[p] = "publishing_done"
    /\ \/ /\ parts' = [parts EXCEPT ![p] = @ \cup {"memory"}]
          /\ Goto(p, "announcing")
          /\ UNCHANGED <<inst, owner, cancelled, locks, port, names, issued, left, reader>>
       \/ Fails(p, "unwinding")

-----------------------------------------------------------------------------
(* run_service_owned after the start                                       *)

\* The caller is told and answers; then the scan scheduler starts.  A caller
\* that is gone, an announcement that could not be written and a scheduler that
\* does not start all end the service.
Announce(p) ==
    /\ pc[p] = "announcing"
    /\ \/ /\ ~cancelled[p]
          /\ parts' = [parts EXCEPT ![p] = @ \cup {"scheduler"}]
          /\ Goto(p, "running")
          /\ UNCHANGED <<inst, owner, cancelled, locks, port, names, issued, left, reader>>
       \/ Fails(p, "closing")

\* A stop request, a signal or the lost caller: drain, close the parts, and
\* only then ask the listener to stop.  A server that ends by itself is noticed
\* by the same select.
Stop(p) ==
    /\ pc[p] = "running"
    /\ \/ Fails(p, "closing")
       \/ /\ port' = None
          /\ Goto(p, "closing")
          /\ UNCHANGED <<inst, parts, owner, cancelled, locks, names, issued, left, reader>>

\* shutdown_observability closes the users of the state writer before it.
CloseOrder(open) ==
    IF "memory" \in open THEN "memory"
    ELSE IF "scheduler" \in open THEN "scheduler" ELSE UnwindOrder(open)

Close(p) ==
    /\ pc[p] = "closing"
    /\ IF parts[p] = {}
       THEN parts' = parts /\ Goto(p, "stopping_server")
       ELSE parts' = [parts EXCEPT ![p] = @ \ {CloseOrder(@)}] /\ pc' = pc
    /\ UNCHANGED <<inst, owner, cancelled, locks, port, names, issued, left, reader>>

-----------------------------------------------------------------------------
(* ServiceCleanup::finish                                                  *)

StopServer(p) ==
    /\ pc[p] = "stopping_server"
    /\ port' = IF "running" \in owner[p] /\ port = inst[p] THEN None ELSE port
    /\ Goto(p, IF "discovery" \in owner[p] THEN "checking" ELSE "releasing")
    /\ owner' = [owner EXCEPT ![p] = Unowned]
    /\ UNCHANGED <<inst, parts, cancelled, locks, names, issued, left, reader>>

\* Mutant: whatever record is there is removed.
AnyRecord(p) == names.canonical # None

\* remove_if_owned reads the record it opened and leaves another's alone.
Owned(p) == names.canonical = inst[p]

RemovalFails(p) ==
    /\ left' = left \cup {inst[p]}
    /\ Goto(p, "releasing")
    /\ UNCHANGED <<service, cancelled, locks, reader>>

Check(p) ==
    /\ pc[p] = "checking"
    /\ \/ Fails(p, IF Owned(p) THEN "retiring" ELSE "releasing")
       \/ names' = names /\ RemovalFails(p)

\* Left-over entries are deleted, the record is renamed to the retired name and
\* found to be the file that was read; each of the steps may be the last.
Retire(p) ==
    /\ pc[p] = "retiring"
    /\ LET swept == Entries(names.canonical, None, names.retired)
           emptied == Entries(names.canonical, None, None)
           retired == Entries(None, None, names.canonical)
       IN  \/ Names(p, "releasing", retired)
           \/ names' \in {names, swept, emptied, retired} /\ RemovalFails(p)

-----------------------------------------------------------------------------
(* The surroundings                                                        *)

\* The future of run_service is dropped: the watch channel says so.
Cancel(p) ==
    /\ pc[p] \notin {"idle", "locking", "releasing"} /\ ~cancelled[p]
    /\ cancelled' = [cancelled EXCEPT ![p] = TRUE]
    /\ UNCHANGED <<pc, service, locks, names, left, reader>>

\* The process dies: the system gives back its locks and its port, the files
\* stay as they are.
Crash(p) ==
    /\ pc[p] # "idle"
    /\ Goto(p, "idle")
    /\ inst' = [inst EXCEPT ![p] = None]
    /\ parts' = [parts EXCEPT ![p] = {}]
    /\ owner' = [owner EXCEPT ![p] = Unowned]
    /\ cancelled' = [cancelled EXCEPT ![p] = FALSE]
    /\ namespace' = IF namespace = p THEN None ELSE namespace
    /\ lock' = IF lock = p THEN None ELSE lock
    /\ port' = IF port = inst[p] THEN None ELSE port
    /\ left' = left \cup ({inst[p]} \ {None})
    /\ UNCHANGED <<names, issued, reader>>

Step(p) ==
    \/ Acquire(p) \/ Prepare(p)
    \/ StartDiagnostics(p) \/ StartState(p) \/ StartQuery(p)
    \/ Serve(p) \/ Verify(p) \/ Unwind(p)
    \/ Sweep(p) \/ Stage(p) \/ Commit(p) \/ Discard(p) \/ Published(p)
    \/ Announce(p) \/ Stop(p) \/ Close(p)
    \/ StopServer(p) \/ Check(p) \/ Retire(p) \/ DropNamespace(p) \/ DropLock(p)

-----------------------------------------------------------------------------
(* The status command                                                      *)

\* The instance that serves, announced and recorded: what a call that meets no
\* change has to find.
Serving == {inst[p] : p \in {q \in Procs : pc[q] = "running" /\ port = inst[q]}}

Reads(s, place, record, answer) ==
    /\ reader' = [reader EXCEPT ![s] =
                    [pc |-> place, record |-> record, answer |-> answer,
                     steady |-> IF reader[s].pc = "idle"
                                THEN IF names.canonical \in Serving THEN names.canonical ELSE None
                                ELSE IF reader[s].steady \in Serving THEN reader[s].steady ELSE None]]
    /\ UNCHANGED <<pc, service, cancelled, locks, names, left>>

ReadRecord(s) ==
    /\ reader[s].pc = "idle"
    /\ IF names.canonical = None
       THEN Reads(s, "answered", None, "not_running")
       ELSE Reads(s, "health", names.canonical, "none")

\* A process with the recorded identifier runs, and the listener answers health
\* and then capabilities with the recorded instance.
Ask(s, place, next, answer) ==
    /\ reader[s].pc = place
    /\ IF port = reader[s].record
       THEN Reads(s, next, reader[s].record, answer)
       ELSE Reads(s, "answered", reader[s].record, "not_running")

AskHealth(s) == Ask(s, "health", "capabilities", "none")
AskCapabilities(s) == Ask(s, "capabilities", "answered", "running")

Return(s) ==
    /\ reader[s].pc = "answered"
    /\ reader' = [reader EXCEPT ![s] = NoReading]
    /\ UNCHANGED <<pc, service, cancelled, locks, names, left>>

Read(s) == ReadRecord(s) \/ AskHealth(s) \/ AskCapabilities(s) \/ Return(s)

Next ==
    \/ \E p \in Procs : Step(p) \/ Cancel(p) \/ Crash(p)
    \/ \E s \in Readers : Read(s)

Spec == Init /\ [][Next]_vars

-----------------------------------------------------------------------------
Places == {"idle", "locking", "preparing", "diagnostics", "state", "query", "binding", "verifying",
           "sweeping", "staging", "committing", "discarding", "publishing_done", "announcing",
           "running", "unwinding", "closing", "stopping_server", "checking", "retiring", "releasing"}

TypeOK ==
    /\ pc \in [Procs -> Places] /\ inst \in [Procs -> Nat]
    /\ parts \in [Procs -> SUBSET Parts]
    /\ owner \in [Procs -> SUBSET {"running", "discovery"}]
    /\ cancelled \in [Procs -> BOOLEAN]
    /\ port \in Nat /\ issued \in Nat /\ left \subseteq Nat
    /\ names \in [canonical : Nat, staging : Nat, retired : Nat]
    /\ reader \in [Readers -> [pc : {"idle", "health", "capabilities", "answered"}, record : Nat,
                               steady : Nat, answer : {"none", "running", "not_running"}]]

\* Whatever a service has running, its listener included, it runs under its
\* lease, through every failed start, cancellation and stop: a second process
\* that gets the lease finds the store, the port and the record free.  The scan
\* scheduler, which writes through the state writer, never outlives it.
LeaseCoversService ==
    \A p \in Procs :
        /\ \/ parts[p] # {}
           \/ inst[p] # None /\ port = inst[p]
           \/ owner[p] # Unowned
           => lock = p /\ namespace = p
        /\ "scheduler" \in parts[p] => "state" \in parts[p]

\* A service that ended by itself, at whatever step it failed or was cancelled,
\* leaves no record behind: a record of a dead instance is one of a process
\* that crashed or was refused the removal.
DeadRecordsAreExplained ==
    names.canonical \in {None} \cup Live \cup left

\* The record changes hands only under the lease: a process puts its own in
\* place of none or of a dead instance's, and takes away only its own.  No step
\* of a publication leaves the name without a record that was there.
RecordsAreOwnStep ==
    names'.canonical # names.canonical =>
        \E p \in Procs :
            /\ lock = p
            /\ \/ names'.canonical = inst[p] /\ names.canonical \notin Live
               \/ names'.canonical = None /\ names.canonical = inst[p]

\* `status` says running only of an instance that holds the lease and answers
\* on the port, and never says not running of one that served from the first
\* to the last step of the call.
StatusIsDueStep ==
    \A s \in Readers :
        reader'[s].pc = "answered" /\ reader[s].pc # "answered" =>
            IF reader'[s].answer = "running"
            THEN \E p \in Procs : lock = p /\ inst[p] = reader[s].record /\ port = inst[p]
            ELSE reader'[s].steady = None

\* The record in the runtime directory changes hands as it should, a dead one is
\* explained, and `status` says what is so (DiscoveryStore, status.rs), whoever
\* crashes, fails or is cancelled between any two steps.
RecordsAreDue ==
    []DeadRecordsAreExplained /\ [][RecordsAreOwnStep /\ StatusIsDueStep]_vars

-----------------------------------------------------------------------------
(* Proofs, for any number of processes, of `status` commands and of         *)
(* instances.                                                               *)

Unprepared == {"idle", "locking", "preparing"}
Starting == {"diagnostics", "state", "query", "binding", "verifying"}
Publishing == {"sweeping", "staging", "committing"}
Announced == {"discarding", "publishing_done", "announcing", "running", "closing"}

\* The two locks say who is where.
LeaseInv(p) ==
    /\ pc[p] = "locking" => namespace = p
    /\ pc[p] \notin {"idle", "locking"} => lock = p
    /\ pc[p] \notin {"idle", "locking", "releasing"} => namespace = p

\* The parts a process may have running at each step.
PartsInv(p) ==
    /\ pc[p] \in Unprepared \cup {"diagnostics", "stopping_server", "checking", "retiring", "releasing"}
       => parts[p] = {}
    /\ pc[p] \in {"query", "binding", "verifying"} \cup Publishing \cup (Announced \ {"closing"})
       => "state" \in parts[p]
    /\ "scheduler" \in parts[p] => pc[p] \in {"running", "closing"} /\ "state" \in parts[p]

\* A server that is up is owned by the process whose instance it is.
ServerInv(p) ==
    /\ inst[p] <= issued
    /\ owner[p] # Unowned => inst[p] # None
    /\ pc[p] \in Unprepared => inst[p] = None
    /\ pc[p] \in Starting \cup Publishing \cup Announced \cup {"checking", "retiring"} => inst[p] # None
    /\ pc[p] \in Unprepared \cup {"diagnostics", "state", "query", "binding", "checking", "retiring", "releasing"}
       => owner[p] = Unowned
    /\ inst[p] # None /\ port = inst[p] => "running" \in owner[p]

\* The own record is at its name from the commit to the removal, and the
\* owner's note of it goes no earlier.
RecordInv(p) ==
    /\ pc[p] \in Publishing \cup Announced => "discovery" \in owner[p]
    /\ pc[p] \in Starting \cup Publishing => names.canonical # inst[p]
    /\ pc[p] = "committing" => names.staging = inst[p]
    /\ pc[p] = "retiring" => names.canonical = inst[p]
    /\ inst[p] # None /\ names.canonical = inst[p] /\ inst[p] \notin left
       => "discovery" \in owner[p] \/ pc[p] \in {"checking", "retiring"}

ProcessInv == \A p \in Procs : LeaseInv(p) /\ PartsInv(p) /\ ServerInv(p) /\ RecordInv(p)

InstancesInv ==
    /\ port <= issued /\ names.canonical <= issued /\ names.staging <= issued
    /\ port # None => \E p \in Procs : inst[p] = port
    /\ names.canonical # None /\ names.canonical \notin left => \E p \in Procs : inst[p] = names.canonical

ReadersInv ==
    \A s \in Readers : reader[s].pc \in {"health", "capabilities"} =>
        reader[s].record # None /\ reader[s].steady \in {None, reader[s].record}

IInv == TypeOK /\ ProcessInv /\ InstancesInv /\ ReadersInv

\* A step of a process keeps the type of every variable.
LEMMA StepKeepsType ==
  ASSUME TypeOK, NEW p \in Procs, Step(p) \/ Cancel(p) \/ Crash(p)
  PROVE  TypeOK'
<1> USE DEF TypeOK, Goto, Fails, Names, service, locks,
            TryNamespace, TryInstance, Prepare, StartDiagnostics, StartState,
            StartQuery, Serve, Verify, Unwind, Sweep, Stage, Commit, Discard,
            Published, Announce, Stop, Close, StopServer, Check, Retire, DropNamespace,
            DropLock, Cancel, Crash, StartPart, UnwindOrder, CloseOrder, Owned,
            RemovalFails, Acquire, Step
<1>1. (pc \in [Procs -> Places])'
  BY DEF Places
<1>2. (inst \in [Procs -> Nat])'
  BY DEF None
<1>3. (port \in Nat)'
  BY DEF None
<1>4. (issued \in Nat)'
  BY DEF None
<1>5. (left \subseteq Nat)'
  <2>1. left' \in {left, left \cup {inst[p]}, left \cup ({inst[p]} \ {None})}
    OBVIOUS
  <2>2. inst[p] \in Nat /\ left \subseteq Nat
    BY DEF TypeOK
  <2> HIDE DEF TypeOK, Step, Cancel, Crash
  <2> QED
    BY <2>1, <2>2
<1>6. (parts \in [Procs -> SUBSET Parts])'
  BY DEF Parts
<1>7. (owner \in [Procs -> SUBSET {"running", "discovery"}])'
  BY DEF Unowned
<1>8. (cancelled \in [Procs -> BOOLEAN])'
  BY DEF Parts
<1>9. (names \in [canonical : Nat, staging : Nat, retired : Nat])'
  BY DEF None, Entries
<1>10. reader' = reader
  OBVIOUS
<1> QED
  BY <1>1, <1>2, <1>3, <1>4, <1>5, <1>6, <1>7, <1>8, <1>9, <1>10

\* A step of a process moves the locks only as its place says.
LEMMA StepKeepsLease ==
  ASSUME TypeOK, \A q \in Procs : LeaseInv(q), NEW p \in Procs,
         Step(p) \/ Cancel(p) \/ Crash(p)
  PROVE  \A q \in Procs : LeaseInv(q)'
<1> USE ProcsAssumption DEF TypeOK, Places, Goto, Fails, Names, Entries, service, locks,
        Unowned, Parts, None, LeaseInv
<1>1. CASE TryNamespace(p)
  BY <1>1 DEF TryNamespace
<1>2. CASE TryInstance(p)
  BY <1>2 DEF TryInstance
<1>3. CASE Prepare(p)
  BY <1>3 DEF Prepare
<1>4. CASE StartDiagnostics(p)
  BY <1>4 DEF StartPart, StartDiagnostics
<1>5. CASE StartState(p)
  BY <1>5 DEF StartPart, StartState
<1>6. CASE StartQuery(p)
  BY <1>6 DEF StartPart, StartQuery
<1>7. CASE Serve(p)
  BY <1>7 DEF Serve
<1>8. CASE Verify(p)
  BY <1>8 DEF Verify
<1>9. CASE Unwind(p)
  BY <1>9 DEF UnwindOrder, Unwind
<1>10. CASE Sweep(p)
  BY <1>10 DEF Sweep
<1>11. CASE Stage(p)
  BY <1>11 DEF Stage
<1>12. CASE Commit(p)
  BY <1>12 DEF Commit
<1>13. CASE Discard(p)
  BY <1>13 DEF Discard
<1>14. CASE Published(p)
  BY <1>14 DEF Published
<1>15. CASE Announce(p)
  BY <1>15 DEF Announce
<1>16. CASE Stop(p)
  BY <1>16 DEF Stop
<1>17. CASE Close(p)
  BY <1>17 DEF CloseOrder, UnwindOrder, Close
<1>18. CASE StopServer(p)
  BY <1>18 DEF StopServer
<1>19. CASE Check(p)
  BY <1>19 DEF Owned, RemovalFails, Check
<1>20. CASE Retire(p)
  BY <1>20 DEF RemovalFails, Retire
<1>21. CASE DropNamespace(p)
  BY <1>21 DEF DropNamespace
<1>22. CASE DropLock(p)
  BY <1>22 DEF DropLock
<1>23. CASE Cancel(p)
  BY <1>23 DEF Cancel
<1>24. CASE Crash(p)
  BY <1>24 DEF Crash
<1> QED
  BY <1>1, <1>2, <1>3, <1>4, <1>5, <1>6, <1>7, <1>8, <1>9, <1>10, <1>11, <1>12, <1>13,
     <1>14, <1>15, <1>16, <1>17, <1>18, <1>19, <1>20, <1>21, <1>22, <1>23, <1>24
     DEF Step, Acquire

\* The parts are started and closed in the order of the places.
LEMMA StepKeepsParts ==
  ASSUME TypeOK, \A q \in Procs : PartsInv(q), NEW p \in Procs,
         Step(p) \/ Cancel(p) \/ Crash(p)
  PROVE  \A q \in Procs : PartsInv(q)'
<1> USE ProcsAssumption DEF TypeOK, Places, Goto, Fails, Names, Entries, service, locks,
        Unowned, Parts, None, PartsInv, Unprepared, Starting, Publishing, Announced
<1>1. CASE TryNamespace(p)
  BY <1>1 DEF TryNamespace
<1>2. CASE TryInstance(p)
  BY <1>2 DEF TryInstance
<1>3. CASE Prepare(p)
  BY <1>3 DEF Prepare
<1>4. CASE StartDiagnostics(p)
  BY <1>4 DEF StartPart, StartDiagnostics
<1>5. CASE StartState(p)
  BY <1>5 DEF StartPart, StartState
<1>6. CASE StartQuery(p)
  BY <1>6 DEF StartPart, StartQuery
<1>7. CASE Serve(p)
  BY <1>7 DEF Serve
<1>8. CASE Verify(p)
  BY <1>8 DEF Verify
<1>9. CASE Unwind(p)
  BY <1>9 DEF UnwindOrder, Unwind
<1>10. CASE Sweep(p)
  BY <1>10 DEF Sweep
<1>11. CASE Stage(p)
  BY <1>11 DEF Stage
<1>12. CASE Commit(p)
  BY <1>12 DEF Commit
<1>13. CASE Discard(p)
  BY <1>13 DEF Discard
<1>14. CASE Published(p)
  BY <1>14 DEF Published
<1>15. CASE Announce(p)
  BY <1>15 DEF Announce
<1>16. CASE Stop(p)
  BY <1>16 DEF Stop
<1>17. CASE Close(p)
  BY <1>17 DEF CloseOrder, UnwindOrder, Close
<1>18. CASE StopServer(p)
  BY <1>18 DEF StopServer
<1>19. CASE Check(p)
  BY <1>19 DEF Owned, RemovalFails, Check
<1>20. CASE Retire(p)
  BY <1>20 DEF RemovalFails, Retire
<1>21. CASE DropNamespace(p)
  BY <1>21 DEF DropNamespace
<1>22. CASE DropLock(p)
  BY <1>22 DEF DropLock
<1>23. CASE Cancel(p)
  BY <1>23 DEF Cancel
<1>24. CASE Crash(p)
  BY <1>24 DEF Crash
<1> QED
  BY <1>1, <1>2, <1>3, <1>4, <1>5, <1>6, <1>7, <1>8, <1>9, <1>10, <1>11, <1>12, <1>13,
     <1>14, <1>15, <1>16, <1>17, <1>18, <1>19, <1>20, <1>21, <1>22, <1>23, <1>24
     DEF Step, Acquire

\* An instance is new, its server is taken down before its owner forgets it.
LEMMA StepKeepsServer ==
  ASSUME TypeOK, InstancesInv, \A q \in Procs : LeaseInv(q) /\ ServerInv(q),
         NEW p \in Procs, Step(p) \/ Cancel(p) \/ Crash(p)
  PROVE  \A q \in Procs : ServerInv(q)'
<1> USE ProcsAssumption DEF TypeOK, Places, Goto, Fails, Names, Entries, service, locks,
        Unowned, Parts, None, LeaseInv, ServerInv, InstancesInv, Unprepared, Starting,
        Publishing, Announced
<1>1. CASE TryNamespace(p)
  BY <1>1 DEF TryNamespace
<1>2. CASE TryInstance(p)
  BY <1>2 DEF TryInstance
<1>3. CASE Prepare(p)
  BY <1>3 DEF Prepare
<1>4. CASE StartDiagnostics(p)
  BY <1>4 DEF StartPart, StartDiagnostics
<1>5. CASE StartState(p)
  BY <1>5 DEF StartPart, StartState
<1>6. CASE StartQuery(p)
  BY <1>6 DEF StartPart, StartQuery
<1>7. CASE Serve(p)
  BY <1>7 DEF Serve
<1>8. CASE Verify(p)
  BY <1>8 DEF Verify
<1>9. CASE Unwind(p)
  BY <1>9 DEF UnwindOrder, Unwind
<1>10. CASE Sweep(p)
  BY <1>10 DEF Sweep
<1>11. CASE Stage(p)
  BY <1>11 DEF Stage
<1>12. CASE Commit(p)
  BY <1>12 DEF Commit
<1>13. CASE Discard(p)
  BY <1>13 DEF Discard
<1>14. CASE Published(p)
  BY <1>14 DEF Published
<1>15. CASE Announce(p)
  BY <1>15 DEF Announce
<1>16. CASE Stop(p)
  BY <1>16 DEF Stop
<1>17. CASE Close(p)
  BY <1>17 DEF CloseOrder, UnwindOrder, Close
<1>18. CASE StopServer(p)
  BY <1>18 DEF StopServer
<1>19. CASE Check(p)
  BY <1>19 DEF Owned, RemovalFails, Check
<1>20. CASE Retire(p)
  BY <1>20 DEF RemovalFails, Retire
<1>21. CASE DropNamespace(p)
  BY <1>21 DEF DropNamespace
<1>22. CASE DropLock(p)
  BY <1>22 DEF DropLock
<1>23. CASE Cancel(p)
  BY <1>23 DEF Cancel
<1>24. CASE Crash(p)
  BY <1>24 DEF Crash
<1> QED
  BY <1>1, <1>2, <1>3, <1>4, <1>5, <1>6, <1>7, <1>8, <1>9, <1>10, <1>11, <1>12, <1>13,
     <1>14, <1>15, <1>16, <1>17, <1>18, <1>19, <1>20, <1>21, <1>22, <1>23, <1>24
     DEF Step, Acquire

\* The names change only in the hands of the process that has the lock.
LEMMA StepKeepsRecord ==
  ASSUME TypeOK, InstancesInv,
         \A q \in Procs : LeaseInv(q) /\ ServerInv(q) /\ RecordInv(q), NEW p \in Procs,
         Step(p) \/ Cancel(p) \/ Crash(p)
  PROVE  \A q \in Procs : RecordInv(q)'
<1> USE ProcsAssumption DEF TypeOK, Places, Goto, Fails, Names, Entries, service, locks,
        Unowned, Parts, None, LeaseInv, ServerInv, RecordInv, InstancesInv, Unprepared,
        Starting, Publishing, Announced
<1>1. CASE TryNamespace(p)
  BY <1>1 DEF TryNamespace
<1>2. CASE TryInstance(p)
  BY <1>2 DEF TryInstance
<1>3. CASE Prepare(p)
  BY <1>3 DEF Prepare
<1>4. CASE StartDiagnostics(p)
  BY <1>4 DEF StartPart, StartDiagnostics
<1>5. CASE StartState(p)
  BY <1>5 DEF StartPart, StartState
<1>6. CASE StartQuery(p)
  BY <1>6 DEF StartPart, StartQuery
<1>7. CASE Serve(p)
  BY <1>7 DEF Serve
<1>8. CASE Verify(p)
  BY <1>8 DEF Verify
<1>9. CASE Unwind(p)
  BY <1>9 DEF UnwindOrder, Unwind
<1>10. CASE Sweep(p)
  BY <1>10 DEF Sweep
<1>11. CASE Stage(p)
  BY <1>11 DEF Stage
<1>12. CASE Commit(p)
  BY <1>12 DEF Commit
<1>13. CASE Discard(p)
  BY <1>13 DEF Discard
<1>14. CASE Published(p)
  BY <1>14 DEF Published
<1>15. CASE Announce(p)
  BY <1>15 DEF Announce
<1>16. CASE Stop(p)
  BY <1>16 DEF Stop
<1>17. CASE Close(p)
  BY <1>17 DEF CloseOrder, UnwindOrder, Close
<1>18. CASE StopServer(p)
  BY <1>18 DEF StopServer
<1>19. CASE Check(p)
  BY <1>19 DEF Owned, RemovalFails, Check
<1>20. CASE Retire(p)
  BY <1>20 DEF RemovalFails, Retire
<1>21. CASE DropNamespace(p)
  BY <1>21 DEF DropNamespace
<1>22. CASE DropLock(p)
  BY <1>22 DEF DropLock
<1>23. CASE Cancel(p)
  BY <1>23 DEF Cancel
<1>24. CASE Crash(p)
  BY <1>24 DEF Crash
<1> QED
  BY <1>1, <1>2, <1>3, <1>4, <1>5, <1>6, <1>7, <1>8, <1>9, <1>10, <1>11, <1>12, <1>13,
     <1>14, <1>15, <1>16, <1>17, <1>18, <1>19, <1>20, <1>21, <1>22, <1>23, <1>24
     DEF Step, Acquire

\* Port and record name an instance that has been handed out and is alive or explained.
LEMMA StepKeepsInstances ==
  ASSUME TypeOK, InstancesInv,
         \A q \in Procs : LeaseInv(q) /\ ServerInv(q) /\ RecordInv(q), NEW p \in Procs,
         Step(p) \/ Cancel(p) \/ Crash(p)
  PROVE  InstancesInv'
<1> USE ProcsAssumption DEF TypeOK, Places, Goto, Fails, Names, Entries, service, locks,
        Unowned, Parts, None, LeaseInv, ServerInv, RecordInv, InstancesInv, Unprepared,
        Starting, Publishing, Announced
<1>1. CASE TryNamespace(p)
  BY <1>1 DEF TryNamespace
<1>2. CASE TryInstance(p)
  BY <1>2 DEF TryInstance
<1>3. CASE Prepare(p)
  BY <1>3 DEF Prepare
<1>4. CASE StartDiagnostics(p)
  BY <1>4 DEF StartPart, StartDiagnostics
<1>5. CASE StartState(p)
  BY <1>5 DEF StartPart, StartState
<1>6. CASE StartQuery(p)
  BY <1>6 DEF StartPart, StartQuery
<1>7. CASE Serve(p)
  BY <1>7 DEF Serve
<1>8. CASE Verify(p)
  BY <1>8 DEF Verify
<1>9. CASE Unwind(p)
  BY <1>9 DEF UnwindOrder, Unwind
<1>10. CASE Sweep(p)
  BY <1>10 DEF Sweep
<1>11. CASE Stage(p)
  BY <1>11 DEF Stage
<1>12. CASE Commit(p)
  BY <1>12 DEF Commit
<1>13. CASE Discard(p)
  BY <1>13 DEF Discard
<1>14. CASE Published(p)
  BY <1>14 DEF Published
<1>15. CASE Announce(p)
  BY <1>15 DEF Announce
<1>16. CASE Stop(p)
  BY <1>16 DEF Stop
<1>17. CASE Close(p)
  BY <1>17 DEF CloseOrder, UnwindOrder, Close
<1>18. CASE StopServer(p)
  BY <1>18 DEF StopServer
<1>19. CASE Check(p)
  BY <1>19 DEF Owned, RemovalFails, Check
<1>20. CASE Retire(p)
  BY <1>20 DEF RemovalFails, Retire
<1>21. CASE DropNamespace(p)
  BY <1>21 DEF DropNamespace
<1>22. CASE DropLock(p)
  BY <1>22 DEF DropLock
<1>23. CASE Cancel(p)
  BY <1>23 DEF Cancel
<1>24. CASE Crash(p)
  BY <1>24 DEF Crash
<1> QED
  BY <1>1, <1>2, <1>3, <1>4, <1>5, <1>6, <1>7, <1>8, <1>9, <1>10, <1>11, <1>12, <1>13,
     <1>14, <1>15, <1>16, <1>17, <1>18, <1>19, <1>20, <1>21, <1>22, <1>23, <1>24
     DEF Step, Acquire

\* The `status` commands change nothing but their own reading.
LEMMA ReadKeepsInv ==
  ASSUME IInv, NEW s \in Readers, Read(s)
  PROVE  IInv'
<1> USE DEF Reads, service, locks
<1>1. UNCHANGED <<pc, inst, parts, owner, cancelled, namespace, lock, port, names, issued, left>>
  BY DEF Read, ReadRecord, AskHealth, AskCapabilities, Ask, Return
<1>2. ProcessInv'
  <2> SUFFICES ASSUME NEW p \in Procs
               PROVE  (LeaseInv(p) /\ PartsInv(p) /\ ServerInv(p) /\ RecordInv(p))'
    BY DEF ProcessInv
  <2>1. LeaseInv(p) /\ PartsInv(p) /\ ServerInv(p) /\ RecordInv(p)
    BY DEF IInv, ProcessInv
  <2>2. LeaseInv(p)' /\ PartsInv(p)'
    BY ZenonT(60), <1>1, <2>1 DEF LeaseInv, PartsInv
  <2>3. ServerInv(p)' /\ RecordInv(p)'
    BY ZenonT(60), <1>1, <2>1 DEF ServerInv, RecordInv
  <2> QED
    BY <2>2, <2>3
<1>3. InstancesInv'
  BY ZenonT(60), <1>1 DEF IInv, InstancesInv
<1>4. TypeOK'
  <2>1. TypeOK
    BY DEF IInv
  <2>2. (reader \in [Readers -> [pc : {"idle", "health", "capabilities", "answered"}, record : Nat,
                               steady : Nat, answer : {"none", "running", "not_running"}]])'
    BY <1>1, <2>1 DEF TypeOK, Read, ReadRecord, AskHealth, AskCapabilities, Ask, Return,
       NoReading, None
  <2> QED
    BY <1>1, <2>1, <2>2 DEF TypeOK
<1>5. ReadersInv'
  BY DEF IInv, TypeOK, ReadersInv, Read, ReadRecord, AskHealth, AskCapabilities, Ask,
     Return,
         NoReading, None
<1> QED
  BY <1>2, <1>3, <1>4, <1>5 DEF IInv

LEMMA InitInv == Init => IInv
  BY ProcsAssumption
  DEF Init, IInv, TypeOK, Places, Parts, ProcessInv, LeaseInv, PartsInv, ServerInv,
      RecordInv,
      InstancesInv, ReadersInv, Unprepared, Starting, Publishing, Announced, Unowned, Entries,
      NoReading, None

LEMMA NextInv == IInv /\ [Next]_vars => IInv'
<1> SUFFICES ASSUME IInv, [Next]_vars PROVE IInv'
  OBVIOUS
<1>1. ASSUME NEW p \in Procs, Step(p) \/ Cancel(p) \/ Crash(p)
      PROVE  IInv'
  <2>1. TypeOK'
    BY <1>1, StepKeepsType DEF IInv
  <2>2. ProcessInv'
    BY <1>1, StepKeepsLease, StepKeepsParts, StepKeepsServer, StepKeepsRecord
       DEF IInv, ProcessInv
  <2>3. InstancesInv'
    BY <1>1, StepKeepsInstances DEF IInv, ProcessInv
  <2>4. reader' = reader
    BY <1>1 DEF Goto, Fails, Names, service, locks,
            TryNamespace, TryInstance, Prepare, StartDiagnostics, StartState,
            StartQuery, Serve, Verify, Unwind, Sweep, Stage, Commit, Discard,
            Published, Announce, Stop, Close, StopServer, Check, Retire, DropNamespace,
            DropLock, Cancel, Crash, StartPart, UnwindOrder, CloseOrder, Owned,
            RemovalFails, Acquire, Step
  <2> QED
    BY <2>1, <2>2, <2>3, <2>4 DEF IInv, ReadersInv
<1>2. ASSUME NEW s \in Readers, Read(s)
      PROVE  IInv'
  BY <1>2, ReadKeepsInv
<1>3. CASE UNCHANGED vars
  BY <1>3 DEF vars, IInv, TypeOK, ProcessInv, LeaseInv, PartsInv, ServerInv, RecordInv,
              InstancesInv, ReadersInv
<1> QED
  BY <1>1, <1>2, <1>3 DEF Next

LEMMA Invariance == Spec => []IInv
  BY InitInv, NextInv, PTL DEF Spec

-----------------------------------------------------------------------------
\* Whatever a process of `wokcore serve` has running it runs under its lease:
\* RuntimeLease is dropped last on every path of serve.rs, failed starts and
\* cancellations included, so that no two processes ever serve together.
THEOREM ServedUnderLease == Spec => []LeaseCoversService
<1>1. IInv => LeaseCoversService
  BY DEF IInv, ProcessInv, LeaseInv, PartsInv, ServerInv, LeaseCoversService, Unprepared,
     Unowned
<1> QED
  BY <1>1, Invariance, PTL

LEMMA DeadRecords == IInv => DeadRecordsAreExplained
  BY DEF IInv, InstancesInv, DeadRecordsAreExplained, Live, None

\* A process that has an instance has the lock: there is one at most.
LEMMA OneInstance ==
  ASSUME IInv, NEW p \in Procs, lock = p
  PROVE  Live \subseteq {inst[p]}
  BY DEF IInv, ProcessInv, LeaseInv, ServerInv, Live, Unprepared

LEMMA RecordsStep == IInv /\ [Next]_vars => [RecordsAreOwnStep]_vars
<1> SUFFICES ASSUME IInv, [Next]_vars PROVE RecordsAreOwnStep
  OBVIOUS
<1> USE DEF Goto, Fails, Names, Entries, service, locks
<1>1. ASSUME NEW p \in Procs, Commit(p) PROVE RecordsAreOwnStep
  BY <1>1, OneInstance
  DEF Commit, RecordsAreOwnStep, IInv, TypeOK, ProcessInv, LeaseInv, RecordInv, Starting,
      Publishing, None
<1>2. ASSUME NEW p \in Procs, Retire(p) PROVE RecordsAreOwnStep
  BY <1>2 DEF Retire, RemovalFails, RecordsAreOwnStep, IInv, TypeOK, ProcessInv, LeaseInv,
     RecordInv, None
<1>3. ASSUME NEW p \in Procs, Step(p) \/ Cancel(p) \/ Crash(p), ~Commit(p), ~Retire(p)
      PROVE  names'.canonical = names.canonical
  <2>1. CASE Acquire(p) \/ Prepare(p) \/ StartDiagnostics(p) \/ StartState(p) \/ StartQuery(p)
    BY <2>1 DEF Acquire, TryNamespace, TryInstance, Prepare, StartDiagnostics, StartState,
       StartQuery, StartPart
  <2>2. CASE Serve(p) \/ Verify(p) \/ Unwind(p) \/ Published(p) \/ Announce(p) \/ Stop(p)
    BY <2>2 DEF Serve, Verify, Unwind, UnwindOrder, Published, Announce, Stop
  <2>3. CASE Sweep(p) \/ Stage(p) \/ Discard(p)
    BY <2>3 DEF Sweep, Stage, Discard, RemovalFails, IInv, TypeOK
  <2>4. CASE Close(p) \/ StopServer(p) \/ Check(p) \/ DropNamespace(p) \/ DropLock(p)
    BY <2>4 DEF Close, CloseOrder, StopServer, Check, DropNamespace, DropLock
  <2>5. CASE Cancel(p) \/ Crash(p)
    BY <2>5 DEF Cancel, Crash
  <2> QED
    BY ZenonT(60), <1>3, <2>1, <2>2, <2>3, <2>4, <2>5 DEF Step
<1>4. ASSUME NEW s \in Readers, Read(s) PROVE names' = names
  BY <1>4 DEF Read, ReadRecord, AskHealth, AskCapabilities, Ask, Return, Reads
<1> QED
  BY <1>1, <1>2, <1>3, <1>4 DEF Next, vars, RecordsAreOwnStep

LEMMA StatusStep == IInv /\ [Next]_vars => [StatusIsDueStep]_vars
<1> SUFFICES ASSUME IInv, [Next]_vars, NEW s \in Readers,
                    reader'[s].pc = "answered", reader[s].pc # "answered"
             PROVE  IF reader'[s].answer = "running"
                    THEN \E p \in Procs : lock = p /\ inst[p] = reader[s].record /\ port = inst[p]
                    ELSE reader'[s].steady = None
  BY DEF StatusIsDueStep
<1> USE DEF service, locks
<1>1. ASSUME NEW p \in Procs, Step(p) \/ Cancel(p) \/ Crash(p) PROVE reader' = reader
  BY <1>1 DEF Goto, Fails, Names,
            TryNamespace, TryInstance, Prepare, StartDiagnostics, StartState,
            StartQuery, Serve, Verify, Unwind, Sweep, Stage, Commit, Discard,
            Published, Announce, Stop, Close, StopServer, Check, Retire, DropNamespace,
            DropLock, Cancel, Crash, StartPart, UnwindOrder, CloseOrder, Owned,
            RemovalFails, Acquire, Step
<1>2. PICK r \in Readers : Read(r)
  BY <1>1 DEF Next, vars
<1>3. r = s
  BY <1>2 DEF Read, ReadRecord, AskHealth, AskCapabilities, Ask, Return, Reads, IInv, TypeOK
<1>4. CASE ReadRecord(s)
  BY <1>4 DEF ReadRecord, Reads, IInv, TypeOK, None
<1>5. CASE AskHealth(s)
  BY <1>5 DEF AskHealth, Ask, Reads, IInv, TypeOK, ReadersInv, Serving, None
<1>6. CASE AskCapabilities(s)
  <2>1. CASE port = reader[s].record
    BY <1>6, <2>1 DEF AskCapabilities, Ask, Reads, IInv, TypeOK, ReadersInv, InstancesInv,
                      ProcessInv, LeaseInv, ServerInv, Unprepared, None
  <2>2. CASE port # reader[s].record
    BY <1>6, <2>2 DEF AskCapabilities, Ask, Reads, IInv, TypeOK, ReadersInv, Serving, None
  <2> QED
    BY <2>1, <2>2
<1>7. CASE Return(s)
  BY <1>7 DEF Return, NoReading, IInv, TypeOK
<1> QED
  BY <1>2, <1>3, <1>4, <1>5, <1>6, <1>7 DEF Read

\* The discovery record is published and removed only by the holder of the
\* lease and only for its own instance (DiscoveryStore::publish,
\* remove_if_owned), a record nobody answers for is one of a process that
\* crashed or was refused the removal, and `status` answers for what is so.
THEOREM RecordsChangeHands == Spec => RecordsAreDue
<1>1. IInv /\ [Next]_vars => [RecordsAreOwnStep /\ StatusIsDueStep]_vars
  BY RecordsStep, StatusStep
<1> QED
  BY <1>1, DeadRecords, Invariance, PTL DEF Spec, RecordsAreDue
=============================================================================
