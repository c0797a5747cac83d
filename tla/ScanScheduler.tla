---------------------------- MODULE ScanScheduler ----------------------------
(* The scheduler of session scans (wokcore-server observability/scheduler.rs):*)
(* one task that dispatches slices of the three kinds to a few threads,       *)
(* continues a scan until it is complete, and starts scans for file           *)
(* notifications, after a debounce, and for a fallback timer.                 *)
(*                                                                            *)
(* A scan of a kind is a cycle of slices, and slice i reads file i: a change  *)
(* to a file that the cycle has passed is seen by the next cycle only.        *)
EXTENDS Naturals, Sequences, SequencesExt, FiniteSets, FiniteSetsExt

CONSTANTS
    Kinds,      \* SessionKind, in the order of SessionKind::ALL
    Workers,    \* scanner threads
    Slices,     \* slices of a complete cycle
    MaxChanges, \* bound on changes of files
    MaxFaults   \* bound on slices that report an error

VARIABLES
    pending, inflight,      \* kinds to dispatch, kinds a thread has
    notified, permit,       \* notified_kinds and the permit of the Notify
    armed,                  \* debounce_armed
    jobs, busy, results,    \* worker queue, threads, result channel
    acc, status,            \* accumulators and published source status
    at,                     \* the scanner's place in its cycle
    dirty,                  \* changes no slice has read: <<kind, file>>
    cycle,                  \* what the slices of the running cycle reported
    task,                   \* [pc, asked, seen, alive]: the task, the shutdown
                            \* flag, its receiver, and whether the sender lives
    changes, faults

svars == <<pending, inflight, notified, permit, armed, jobs, busy, results,
           acc, status, at, dirty, cycle, task, changes, faults>>

-----------------------------------------------------------------------------
(* What a slice reports, and KindAccumulator.                                 *)

\* error_priority of the codes in use: the smaller one is kept.
Limit == 0
Unreadable == 3
Failed == 4
Absent == 11
NoError == 12

\* A report: whether it ends the scan, whether the root was readable, and the
\* files it observed, with the error and the generation readers still have.
Good == [code |-> NoError, visible |-> TRUE]
Files == {Good, [code |-> Failed, visible |-> TRUE], [code |-> Limit, visible |-> FALSE]}
Reports(k) ==
    LET last == at[k] = Slices IN
         {[complete |-> last, readable |-> TRUE, files |-> {f}] : f \in Files}
    \* scanner_error_report: the scanner gave its cycle up
    \union {[complete |-> TRUE, readable |-> TRUE, files |-> {[code |-> Failed, visible |-> TRUE]}]}
    \* the thread caught a panic
    \union {[complete |-> TRUE, readable |-> FALSE, files |-> {}]}

Fresh == [readable |-> TRUE, files |-> 0, visible |-> FALSE, code |-> NoError]

Fold(a, r) ==
    [readable |-> a.readable /\ r.readable,
     files    |-> Min({1, a.files + Cardinality(r.files)}),
     visible  |-> a.visible \/ \E f \in r.files : f.visible,
     code     |-> Min({a.code} \union {f.code : f \in r.files})]

\* KindAccumulator::finish
Finished(a) ==
    LET root == IF a.readable THEN a.code ELSE Min({a.code, Unreadable})
        code == IF a.files = 0 /\ root = NoError THEN Absent ELSE root
    IN  IF code = Limit THEN "limited"
        ELSE IF code = NoError THEN "available"
        ELSE IF a.visible THEN "stale" ELSE "unavailable"

-----------------------------------------------------------------------------
(* Files and the threads.                                                     *)

\* A session file changes and the watcher calls SchedulerHandle::notify, which
\* does nothing once the scheduler is closed.
Change(k, i) ==
    /\ changes < MaxChanges
    /\ changes' = changes + 1
    /\ dirty' = dirty \union {<<k, i>>}
    /\ IF task.asked THEN UNCHANGED <<notified, permit>>
       ELSE notified' = notified \union {k} /\ permit' = TRUE
    /\ UNCHANGED <<pending, inflight, armed, jobs, busy, results, acc, status, at, cycle, task, faults>>

TakeJob(w) ==
    /\ busy[w] = 0 /\ jobs # << >>
    /\ busy' = [busy EXCEPT ![w] = Head(jobs)]
    /\ jobs' = Tail(jobs)
    /\ UNCHANGED <<pending, inflight, notified, permit, armed, results, acc, status, at, dirty,
                   cycle, task, changes, faults>>

RunSlice(w) ==
    /\ busy[w] # 0
    /\ LET k == busy[w] IN \E r \in Reports(k) :
         /\ faults' = faults + (IF r.files = {Good} THEN 0 ELSE 1)
         /\ faults' <= MaxFaults
         /\ results' = Append(results, [kind |-> k, report |-> r])
         /\ dirty' = IF r.readable THEN dirty \ {<<k, at[k]>>} ELSE dirty
         /\ at' = [at EXCEPT ![k] = IF r.complete THEN 1 ELSE @ + 1]
         /\ cycle' = [cycle EXCEPT ![k] = (IF at[k] = 1 THEN {} ELSE @) \union {r}]
    /\ busy' = [busy EXCEPT ![w] = 0]
    /\ UNCHANGED <<pending, inflight, notified, permit, armed, jobs, acc, status, task, changes>>

-----------------------------------------------------------------------------
(* run_scheduler: dispatch, then wait for the first branch that is ready.     *)

Dispatch(p, f) ==
    LET ready == SetToSortSeq(p \ f, <)
        free  == Cardinality(Workers) - Cardinality(f)
    IN  SubSeq(ready, 1, Min({free, Len(ready)}))

\* The end of a turn with pending kinds p and kinds f in flight: the next turn
\* dispatches, and ends the task when it was asked to and nothing is in flight.
Turn(p, f) ==
    LET sent == Dispatch(p, f)
        now  == f \union ToSet(sent)
    IN  /\ pending' = p \ ToSet(sent)
        /\ inflight' = now
        /\ jobs' = jobs \o sent
        /\ task' = [task EXCEPT !.pc = IF task.asked /\ now = {} THEN "ended" ELSE "waiting",
                                !.seen = @ \/ (task.asked /\ p = {})]

Waiting == task.pc = "waiting"
\* shutdown.changed() is ready for a new value, and always once the sender is gone.
ShutdownReady == task.asked /\ (~task.seen \/ ~task.alive)

Start ==
    /\ task.pc = "starting"
    /\ Turn(Kinds, {})
    /\ UNCHANGED <<notified, permit, armed, busy, results, acc, status, at, dirty, cycle, changes, faults>>

OnShutdown ==
    /\ Waiting /\ ShutdownReady
    /\ Turn({}, inflight)
    /\ UNCHANGED <<notified, permit, armed, busy, results, acc, status, at, dirty, cycle, changes, faults>>

OnResult ==
    /\ Waiting /\ ~ShutdownReady /\ results # << >>
    /\ LET k == Head(results).kind
           r == Head(results).report
           a == Fold(acc[k], r)
       IN  /\ acc' = [acc EXCEPT ![k] = IF r.complete THEN Fresh ELSE a]
           /\ status' = IF r.complete THEN [status EXCEPT ![k] = Finished(a)] ELSE status
           /\ Turn(IF r.complete \/ task.asked THEN pending ELSE pending \union {k}, inflight \ {k})
    /\ results' = Tail(results)
    /\ UNCHANGED <<notified, permit, armed, busy, at, dirty, cycle, changes, faults>>

OnNotified ==
    /\ Waiting /\ ~task.asked /\ results = << >> /\ permit
    /\ permit' = FALSE /\ armed' = TRUE
    /\ Turn(pending, inflight)
    /\ UNCHANGED <<notified, busy, results, acc, status, at, dirty, cycle, changes, faults>>

OnDebounce ==
    /\ Waiting /\ ~task.asked /\ results = << >> /\ ~permit /\ armed
    /\ armed' = FALSE /\ notified' = {}
    /\ Turn(pending \union notified, inflight)
    /\ UNCHANGED <<permit, busy, results, acc, status, at, dirty, cycle, changes, faults>>

\* A faulty OnFallback: the timer starts nothing.
OnFallbackIdle ==
    /\ Waiting /\ ~task.asked /\ results = << >> /\ ~permit /\ pending = {}
    /\ Turn(pending, inflight)
    /\ UNCHANGED <<notified, permit, armed, busy, results, acc, status, at, dirty, cycle, changes, faults>>

\* The interval is longer than a kind waits for a thread.
OnFallback ==
    /\ Waiting /\ ~task.asked /\ results = << >> /\ ~permit /\ pending = {}
    /\ Turn(Kinds, inflight)
    /\ UNCHANGED <<notified, permit, armed, busy, results, acc, status, at, dirty, cycle, changes, faults>>

\* RunningScheduler::shutdown keeps the sender until the task has ended.
AskShutdown ==
    /\ ~task.asked /\ task.pc # "ended"
    /\ task' = [task EXCEPT !.asked = TRUE]
    /\ UNCHANGED <<pending, inflight, notified, permit, armed, jobs, busy, results, acc, status, at,
                   dirty, cycle, changes, faults>>

\* Drop for RunningScheduler asks as well, and the sender goes.
DropHandle ==
    /\ ~task.asked /\ task.pc # "ended"
    /\ task' = [task EXCEPT !.asked = TRUE, !.alive = FALSE]
    /\ UNCHANGED <<pending, inflight, notified, permit, armed, jobs, busy, results, acc, status, at,
                   dirty, cycle, changes, faults>>

-----------------------------------------------------------------------------
SchedulerInit ==
    /\ pending = {} /\ inflight = {} /\ notified = {} /\ permit = FALSE /\ armed = FALSE
    /\ jobs = << >> /\ busy = [w \in Workers |-> 0] /\ results = << >>
    /\ acc = [k \in Kinds |-> Fresh] /\ status = [k \in Kinds |-> "undiscovered"]
    /\ at = [k \in Kinds |-> 1] /\ dirty = {} /\ cycle = [k \in Kinds |-> {}]
    /\ task = [pc |-> "starting", asked |-> FALSE, seen |-> FALSE, alive |-> TRUE]
    /\ changes = 0 /\ faults = 0

\* A scheduler that has been shut down.
SchedulerEnded ==
    /\ pending = {} /\ inflight = {} /\ notified = {} /\ permit = FALSE /\ armed = FALSE
    /\ jobs = << >> /\ busy = [w \in Workers |-> 0] /\ results = << >>
    /\ acc = [k \in Kinds |-> Fresh] /\ status = [k \in Kinds |-> "available"]
    /\ at = [k \in Kinds |-> 1] /\ dirty = {} /\ cycle = [k \in Kinds |-> {}]
    /\ task = [pc |-> "ended", asked |-> TRUE, seen |-> TRUE, alive |-> TRUE]
    /\ changes = MaxChanges /\ faults = MaxFaults

Thread(w) == TakeJob(w) \/ RunSlice(w)
Loop == Start \/ OnShutdown \/ OnResult \/ OnNotified \/ OnDebounce

SchedulerNext ==
    \/ \E k \in Kinds, i \in 1..Slices : Change(k, i)
    \/ \E w \in Workers : Thread(w)
    \/ Loop \/ OnFallback \/ AskShutdown \/ DropHandle

\* Threads run, the task is polled and its timers fire.
SchedulerFairness ==
    /\ \A w \in Workers : WF_svars(Thread(w))
    /\ WF_svars(Loop) /\ SF_svars(OnFallback)

SchedulerSpec == SchedulerInit /\ [][SchedulerNext]_svars /\ SchedulerFairness

-----------------------------------------------------------------------------
\* The status published for a kind is that of one whole scan: it is available
\* only if no slice of the cycle that ended reported an error, and limited if
\* one did (KindAccumulator across slices, threads and a second scan that is
\* already running).
StatusStep ==
    \A k \in Kinds : (results # << >> /\ results' = Tail(results) /\ Head(results).kind = k
                        /\ Head(results).report.complete)
         => LET codes == UNION {{f.code : f \in r.files} : r \in cycle[k]} IN
            /\ status'[k] = "available" <=> (codes = {NoError} /\ \A r \in cycle[k] : r.readable)
            /\ Limit \in codes => status'[k] = "limited"

\* A changed session file is read by a later slice, whatever the task was doing
\* when the notification came, unless the scheduler is shut down; and a
\* shutdown returns, the slices in flight having ended.  Where the
\* notification is absorbed by the cycle that has passed the file, it is the
\* fallback timer that reads it.
ChangesAreScanned ==
    []<>(IF task.asked THEN task.alive => task.pc = "ended" ELSE dirty = {})
==============================================================================
