-------------------------- MODULE ServiceLifecycle --------------------------
(***************************************************************************)
(* Request admission and the drain/stop protocol of the local service      *)
(* (crates/wokcore-server/src/lifecycle/admission.rs and service.rs), with *)
(* the two kinds of caller it has: the HTTP control handlers               *)
(* (api/routes.rs) and the owner of the process (commands/serve.rs).       *)
(*                                                                         *)
(* Every access to a shared atomic is one action, because requests read    *)
(* and write them without the transition mutex.  What is only read under   *)
(* the mutex is grouped with the access that takes or follows it.          *)
(***************************************************************************)
EXTENDS Integers, FiniteSets

CONSTANTS
  Requests,       \* tasks that call try_enter
  Controllers,    \* HTTP control handlers
  Owner,          \* the serve task: marks the service running, shuts it down
  Readers,        \* callers of snapshot()
  Ops,            \* the control operations the handlers are asked for
  NoOne,          \* the mutex is free
  MaxActive,      \* usize::MAX of the active counter
  MaxRevision,    \* u64::MAX of transition_revision
  MaxGeneration,  \* u64::MAX of drain_generation
  MaxActivity     \* u64::MAX of activity_revision

Callers == Controllers \cup {Owner}

ASSUME ConstantsAssumption ==
  /\ IsFiniteSet(Requests)
  /\ Owner \notin Controllers
  /\ NoOne \notin Callers
  /\ Ops \subseteq {"begin_drain", "cancel_drain", "request_stop"}
  /\ MaxActive \in Nat /\ MaxRevision \in Nat
  /\ MaxGeneration \in Nat /\ MaxActivity \in Nat

Phases == {"Starting", "Running", "Draining", "AwaitingCancellation", "Stopping"}

VARIABLES
  phase,          \* SharedLifecycle.phase
  active,         \* SharedLifecycle.active
  revision,       \* SharedLifecycle.transition_revision
  activity,       \* SharedLifecycle.activity_revision
  idlePermit,     \* the stored permit of idle_zero_active
  transition,     \* Mutex<TransitionState>: [phase, generation]
  lock,           \* the holder of that mutex
  watch,          \* the value of the phase_watch channel
  unseen,         \* waiters with a watch change they have not observed
  woken,          \* waiters whose Notified future has been released
  rpc,            \* what each request task does next
  pc,             \* what each caller does next
  op,             \* the operation each caller runs
  gen,            \* the drain generation a begin_drain call waits for
  event,          \* DrainWait: why the wait ended
  result,         \* what the call returned
  stopRequested,  \* ServerState.shutdown, sent by the stop handler
  spc,            \* what each snapshot caller reads next
  view            \* what it has read so far

shared == <<phase, active, revision, activity, idlePermit>>
mutex == <<transition, lock, watch>>
waiting == <<unseen, woken>>
calls == <<pc, op, gen, event, result, stopRequested>>
readers == <<spc, view>>
vars == <<shared, mutex, waiting, rpc, calls, readers>>

(* Request tasks between the increment of active and its decrement, and    *)
(* the ones that were told they may serve.                                 *)
Counting == {"entered", "admitting", "held", "leaving"}
Holding == {"admitting", "held"}
Admitted == {r \in Requests : rpc[r] \in Holding}

\* What a snapshot has read so far, and before it has read anything.
Seen(r, p, w) == [revision |-> r, phase |-> p, was |-> w]
NothingRead == Seen(0, "Starting", "Starting")

Init ==
  /\ phase = "Starting" /\ active = 0 /\ revision = 0
  /\ activity = 0 /\ idlePermit = FALSE
  /\ transition = [phase |-> "Starting", generation |-> 0]
  /\ watch = [phase |-> "Starting", generation |-> 0]
  /\ lock = NoOne /\ unseen = {} /\ woken = {}
  /\ rpc = [r \in Requests |-> "idle"]
  /\ pc = [c \in Callers |-> "idle"]
  /\ op = [c \in Callers |-> "none"]
  /\ gen = [c \in Callers |-> 0]
  /\ event = [c \in Callers |-> "none"]
  /\ result = [c \in Callers |-> "none"]
  /\ stopRequested = FALSE
  /\ spc = [s \in Readers |-> "revision_before"]
  /\ view = [s \in Readers |-> NothingRead]

-----------------------------------------------------------------------------
(* Admission: AdmissionController::try_enter and the guard's drop.         *)

MoveRequest(r, from, to) ==
  /\ rpc[r] = from
  /\ rpc' = [rpc EXCEPT ![r] = to]

TryEnter(r) ==
  /\ phase = "Running"
  /\ MoveRequest(r, "idle", "checked")
  /\ UNCHANGED <<shared, mutex, waiting, calls, readers>>

Increment(r) ==
  /\ MoveRequest(r, "checked", IF active < MaxActive THEN "entered" ELSE "idle")
  /\ active' = IF active < MaxActive THEN active + 1 ELSE active
  /\ UNCHANGED <<phase, revision, activity, idlePermit, mutex, waiting, calls, readers>>

\* The fault of admitting on the first read of the phase alone.
RecheckSkipped(r) ==
  /\ MoveRequest(r, "entered", "admitting")
  /\ UNCHANGED <<shared, mutex, waiting, calls, readers>>

Recheck(r) ==
  /\ MoveRequest(r, "entered", IF phase = "Running" THEN "admitting" ELSE "leaving")
  /\ UNCHANGED <<shared, mutex, waiting, calls, readers>>

ObserveActivity ==
  activity' = IF activity < MaxActivity THEN activity + 1 ELSE activity

ObserveAdmission(r) ==
  /\ MoveRequest(r, "admitting", "held")
  /\ ObserveActivity
  /\ UNCHANGED <<phase, active, revision, idlePermit, mutex, waiting, calls, readers>>

\* decrement_active, by the guard's drop or by try_enter's own rollback: the
\* atomic decrement, then observe_activity, then the two notifications.
CheckedDecrement(r) ==
  /\ rpc[r] \in {"held", "leaving"}
  /\ active' = IF active = 0 THEN 0 ELSE active - 1
  /\ rpc' = [rpc EXCEPT ![r] = IF active = 0 THEN "idle"
                               ELSE IF active = 1 THEN "became_zero" ELSE "remaining"]
  /\ UNCHANGED <<phase, revision, activity, idlePermit, mutex, waiting, calls, readers>>

ObserveRelease(r) ==
  /\ rpc[r] \in {"became_zero", "remaining"}
  /\ rpc' = [rpc EXCEPT ![r] = IF rpc[r] = "became_zero" THEN "notify_waiters" ELSE "idle"]
  /\ ObserveActivity
  /\ UNCHANGED <<phase, active, revision, idlePermit, mutex, waiting, calls, readers>>

\* The fault of a waiter that is notified only once it has been polled.
RegisteredWhenParked == {c \in Callers : pc[c] = "parked"}

Registered == {c \in Callers : pc[c] \in {"check", "await", "parked"}}

NotifyWaiters(r) ==
  /\ MoveRequest(r, "notify_waiters", "notify_one")
  /\ woken' = woken \cup Registered
  /\ UNCHANGED <<shared, mutex, unseen, calls, readers>>

NotifyOne(r) ==
  /\ MoveRequest(r, "notify_one", "idle")
  /\ idlePermit' = TRUE
  /\ UNCHANGED <<phase, active, revision, activity, mutex, waiting, calls, readers>>

RequestRuns(r) ==
  \/ Increment(r) \/ Recheck(r) \/ ObserveAdmission(r)
  \/ CheckedDecrement(r) \/ ObserveRelease(r)
  \/ NotifyWaiters(r) \/ NotifyOne(r)

RequestStep(r) == TryEnter(r) \/ RequestRuns(r)

-----------------------------------------------------------------------------
(* publish_phase, run by the holder of the transition mutex.               *)

\* The first step of publish_phase: the revision, then the guarded copy.
Advance(c, target, generation) ==
  /\ revision < MaxRevision
  /\ revision' = revision + 1
  /\ transition' = [phase |-> target, generation |-> generation]
  /\ lock' = c
  /\ pc' = [pc EXCEPT ![c] = "store"]

StorePhase(c) ==
  /\ pc[c] = "store"
  /\ phase' = transition.phase
  /\ pc' = [pc EXCEPT ![c] = "send"]
  /\ UNCHANGED <<active, revision, activity, idlePermit, mutex, waiting, rpc,
                 op, gen, event, result, stopRequested, readers>>

Subscribed == {c \in Callers : pc[c] \in {"check_active", "register", "check", "await", "parked"}}

\* The call of c returns r.  The owner ignores what its own calls return: it
\* goes on to wait for zero active requests and, after request_stop, to the
\* shutdown of the writers.
Return(c, name, r) ==
  /\ result' = [result EXCEPT ![c] = r]
  /\ pc' = [pc EXCEPT ![c] = IF c = Owner /\ name = "begin_drain" THEN "register"
                             ELSE IF c = Owner /\ name = "request_stop" THEN "closed"
                             ELSE "idle"]
  /\ op' = [op EXCEPT ![c] = IF c = Owner /\ name = "begin_drain" THEN "wait_zero" ELSE name]
  /\ stopRequested' = IF c # Owner /\ name = "request_stop" /\ r = "ok"
                      THEN TRUE ELSE stopRequested

\* send_replace, and what the publishing call does next: it returns with the
\* mutex released, waits for the drain it started, or goes on to the check of
\* request_stop with the mutex held.
SendWatch(c) ==
  /\ pc[c] = "send"
  /\ watch' = transition
  /\ unseen' = unseen \cup Subscribed
  /\ \/ /\ op[c] = "begin_drain" /\ transition.phase = "Draining"
        /\ lock' = NoOne
        /\ gen' = [gen EXCEPT ![c] = transition.generation]
        /\ pc' = [pc EXCEPT ![c] = "observe"]
        /\ UNCHANGED <<op, result, stopRequested>>
     \/ /\ op[c] = "request_stop" /\ transition.phase = "Draining"
        /\ pc' = [pc EXCEPT ![c] = "stop_check"]
        /\ UNCHANGED <<lock, gen, op, result, stopRequested>>
     \/ /\ op[c] = "begin_drain" /\ transition.phase = "AwaitingCancellation"
        /\ lock' = NoOne
        /\ Return(c, op[c], "timed_out")
        /\ UNCHANGED gen
     \/ /\ op[c] \in {"mark_running", "cancel_drain", "request_stop"}
        /\ transition.phase # "Draining"
        /\ lock' = NoOne
        /\ Return(c, op[c], "ok")
        /\ UNCHANGED gen
  /\ UNCHANGED <<shared, transition, woken, rpc, event, readers>>

-----------------------------------------------------------------------------
(* The control operations up to their first publication or return.         *)

\* The call fails, or succeeds without a publication: the mutex is free again.
ReturnNow(c, name, r) ==
  /\ Return(c, name, r)
  /\ lock' = NoOne
  /\ UNCHANGED <<shared, watch, waiting, rpc, event, readers>>

\* The call goes on to publish target under the given drain generation.
PublishFrom(c, name, target, generation) ==
  /\ Advance(c, target, generation)
  /\ op' = [op EXCEPT ![c] = name]
  /\ result' = [result EXCEPT ![c] = "none"]
  /\ UNCHANGED <<phase, active, activity, idlePermit, watch, waiting, rpc,
                 gen, event, stopRequested, readers>>

\* publish_phase finds the revision exhausted: what was assigned to the
\* guarded state before the call stays assigned.
PublishRefused(c, name, generation) ==
  /\ revision = MaxRevision
  /\ transition' = [phase |-> transition.phase, generation |-> generation]
  /\ ReturnNow(c, name, "error")
  /\ UNCHANGED gen

\* The call takes the mutex, or keeps it, and goes on at label.
Continue(c, name, label, holder) ==
  /\ lock' = holder
  /\ pc' = [pc EXCEPT ![c] = label]
  /\ op' = [op EXCEPT ![c] = name]
  /\ result' = [result EXCEPT ![c] = "none"]
  /\ UNCHANGED <<shared, transition, watch, waiting, rpc, event, stopRequested, readers>>

MarkRunning ==
  /\ pc[Owner] = "idle" /\ op[Owner] = "none" /\ lock = NoOne
  /\ \/ /\ transition.phase = "Starting"
        /\ PublishFrom(Owner, "mark_running", "Running", transition.generation)
     \/ /\ transition.phase = "Starting"
        /\ PublishRefused(Owner, "mark_running", transition.generation)

\* Running: a new drain generation, whose publication is begin_drain's and
\* request_stop's way out of Running.
LeaveRunning(c, name) ==
  /\ transition.phase = "Running"
  /\ \/ /\ transition.generation < MaxGeneration
        /\ \/ PublishFrom(c, name, "Draining", transition.generation + 1)
           \/ PublishRefused(c, name, transition.generation + 1)
     \/ /\ transition.generation = MaxGeneration
        /\ ReturnNow(c, name, "error")
        /\ UNCHANGED <<transition, gen>>

\* The owner begins its graceful shutdown once, after mark_running: on a
\* signal at any time, or because a stop handler asked for it.
MayCall(c, name) ==
  /\ pc[c] = "idle" /\ lock = NoOne
  /\ IF c = Owner THEN name = "begin_drain" /\ op[c] = "mark_running" ELSE name \in Ops

BeginDrain(c) ==
  /\ MayCall(c, "begin_drain")
  /\ \/ LeaveRunning(c, "begin_drain")
     \/ /\ transition.phase = "Starting"
        /\ ReturnNow(c, "begin_drain", "error")
        /\ UNCHANGED <<transition, gen>>
     \/ /\ transition.phase = "Draining"
        /\ gen' = [gen EXCEPT ![c] = transition.generation]
        /\ Continue(c, "begin_drain", "observe", NoOne)
     \/ /\ transition.phase \in {"AwaitingCancellation", "Stopping"}
        /\ gen' = [gen EXCEPT ![c] = transition.generation]
        /\ ReturnNow(c, "begin_drain",
                     IF transition.phase = "Stopping" \/ active = 0
                     THEN "completed" ELSE "timed_out")
        /\ UNCHANGED transition

CancelDrain(c) ==
  /\ MayCall(c, "cancel_drain")
  /\ \/ /\ transition.phase \in {"Draining", "AwaitingCancellation"}
        /\ \/ PublishFrom(c, "cancel_drain", "Running", transition.generation)
           \/ PublishRefused(c, "cancel_drain", transition.generation)
     \/ /\ transition.phase \notin {"Draining", "AwaitingCancellation"}
        /\ ReturnNow(c, "cancel_drain", "error")
        /\ UNCHANGED <<transition, gen>>

RequestStop(c) ==
  /\ \/ MayCall(c, "request_stop")
     \/ pc[c] = "stop" /\ lock = NoOne
  /\ \/ LeaveRunning(c, "request_stop")
     \/ /\ transition.phase \in {"Starting", "Stopping"}
        /\ ReturnNow(c, "request_stop",
                     IF transition.phase = "Stopping" THEN "ok" ELSE "error")
        /\ UNCHANGED <<transition, gen>>
     \/ /\ transition.phase \in {"Draining", "AwaitingCancellation"}
        /\ Continue(c, "request_stop", "stop_check", c)
        /\ UNCHANGED gen

StopCheck(c) ==
  /\ pc[c] = "stop_check"
  /\ \/ /\ active = 0
        /\ Continue(c, "request_stop", "stop_publish", c)
     \/ /\ active # 0
        /\ ReturnNow(c, "request_stop", "error")
        /\ UNCHANGED transition
  /\ UNCHANGED gen

StopPublish(c) ==
  /\ pc[c] = "stop_publish"
  /\ \/ PublishFrom(c, "request_stop", "Stopping", transition.generation)
     \/ PublishRefused(c, "request_stop", transition.generation)

-----------------------------------------------------------------------------
(* wait_for_drain, wait_for_zero_active and finish_drain_wait.             *)

Go(c, label) == pc' = [pc EXCEPT ![c] = label]

\* The wait of begin_drain ends with e; the receiver and the Notified future
\* are dropped with it.
EndWait(c, e) ==
  /\ Go(c, "finish")
  /\ event' = [event EXCEPT ![c] = e]
  /\ unseen' = unseen \ {c}
  /\ woken' = woken \ {c}

frame == <<shared, mutex, rpc, gen, stopRequested, readers>>

Observe(c) ==
  /\ pc[c] = "observe"
  /\ \/ /\ watch.generation # gen[c] \/ watch.phase = "Running"
        /\ EndWait(c, "cancelled")
     \/ /\ watch.generation = gen[c] /\ watch.phase = "AwaitingCancellation"
        /\ EndWait(c, "timed_out")
     \/ /\ watch.generation = gen[c] /\ watch.phase = "Stopping"
        /\ EndWait(c, "zero_active")
     \/ /\ watch.generation = gen[c] /\ watch.phase = "Draining"
        /\ Go(c, "check_active")
        /\ unseen' = unseen \ {c}
        /\ UNCHANGED <<event, woken>>
  /\ UNCHANGED <<op, result, frame>>

CheckActive(c) ==
  /\ pc[c] = "check_active"
  /\ \/ active = 0 /\ EndWait(c, "zero_active")
     \/ active # 0 /\ Go(c, "register") /\ UNCHANGED <<event, unseen, woken>>
  /\ UNCHANGED <<op, result, frame>>

\* wait_for_zero_active creates its Notified future before it reads active.
Register(c) ==
  /\ pc[c] = "register"
  /\ Go(c, "check")
  /\ woken' = woken \ {c}
  /\ UNCHANGED <<event, unseen, op, result, frame>>

Check(c) ==
  /\ pc[c] = "check"
  /\ \/ /\ active = 0 /\ op[c] = "begin_drain"
        /\ EndWait(c, "zero_active")
     \/ /\ active = 0 /\ op[c] = "wait_zero"
        /\ Go(c, "stop")
        /\ woken' = woken \ {c} /\ unseen' = unseen \ {c}
        /\ UNCHANGED event
     \/ /\ active # 0
        /\ Go(c, "await")
        /\ UNCHANGED <<event, unseen, woken>>
  /\ UNCHANGED <<op, result, frame>>

\* The first poll of the Notified future, some time after the read of active.
Park(c) ==
  /\ pc[c] = "await"
  /\ Go(c, "parked")
  /\ UNCHANGED <<event, waiting, op, result, frame>>

Wake(c) ==
  /\ pc[c] = "parked" /\ c \in woken
  /\ Go(c, "register")
  /\ UNCHANGED <<event, waiting, op, result, frame>>

\* The other branch of the select: the phase watch changed.
Changed(c) ==
  /\ pc[c] \in {"register", "parked"} /\ op[c] = "begin_drain" /\ c \in unseen
  /\ Go(c, "observe")
  /\ woken' = woken \ {c}
  /\ UNCHANGED <<event, unseen, op, result, frame>>

Timeout(c) ==
  /\ pc[c] = "parked" /\ op[c] = "begin_drain"
  /\ EndWait(c, "timed_out")
  /\ UNCHANGED <<op, result, frame>>

\* The client of the drain handler disconnects and its future is dropped.
Abandon(c) ==
  /\ pc[c] = "parked" /\ op[c] = "begin_drain" /\ c # Owner
  /\ Go(c, "idle")
  /\ result' = [result EXCEPT ![c] = "abandoned"]
  /\ unseen' = unseen \ {c} /\ woken' = woken \ {c}
  /\ UNCHANGED <<event, op, frame>>

\* The fault of trusting the event of the wait without comparing generations.
FinishOutcomeStale(c) ==
  IF transition.phase = "Stopping" THEN "completed"
  ELSE IF transition.phase = "Running" \/ event[c] = "cancelled" THEN "cancelled"
  ELSE IF active = 0 \/ event[c] = "zero_active" THEN "completed"
  ELSE "timed_out"

FinishOutcome(c) ==
  IF transition.phase = "Stopping" THEN "completed"
  ELSE IF \/ transition.generation # gen[c]
          \/ transition.phase = "Running"
          \/ event[c] = "cancelled"
       THEN "cancelled"
  ELSE IF active = 0 \/ event[c] = "zero_active" THEN "completed"
  ELSE "timed_out"

FinishDrainWait(c) ==
  /\ pc[c] = "finish" /\ lock = NoOne
  /\ \/ /\ FinishOutcome(c) = "timed_out" /\ transition.phase = "Draining"
        /\ Continue(c, "begin_drain", "await_publish", c)
     \/ /\ FinishOutcome(c) # "timed_out" \/ transition.phase = "AwaitingCancellation"
        /\ ReturnNow(c, "begin_drain", FinishOutcome(c))
        /\ UNCHANGED transition
  /\ UNCHANGED gen

AwaitPublish(c) ==
  /\ pc[c] = "await_publish"
  /\ \/ PublishFrom(c, "begin_drain", "AwaitingCancellation", transition.generation)
     \/ PublishRefused(c, "begin_drain", transition.generation)

\* What a call does once started, and what ends its wait from outside.
CallRuns(c) ==
  \/ StorePhase(c) \/ SendWatch(c)
  \/ StopCheck(c) \/ StopPublish(c)
  \/ pc[c] = "stop" /\ RequestStop(c)
  \/ Observe(c) \/ CheckActive(c) \/ Register(c) \/ Check(c) \/ Park(c) \/ Wake(c) \/ Changed(c)
  \/ FinishDrainWait(c) \/ AwaitPublish(c)

CallStep(c) ==
  \/ BeginDrain(c) \/ CancelDrain(c) \/ RequestStop(c)
  \/ CallRuns(c) \/ Timeout(c) \/ Abandon(c)

-----------------------------------------------------------------------------
(* snapshot(): a read of the pair (phase, active) without the mutex.       *)
(* The count itself is left out of the view: the field was keeps, for the  *)
(* properties only, the phase at the instant active was read.              *)

Read(s, from, to, seen) ==
  /\ spc[s] \in from
  /\ spc' = [spc EXCEPT ![s] = to]
  /\ view' = [view EXCEPT ![s] = seen]
  /\ UNCHANGED <<shared, mutex, waiting, rpc, calls>>

\* The fault of a snapshot that compares the phases but not the revisions.
SnapshotRetriesOnPhaseOnly(s) ==
  \/ Read(s, {"revision_before", "returned"}, "phase_before", Seen(revision, "Starting", "Starting"))
  \/ Read(s, {"phase_before"}, "active", Seen(view[s].revision, phase, "Starting"))
  \/ Read(s, {"active"}, "phase_after", Seen(view[s].revision, view[s].phase, phase))
  \/ phase = view[s].phase /\ Read(s, {"phase_after"}, "revision_after", view[s])
  \/ phase # view[s].phase /\ Read(s, {"phase_after"}, "revision_before", NothingRead)
  \/ Read(s, {"revision_after"}, "returned", view[s])

Snapshot(s) ==
  \/ Read(s, {"revision_before", "returned"}, "phase_before", Seen(revision, "Starting", "Starting"))
  \/ Read(s, {"phase_before"}, "active", Seen(view[s].revision, phase, "Starting"))
  \/ Read(s, {"active"}, "phase_after", Seen(view[s].revision, view[s].phase, phase))
  \/ phase = view[s].phase /\ Read(s, {"phase_after"}, "revision_after", view[s])
  \/ phase # view[s].phase /\ Read(s, {"phase_after"}, "revision_before", NothingRead)
  \/ revision = view[s].revision /\ Read(s, {"revision_after"}, "returned", view[s])
  \/ revision # view[s].revision /\ Read(s, {"revision_after"}, "revision_before", NothingRead)

Next ==
  \/ \E r \in Requests : RequestStep(r)
  \/ MarkRunning
  \/ \E c \in Callers : CallStep(c)
  \/ \E s \in Readers : Snapshot(s)

\* An admitted request ends, every task that can run does run, the owner is
\* started and reacts to the stop handler.  Nobody has to call anything, and
\* no timeout has to fire.  Strong fairness: a call is not kept from the
\* transition mutex for ever, and as a poll of the select polls both of its
\* branches, a watch change is not passed over for ever.
Fairness ==
  /\ \A r \in Requests : WF_vars(RequestRuns(r))
  /\ \A c \in Callers : SF_vars(CallRuns(c)) /\ SF_vars(Changed(c))
  /\ WF_vars(MarkRunning)
  /\ WF_vars(stopRequested /\ BeginDrain(Owner))

Spec == Init /\ [][Next]_vars /\ Fairness

-----------------------------------------------------------------------------
(* Properties.                                                             *)

TypeOK ==
  /\ phase \in Phases /\ active \in 0..MaxActive /\ revision \in 0..MaxRevision
  /\ activity \in 0..MaxActivity /\ idlePermit \in BOOLEAN
  /\ transition \in [phase : Phases, generation : 0..MaxGeneration]
  /\ watch \in [phase : Phases, generation : 0..MaxGeneration]
  /\ lock \in Callers \cup {NoOne}
  /\ unseen \subseteq Callers /\ woken \subseteq Callers
  /\ rpc \in [Requests -> Counting \cup {"idle", "checked", "became_zero", "remaining",
                                         "notify_waiters", "notify_one"}]
  /\ pc \in [Callers -> {"idle", "store", "send", "stop", "stop_check", "stop_publish",
                         "observe", "check_active", "register", "check", "await", "parked",
                         "finish", "await_publish", "closed"}]
  /\ op \in [Callers -> {"none", "mark_running", "begin_drain", "cancel_drain",
                         "request_stop", "wait_zero"}]
  /\ gen \in [Callers -> 0..MaxGeneration]
  /\ event \in [Callers -> {"none", "zero_active", "timed_out", "cancelled"}]
  /\ result \in [Callers -> {"none", "ok", "error", "completed", "timed_out",
                             "cancelled", "abandoned"}]
  /\ stopRequested \in BOOLEAN
  /\ spc \in [Readers -> {"revision_before", "phase_before", "active", "phase_after",
                          "revision_after", "returned"}]
  /\ view \in [Readers -> [revision : 0..MaxRevision, phase : Phases, was : Phases]]

\* active counts exactly the requests between their increment and their
\* decrement, whatever mixture of admissions, rollbacks and drops is running
\* (admission.rs fetch_update / checked_decrement).
ActiveCountsRequests ==
  active = Cardinality({r \in Requests : rpc[r] \in Counting})

\* Once the service is Stopping no request holds a guard: a request that
\* passed the first phase check of try_enter before the drain cannot be
\* admitted after request_stop has read active as zero.
StoppingIsQuiescent == phase = "Stopping" => Admitted = {}

\* A begin_drain call that returned Completed tells the truth, and the answer
\* stays true until the drain of that generation is cancelled.
DrainCompletedIsQuiescent ==
  \A c \in Callers :
    result[c] = "completed" /\ gen[c] = transition.generation /\ phase # "Running"
      => Admitted = {}

\* At the instant begin_drain answers Completed nobody is admitted, also when
\* the drain it waited for was cancelled and another one has begun since its
\* wait ended (finish_drain_wait compares the generations for this).
DrainAnswerIsFresh ==
  [][\A c \in Callers :
       result'[c] = "completed" /\ result[c] # "completed" => Admitted = {}]_vars

\* The owner, who ignores what begin_drain and request_stop return, closes the
\* writers under an admitted request only if its drain was cancelled: the
\* phase is Running again or a later generation has begun (serve.rs
\* prepare_graceful_shutdown).
ShutdownIsQuiescentUnlessCancelled ==
  pc[Owner] = "closed" /\ Admitted # {}
    => phase = "Running" \/ gen[Owner] # transition.generation

\* What the lifecycle says of quiescence is so at every instant: the count is
\* exact, a Stopping service serves nobody, a Completed drain stays quiescent
\* until it is cancelled, and the owner closes the writers under a request
\* only after a cancellation.
QuiescentAnswers ==
  /\ ActiveCountsRequests
  /\ StoppingIsQuiescent
  /\ DrainCompletedIsQuiescent
  /\ ShutdownIsQuiescentUnlessCancelled

\* snapshot() returns a phase and a count that held at the same instant, also
\* when the phase left and came back between the reads (test
\* snapshot_retries_when_phase_returns_through_an_aba_transition).
SnapshotIsAtomic ==
  \A s \in Readers : spc[s] = "returned" => view[s].phase = view[s].was

\* Stopping is final, Starting is never entered again, and a drain is entered
\* only from Running.
PhaseStep ==
  <<phase, phase'>> \in
    {<<"Starting", "Running">>, <<"Running", "Draining">>,
     <<"Draining", "Running">>, <<"AwaitingCancellation", "Running">>,
     <<"Draining", "AwaitingCancellation">>,
     <<"Draining", "Stopping">>, <<"AwaitingCancellation", "Stopping">>}
PhasesFollowTheDiagram == [][PhaseStep]_phase

\* A begin_drain call returns although its timeout never fires: the last
\* request out, or the publication that ends the drain, always wakes it.  And
\* a stop handler that succeeded is followed by the owner's shutdown.
DrainReturns ==
  /\ \A c \in Callers :
       (pc[c] = "parked" /\ op[c] = "begin_drain") ~> (pc[c] = "idle" \/ op[c] = "wait_zero")
  /\ stopRequested ~> (pc[Owner] = "closed")
=============================================================================
