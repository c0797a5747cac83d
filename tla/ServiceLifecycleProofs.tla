----------------------- MODULE ServiceLifecycleProofs -----------------------
(***************************************************************************)
(* Proofs about ServiceLifecycle, for any number of requests, handlers and *)
(* snapshot callers and any width of the counters.                         *)
(*                                                                         *)
(* The argument: active counts the requests between increment and          *)
(* decrement, so a read of zero certifies that nobody is admitted.  While  *)
(* the phase is not Running nobody can become admitted, so the certificate *)
(* stays good until the phase returns to Running; and leaving Running once *)
(* more takes a new generation, which no earlier certificate carries.      *)
(***************************************************************************)
EXTENDS ServiceLifecycle, FiniteSetTheorems, TLAPS

Held == {"store", "send", "stop_check", "stop_publish", "await_publish"}

Diagram ==
  {<<"Starting", "Running">>, <<"Running", "Draining">>,
   <<"Draining", "Running">>, <<"AwaitingCancellation", "Running">>,
   <<"Draining", "AwaitingCancellation">>,
   <<"Draining", "Stopping">>, <<"AwaitingCancellation", "Stopping">>}

\* The mutex is held exactly by the call that is inside a critical section.
LockInv == \A c \in Callers : pc[c] \in Held <=> lock = c

\* Outside publish_phase the atomic phase is the guarded one, and inside it
\* the two are the ends of an edge of the phase diagram.
PhaseInv ==
  /\ (\A c \in Callers : pc[c] # "store") => phase = transition.phase
  /\ \A c \in Callers : pc[c] = "store" => <<phase, transition.phase>> \in Diagram
  /\ \A c \in Callers : pc[c] \in {"stop_check", "stop_publish"} =>
       transition.phase \in {"Draining", "AwaitingCancellation"} /\ op[c] = "request_stop"
  /\ \A c \in Callers : pc[c] = "await_publish" => transition.phase = "Draining"
  /\ watch.phase = "Stopping" => phase = "Stopping"

\* No call waits for a generation that has not begun; while Running is being
\* left, none waits for the generation that is beginning.
GenerationInv ==
  /\ \A c \in Callers : gen[c] <= transition.generation
  /\ \A c, d \in Callers :
       pc[c] = "store" /\ phase = "Running" => gen[d] < transition.generation
  /\ \A c \in Callers : pc[c] \in {"store", "send"} => result[c] = "none"

\* The calls that have seen active = 0 in the generation they carry.
Certified(c) ==
  \/ result[c] = "completed"
  \/ pc[c] = "finish" /\ event[c] = "zero_active"
  \/ c = Owner /\ (pc[c] \in {"stop", "closed"} \/ op[c] = "request_stop")

CertificateInv ==
  /\ \A c \in Callers :
       Certified(c) /\ gen[c] = transition.generation /\ phase # "Running" => Admitted = {}
  /\ \A c \in Callers : pc[c] = "stop_publish" => Admitted = {}
  /\ \A c \in Callers : pc[c] = "store" /\ transition.phase = "Stopping" => Admitted = {}
  /\ phase = "Stopping" => Admitted = {}

IInv ==
  /\ TypeOK
  /\ ActiveCountsRequests
  /\ LockInv
  /\ PhaseInv
  /\ GenerationInv
  /\ CertificateInv

-----------------------------------------------------------------------------
(* Type correctness.                                                       *)

USE DEF Phases, Callers, Counting, Holding

\* Every step of a request task keeps every variable in its type.
LEMMA RequestTypes ==
  ASSUME TypeOK, NEW r \in Requests, RequestStep(r)
  PROVE  TypeOK'
<1> USE ConstantsAssumption DEF TypeOK, shared, mutex, waiting, calls, readers
<1>1. CASE TryEnter(r)
  BY ZenonT(60), <1>1 DEF TryEnter, MoveRequest
<1>2. CASE Increment(r)
  BY SMTT(60), <1>2 DEF Increment, MoveRequest
<1>3. CASE Recheck(r)
  BY SMTT(60), <1>3 DEF Recheck, MoveRequest
<1>4. CASE ObserveAdmission(r)
  BY SMTT(60), <1>4 DEF ObserveAdmission, ObserveActivity, MoveRequest
<1>5. CASE CheckedDecrement(r)
  BY SMTT(60), <1>5 DEF CheckedDecrement
<1>6. CASE ObserveRelease(r)
  BY SMTT(60), <1>6 DEF ObserveRelease, ObserveActivity
<1>7. CASE NotifyWaiters(r)
  BY SMTT(60), <1>7 DEF NotifyWaiters, MoveRequest, Registered
<1>8. CASE NotifyOne(r)
  BY ZenonT(60), <1>8 DEF NotifyOne, MoveRequest
<1> QED
  BY ZenonT(60), <1>1, <1>2, <1>3, <1>4, <1>5, <1>6, <1>7, <1>8 DEF RequestStep, RequestRuns
CallTypesOK ==
  /\ pc \in [Callers -> {"idle", "store", "send", "stop", "stop_check", "stop_publish",
                         "observe", "check_active", "register", "check", "await", "parked",
                         "finish", "await_publish", "closed"}]
  /\ op \in [Callers -> {"none", "mark_running", "begin_drain", "cancel_drain",
                         "request_stop", "wait_zero"}]
  /\ result \in [Callers -> {"none", "ok", "error", "completed", "timed_out",
                             "cancelled", "abandoned"}]
  /\ stopRequested \in BOOLEAN

\* What a return assigns is in its type.
LEMMA ReturnTypes ==
  ASSUME TypeOK, NEW c \in Callers,
         NEW name \in {"mark_running", "begin_drain", "cancel_drain", "request_stop"},
         NEW r \in {"ok", "error", "completed", "timed_out", "cancelled"},
         Return(c, name, r)
  PROVE  CallTypesOK'
  BY ZenonT(60) DEF TypeOK, CallTypesOK, Return

\* Every step of a control call keeps every variable in its type.
LEMMA CallTypes ==
  ASSUME TypeOK, NEW c \in Callers, CallStep(c)
  PROVE  TypeOK'
<1> USE ConstantsAssumption DEF TypeOK, shared, mutex, waiting, calls, readers
<1>1. CASE StorePhase(c)
  BY ZenonT(60), <1>1 DEF StorePhase
<1>2. CASE SendWatch(c)
  <2>1. CASE op[c] = "begin_drain" /\ transition.phase = "Draining"
    BY SMTT(60), <1>2, <2>1 DEF SendWatch, Subscribed
  <2>2. CASE op[c] = "request_stop" /\ transition.phase = "Draining"
    BY SMTT(60), <1>2, <2>2 DEF SendWatch, Subscribed
  <2>3. CASE transition.phase # "Draining"
    <3>1. \E r \in {"ok", "timed_out"} : Return(c, op[c], r)
      BY ZenonT(60), <1>2, <2>3 DEF SendWatch
    <3>2. op[c] \in {"mark_running", "begin_drain", "cancel_drain", "request_stop"}
      BY ZenonT(60), <1>2, <2>3 DEF SendWatch
    <3>3. CallTypesOK'
      BY SMTT(60), <3>1, <3>2, ReturnTypes
    <3> QED
      BY SMTT(60), <1>2, <2>3, <3>3 DEF SendWatch, Subscribed, CallTypesOK
  <2> QED
    BY ZenonT(60), <1>2, <2>1, <2>2, <2>3 DEF SendWatch
<1>3. CASE StopCheck(c)
  BY SMTT(60), <1>3 DEF StopCheck, Continue, ReturnNow, Return
<1>4. CASE StopPublish(c)
  BY SMTT(60), <1>4 DEF StopPublish, ReturnNow, PublishFrom, PublishRefused, Advance, Return
<1>5. CASE BeginDrain(c)
  BY SMTT(60), <1>5 DEF BeginDrain, MayCall, LeaveRunning, Continue, ReturnNow,
     PublishFrom, PublishRefused, Advance, Return
<1>6. CASE CancelDrain(c)
  BY SMTT(60), <1>6 DEF CancelDrain, MayCall, ReturnNow, PublishFrom, PublishRefused,
     Advance, Return
<1>7. CASE RequestStop(c)
  <2>1. CASE LeaveRunning(c, "request_stop")
    BY SMTT(60), <2>1 DEF LeaveRunning, ReturnNow, PublishFrom, PublishRefused, Advance,
       Return
  <2>2. CASE ~ LeaveRunning(c, "request_stop")
    <3>1. CASE \E r \in {"ok", "error"} :
                 ReturnNow(c, "request_stop", r) /\ UNCHANGED <<transition, gen>>
      BY SMTT(60), <3>1, ReturnTypes DEF ReturnNow, CallTypesOK
    <3>2. CASE Continue(c, "request_stop", "stop_check", c) /\ UNCHANGED gen
      BY SMTT(60), <3>2 DEF Continue
    <3> QED
      BY ZenonT(60), <1>7, <2>2, <3>1, <3>2 DEF RequestStop
  <2> QED
    BY ZenonT(60), <2>1, <2>2
<1>8. CASE Observe(c)
  BY SMTT(60), <1>8 DEF Observe, EndWait, Go, frame
<1>9. CASE CheckActive(c)
  BY SMTT(60), <1>9 DEF CheckActive, EndWait, Go, frame
<1>10. CASE Register(c)
  BY SMTT(60), <1>10 DEF Register, Go, frame
<1>11. CASE Check(c)
  BY SMTT(60), <1>11 DEF Check, EndWait, Go, frame
<1>12. CASE Park(c) \/ Wake(c)
  BY SMTT(60), <1>12 DEF Park, Wake, Go, frame
<1>13. CASE Changed(c)
  BY SMTT(60), <1>13 DEF Changed, Go, frame
<1>14. CASE Timeout(c)
  BY SMTT(60), <1>14 DEF Timeout, EndWait, Go, frame
<1>15. CASE Abandon(c)
  BY SMTT(60), <1>15 DEF Abandon, Go, frame
<1>16. CASE FinishDrainWait(c)
  BY SMTT(60), <1>16 DEF FinishDrainWait, FinishOutcome, Continue, ReturnNow, Return
<1>17. CASE AwaitPublish(c)
  BY SMTT(60), <1>17 DEF AwaitPublish, ReturnNow, PublishFrom, PublishRefused, Advance,
     Return
<1> QED
  BY ZenonT(60), <1>1, <1>2, <1>3, <1>4, <1>5, <1>6, <1>7, <1>8, <1>9, <1>10, <1>11, <1>12,
     <1>13, <1>14, <1>15, <1>16, <1>17 DEF CallStep, CallRuns

\* Where a snapshot is and what it has read.
ReaderSteps == {"revision_before", "phase_before", "active", "phase_after", "revision_after", "returned"}
Views == [revision : 0..MaxRevision, phase : Phases, was : Phases]

\* The variables of the model stay in their types in every step.
LEMMA TypesStep ==
  TypeOK /\ [Next]_vars => TypeOK'
<1> SUFFICES ASSUME TypeOK, [Next]_vars PROVE TypeOK'
  BY ZenonT(60)
<1>1. CASE \E r \in Requests : RequestStep(r)
  BY ZenonT(60), <1>1, RequestTypes
<1>2. CASE MarkRunning
  BY SMTT(60), <1>2, ConstantsAssumption
  DEF MarkRunning, ReturnNow, PublishFrom, PublishRefused, Advance, Return,
      TypeOK, shared, mutex, waiting, calls, readers
<1>3. CASE \E c \in Callers : CallStep(c)
  BY ZenonT(60), <1>3, CallTypes
<1>4. CASE \E s \in Readers : Snapshot(s)
  <2>1. PICK s \in Readers : Snapshot(s)
    BY ZenonT(60), <1>4
  <2>2. PICK from, to, seen : Read(s, from, to, seen) /\ to \in ReaderSteps /\ seen \in Views
    <3>1. /\ revision \in 0..MaxRevision /\ phase \in Phases /\ view[s] \in Views
          /\ view[s].revision \in 0..MaxRevision /\ view[s].phase \in Phases
          /\ view[s].was \in Phases
      BY ZenonT(60) DEF TypeOK, Views
    <3>2. \A r \in 0..MaxRevision : \A p, w \in Phases : Seen(r, p, w) \in Views
      BY ZenonT(60) DEF Seen, Views
    <3>3. {"phase_before", "active", "phase_after", "revision_after", "revision_before",
           "returned"} \subseteq ReaderSteps
      BY ZenonT(60) DEF ReaderSteps
    <3>4. "Starting" \in Phases /\ NothingRead \in Views
      BY SMTT(60), <3>2, ConstantsAssumption DEF Phases, NothingRead
    <3> HIDE DEF Phases
    <3> QED
      BY <2>1, <3>1, <3>2, <3>3, <3>4, ZenonT(60) DEF Snapshot
  <2>3. spc' \in [Readers -> ReaderSteps] /\ view' \in [Readers -> Views]
    BY ZenonT(60), <2>2 DEF Read, TypeOK, ReaderSteps, Views
  <2>4. UNCHANGED <<shared, mutex, waiting, rpc, calls>>
    BY ZenonT(60), <2>2 DEF Read
  <2> QED
    BY SMTT(60), <2>3, <2>4 DEF TypeOK, ReaderSteps, Views, shared, mutex, waiting, calls
<1>5. CASE UNCHANGED vars
  BY SMTT(60), <1>5 DEF vars, TypeOK, shared, mutex, waiting, calls, readers
<1> QED
  BY ZenonT(60), <1>1, <1>2, <1>3, <1>4, <1>5 DEF Next

-----------------------------------------------------------------------------
(* active counts the requests that have incremented it.                    *)

Counted == {r \in Requests : rpc[r] \in Counting}

\* A read of zero active requests means that nobody is admitted.
LEMMA ZeroMeansNobody ==
  ASSUME TypeOK, ActiveCountsRequests, active = 0
  PROVE  Admitted = {} /\ Counted = {}
<1>1. IsFiniteSet(Counted)
  BY ZenonT(60), FS_Subset, ConstantsAssumption DEF Counted
<1>2. Cardinality(Counted) = 0
  BY ZenonT(60) DEF ActiveCountsRequests, Counted
<1>3. Counted = {}
  BY ZenonT(60), <1>1, <1>2, FS_EmptySet
<1> QED
  BY ZenonT(60), <1>3 DEF Counted, Admitted

\* Steps of anything but requests leave the count and the counted alone.
LEMMA CountStep ==
  ASSUME TypeOK, ActiveCountsRequests, [Next]_vars
  PROVE  ActiveCountsRequests'
<1> USE DEF shared, mutex, waiting, calls, readers
<1>1. IsFiniteSet(Counted) /\ active = Cardinality(Counted)
  BY ZenonT(60), FS_Subset, ConstantsAssumption DEF Counted, ActiveCountsRequests
<1>2. (Counted' = Counted /\ active' = active) => ActiveCountsRequests'
  BY ZenonT(60), <1>1 DEF Counted, ActiveCountsRequests
<1>3. ASSUME NEW r \in Requests, RequestStep(r) PROVE ActiveCountsRequests'
  <2>1. CASE Increment(r)
    <3>1. CASE active < MaxActive
      <4>1. Counted' = Counted \cup {r} /\ r \notin Counted
        BY ZenonT(60), <2>1, <3>1 DEF Increment, MoveRequest, TypeOK, Counted
      <4>2. Cardinality(Counted') = Cardinality(Counted) + 1
        BY ZenonT(60), <1>1, <4>1, FS_AddElement
      <4> QED
        BY ZenonT(60), <1>1, <2>1, <3>1, <4>2 DEF Increment, ActiveCountsRequests, Counted
    <3>2. CASE ~ (active < MaxActive)
      BY ZenonT(60), <1>2, <2>1, <3>2 DEF Increment, MoveRequest, TypeOK, Counted
    <3> QED
      BY ZenonT(60), <3>1, <3>2
  <2>2. CASE CheckedDecrement(r)
    <3>1. r \in Counted /\ active # 0
      BY ZenonT(60), <2>2, ZeroMeansNobody DEF CheckedDecrement, Counted
    <3>2. Counted' = Counted \ {r}
      BY ZenonT(60), <2>2, <3>1 DEF CheckedDecrement, TypeOK, Counted
    <3>3. Cardinality(Counted') = Cardinality(Counted) - 1
      BY ZenonT(60), <1>1, <3>1, <3>2, FS_RemoveElement
    <3> QED
      BY ZenonT(60), <1>1, <2>2, <3>1, <3>3 DEF CheckedDecrement, ActiveCountsRequests,
         Counted
  <2>3. CASE Recheck(r) \/ ObserveAdmission(r)
    BY ZenonT(60), <1>2, <2>3 DEF Recheck, ObserveAdmission, MoveRequest, TypeOK, Counted
  <2>4. CASE TryEnter(r) \/ ObserveRelease(r) \/ NotifyWaiters(r) \/ NotifyOne(r)
    BY SMTT(60), <1>2, <2>4
    DEF TryEnter, ObserveRelease, NotifyWaiters, NotifyOne, MoveRequest, TypeOK, Counted
  <2> QED
    BY ZenonT(60), <1>3, <2>1, <2>2, <2>3, <2>4 DEF RequestStep, RequestRuns
<1>4. ASSUME NEW c \in Callers, CallStep(c) PROVE UNCHANGED <<rpc, active>>
  <2>1. CASE StorePhase(c) \/ SendWatch(c) \/ StopCheck(c) \/ StopPublish(c)
    BY ZenonT(60), <2>1 DEF StorePhase, SendWatch, StopCheck, StopPublish, Continue,
       ReturnNow,
                PublishFrom, PublishRefused
  <2>2. CASE BeginDrain(c) \/ CancelDrain(c) \/ RequestStop(c)
    BY ZenonT(60), <2>2 DEF BeginDrain, CancelDrain, RequestStop, LeaveRunning, Continue,
       ReturnNow,
                PublishFrom, PublishRefused
  <2>3. CASE FinishDrainWait(c) \/ AwaitPublish(c)
    BY ZenonT(60), <2>3 DEF FinishDrainWait, AwaitPublish, Continue, ReturnNow,
       PublishFrom, PublishRefused
  <2>4. CASE \/ Observe(c) \/ CheckActive(c) \/ Register(c) \/ Check(c) \/ Park(c)
             \/ Wake(c) \/ Changed(c) \/ Timeout(c) \/ Abandon(c)
    BY ZenonT(60), <2>4 DEF Observe, CheckActive, Register, Check, Park, Wake, Changed,
       Timeout, Abandon, frame
  <2> QED
    BY ZenonT(60), <1>4, <2>1, <2>2, <2>3, <2>4 DEF CallStep, CallRuns
<1>5. CASE MarkRunning
  BY ZenonT(60), <1>2, <1>5 DEF MarkRunning, PublishFrom, PublishRefused, ReturnNow, Counted
<1>6. CASE \E s \in Readers : Snapshot(s)
  BY ZenonT(60), <1>2, <1>6 DEF Snapshot, Read, Counted
<1>7. CASE UNCHANGED vars
  BY ZenonT(60), <1>2, <1>7 DEF vars, Counted
<1> QED
  BY ZenonT(60), <1>2, <1>3, <1>4, <1>5, <1>6, <1>7 DEF Next, Counted

-----------------------------------------------------------------------------
(* The certificates.                                                       *)

Core == LockInv /\ PhaseInv /\ GenerationInv /\ CertificateInv

\* With the mutex free nobody is inside publish_phase, and the atomic phase is
\* the guarded one.
LEMMA FreeMutex ==
  ASSUME LockInv, PhaseInv, lock = NoOne
  PROVE  phase = transition.phase /\ \A c \in Callers : pc[c] \notin Held
  BY ZenonT(60), ConstantsAssumption DEF LockInv, PhaseInv, Held

\* The holder of the mutex is alone in its critical section.
LEMMA OneHolder ==
  ASSUME LockInv, NEW c \in Callers, pc[c] \in Held
  PROVE  lock = c /\ \A d \in Callers : pc[d] \in Held => d = c
  BY ZenonT(60) DEF LockInv

\* Requests move only while they are not needed to stand still: outside Running
\* none becomes admitted.
LEMMA RequestCore ==
  ASSUME IInv, NEW r \in Requests, RequestStep(r)
  PROVE  Core'
<1> USE DEF shared, mutex, waiting, calls, readers
<1>1. UNCHANGED <<phase, transition, watch, lock, pc, op, gen, event, result>>
  BY ZenonT(60) DEF RequestStep, RequestRuns, TryEnter, Increment, Recheck,
     ObserveAdmission,
         CheckedDecrement, ObserveRelease, NotifyWaiters, NotifyOne
<1>2. LockInv' /\ PhaseInv' /\ GenerationInv'
  BY ZenonT(60), <1>1 DEF IInv, LockInv, PhaseInv, GenerationInv
<1>3. phase # "Running" => Admitted' \subseteq Admitted
  BY SMTT(60) DEF IInv, TypeOK, RequestStep, RequestRuns, TryEnter, Increment, Recheck,
     ObserveAdmission,
         CheckedDecrement, ObserveRelease, NotifyWaiters, NotifyOne, MoveRequest, Admitted
<1>4. ASSUME NEW c \in Callers,
             \/ pc[c] = "stop_publish"
             \/ pc[c] = "store" /\ transition.phase = "Stopping"
      PROVE  phase # "Running"
  BY ZenonT(60), <1>4, OneHolder DEF IInv, PhaseInv, Diagram, Held
<1>5. CertificateInv'
  BY ZenonT(60), <1>1, <1>3, <1>4 DEF IInv, CertificateInv, Certified
<1> QED
  BY ZenonT(60), <1>2, <1>5 DEF Core

-----------------------------------------------------------------------------
(* The shapes of the steps of a call.  One call moves; what it does to the *)
(* mutex and to the guarded state decides which invariants it can disturb. *)

HIDE DEF Phases, Callers, Counting, Holding

\* A step of c changes the fields of c only, and no request.
Alone(c) ==
  /\ rpc' = rpc
  /\ \A d \in Callers : d # c =>
       /\ pc'[d] = pc[d] /\ op'[d] = op[d] /\ gen'[d] = gen[d]
       /\ event'[d] = event[d] /\ result'[d] = result[d]

\* The fields of the calls are functions on the callers, and generations are
\* numbers.
Fields ==
  /\ DOMAIN pc = Callers /\ DOMAIN op = Callers /\ DOMAIN gen = Callers
  /\ DOMAIN event = Callers /\ DOMAIN result = Callers
Generations ==
  /\ transition.generation \in Int
  /\ \A d \in Callers : gen[d] \in Int

LEMMA FieldTypes == TypeOK => Fields /\ Generations
<1> SUFFICES ASSUME TypeOK PROVE Fields /\ Generations
  BY ZenonT(60)
<1>1. Fields
  BY ZenonT(60) DEF TypeOK, Fields
<1>2. transition \in [phase : Phases, generation : 0..MaxGeneration]
      /\ gen \in [Callers -> 0..MaxGeneration]
  BY ZenonT(60) DEF TypeOK
<1> QED
  BY SMTT(60), <1>1, <1>2 DEF Generations

\* A step of a wait: it touches neither the mutex nor what the mutex guards.
LEMMA WaitCore ==
  ASSUME Core, NEW c \in Callers, Alone(c),
         UNCHANGED <<phase, transition, watch, lock>>, gen'[c] = gen[c],
         pc[c] \notin Held, pc'[c] \notin Held,
         Certified(c)' => Certified(c) \/ Admitted = {}
  PROVE  Core'
<1>1. LockInv'
  BY ZenonT(60) DEF Core, LockInv, Alone
<1>2. PhaseInv'
  BY ZenonT(60) DEF Core, PhaseInv, Alone, Held
<1>3. GenerationInv'
  BY ZenonT(60) DEF Core, GenerationInv, Alone, Held
<1>4. \A d \in Callers : d # c => (Certified(d)' <=> Certified(d))
  BY ZenonT(60) DEF Alone, Certified
<1>5. CertificateInv'
  BY ZenonT(60), <1>4 DEF Core, CertificateInv, Alone, Held, Admitted
<1> QED
  BY ZenonT(60), <1>1, <1>2, <1>3, <1>5 DEF Core

\* Nobody but c is inside a critical section that c can enter or is in, and
\* outside publish_phase the two copies of the phase agree.
LEMMA Sole ==
  ASSUME Core, NEW c \in Callers, lock = NoOne \/ lock = c, pc[c] # "store"
  PROVE  /\ phase = transition.phase
         /\ \A d \in Callers : d # c => pc[d] \notin Held
<1>1. \A d \in Callers : d # c => pc[d] \notin Held
  BY ZenonT(60), ConstantsAssumption DEF Core, LockInv
<1>2. \A d \in Callers : pc[d] # "store"
  BY ZenonT(60), <1>1 DEF Held
<1> QED
  BY ZenonT(60), <1>1, <1>2 DEF Core, PhaseInv

\* A step that leaves the mutex free: a call that returns, or a begin_drain
\* that goes on to wait.
Releases(c) ==
  /\ Alone(c) /\ phase' = phase /\ (watch' = watch \/ watch' = transition)
  /\ (lock = NoOne \/ lock = c) /\ pc[c] # "store" /\ lock' = NoOne /\ pc'[c] \notin Held
  /\ transition'.phase = transition.phase /\ transition'.generation \in Int
  /\ transition'.generation >= transition.generation
  /\ gen'[c] \in Int /\ gen'[c] <= transition'.generation
  /\ Certified(c)' /\ gen'[c] = transition'.generation /\ phase # "Running"
       => Admitted = {}

LEMMA ReleaseCore ==
  ASSUME Core, Generations, NEW c \in Callers, Releases(c)
  PROVE  Core'
<1> USE DEF Releases
<1>1. phase = transition.phase /\ \A d \in Callers : d # c => pc[d] \notin Held
  BY ZenonT(60), Sole
<1>2. \A d \in Callers : pc'[d] \notin Held
  BY ZenonT(60), <1>1 DEF Alone
<1>3. LockInv'
  BY ZenonT(60), <1>2, ConstantsAssumption DEF LockInv
<1>4. PhaseInv'
  BY ZenonT(60), <1>1, <1>2 DEF Core, PhaseInv, Held
<1>5. GenerationInv'
  <2>1. ASSUME NEW d \in Callers, d # c PROVE gen'[d] <= transition'.generation
    <3>1. gen'[d] = gen[d] /\ gen[d] <= transition.generation /\ gen[d] \in Int
      BY ZenonT(60), <2>1 DEF Core, GenerationInv, Alone, Generations
    <3> QED
      BY SMTT(60), <3>1 DEF Generations
  <2>2. \A d \in Callers : gen'[d] <= transition'.generation
    BY ZenonT(60), <2>1
  <2> QED
    BY ZenonT(60), <1>2, <2>2 DEF GenerationInv, Held
<1>6. \A d \in Callers : d # c => (Certified(d)' <=> Certified(d))
  BY ZenonT(60) DEF Alone, Certified
<1>7. \A d \in Callers : d # c /\ gen'[d] = transition'.generation
                           => gen[d] = transition.generation
  BY SMTT(60) DEF Core, GenerationInv, Alone, Generations
<1>8. CertificateInv'
  BY ZenonT(60), <1>2, <1>6, <1>7 DEF Core, CertificateInv, Alone, Held, Admitted
<1> QED
  BY ZenonT(60), <1>3, <1>4, <1>5, <1>8 DEF Core

\* A step that goes on inside the critical section, before a publication.
Keeps(c) ==
  /\ Alone(c) /\ phase' = phase /\ transition' = transition
  /\ (watch' = watch \/ watch' = transition) /\ gen'[c] = gen[c]
  /\ (lock = NoOne \/ lock = c) /\ pc[c] # "store" /\ lock' = c
  /\ \/ /\ pc'[c] \in {"stop_check", "stop_publish"} /\ op'[c] = "request_stop"
        /\ transition.phase \in {"Draining", "AwaitingCancellation"}
     \/ pc'[c] = "await_publish" /\ transition.phase = "Draining"
  /\ pc'[c] = "stop_publish" => Admitted = {}
  /\ Certified(c)' => Certified(c) \/ Admitted = {}

LEMMA KeepCore ==
  ASSUME Core, NEW c \in Callers, Keeps(c)
  PROVE  Core'
<1> USE DEF Keeps
<1>1. phase = transition.phase /\ \A d \in Callers : d # c => pc[d] \notin Held
  BY ZenonT(60), Sole
<1>2. /\ pc'[c] \in Held /\ pc'[c] \notin {"store", "send"}
      /\ \A d \in Callers : d # c => pc'[d] \notin Held
  BY ZenonT(60), <1>1 DEF Alone, Held
<1>3. LockInv'
  BY ZenonT(60), <1>2 DEF LockInv
<1>4. PhaseInv'
  BY ZenonT(60), <1>1, <1>2 DEF Core, PhaseInv, Held
<1>5. GenerationInv'
  BY ZenonT(60), <1>2 DEF Core, GenerationInv, Alone, Held
<1>6. \A d \in Callers : d # c => (Certified(d)' <=> Certified(d))
  BY ZenonT(60) DEF Alone, Certified
<1>7. CertificateInv'
  BY ZenonT(60), <1>2, <1>6 DEF Core, CertificateInv, Alone, Held, Admitted
<1> QED
  BY ZenonT(60), <1>3, <1>4, <1>5, <1>7 DEF Core

\* The first step of publish_phase: an edge of the diagram, and out of Running
\* a new generation.
Advances(c) ==
  /\ Alone(c) /\ phase' = phase /\ watch' = watch /\ gen'[c] = gen[c]
  /\ (lock = NoOne \/ lock = c) /\ pc[c] # "store"
  /\ lock' = c /\ pc'[c] = "store" /\ result'[c] = "none"
  /\ <<phase, transition'.phase>> \in Diagram /\ transition'.generation \in Int
  /\ transition'.generation >= transition.generation
  /\ phase = "Running" => transition'.generation > transition.generation
  /\ transition'.phase = "Stopping" => Admitted = {}
  /\ Certified(c)' => Certified(c)

LEMMA AdvanceCore ==
  ASSUME Core, Generations, NEW c \in Callers, Advances(c)
  PROVE  Core'
<1> USE DEF Advances
<1>1. phase = transition.phase /\ \A d \in Callers : d # c => pc[d] \notin Held
  BY ZenonT(60), Sole
<1>2. pc'[c] \in Held /\ \A d \in Callers : d # c => pc'[d] \notin Held
  BY ZenonT(60), <1>1 DEF Alone, Held
<1>3. LockInv'
  BY ZenonT(60), <1>2 DEF LockInv
<1>4. PhaseInv'
  BY ZenonT(60), <1>1, <1>2 DEF Core, PhaseInv, Held
<1>5. GenerationInv'
  <2>a. transition.generation \in Int /\ transition'.generation \in Int
        /\ transition'.generation >= transition.generation
        /\ (phase = "Running" => transition'.generation > transition.generation)
    BY ZenonT(60) DEF Generations
  <2>b. \A d \in Callers : gen'[d] = gen[d]
    BY ZenonT(60) DEF Alone
  <2>c. \A d \in Callers : gen[d] \in Int /\ gen[d] <= transition.generation
    BY ZenonT(60) DEF Core, GenerationInv, Generations
  <2> HIDE DEF Advances
  <2>1. \A d \in Callers : gen'[d] = gen[d] /\ gen'[d] <= transition'.generation
    BY SMTT(60), <2>a, <2>b, <2>c
  <2>2. phase = "Running" => \A d \in Callers : gen'[d] < transition'.generation
    BY SMTT(60), <2>a, <2>b, <2>c
  <2> USE DEF Advances
  <2> QED
    BY ZenonT(60), <1>2, <2>1, <2>2 DEF GenerationInv, Held
<1>6. \A d \in Callers : Certified(d)' => Certified(d)
  BY ZenonT(60) DEF Alone, Certified
<1>7. \A d \in Callers : gen'[d] = transition'.generation => gen[d] = transition.generation
  BY SMTT(60) DEF Core, GenerationInv, Alone, Generations
<1>8. CertificateInv'
  BY ZenonT(60), <1>2, <1>6, <1>7 DEF Core, CertificateInv, Alone, Held, Admitted
<1> QED
  BY ZenonT(60), <1>3, <1>4, <1>5, <1>8 DEF Core

\* The store of the phase, with the certificates re-read in the new phase.
LEMMA StoreCore ==
  ASSUME IInv, NEW c \in Callers, StorePhase(c)
  PROVE  Core'
<1> USE DEF shared, mutex, waiting, calls, readers
<1>a. Core /\ Fields /\ Generations
  BY ZenonT(60), FieldTypes DEF IInv, Core
<1>b. /\ pc[c] = "store" /\ pc'[c] = "send" /\ phase' = transition.phase /\ Alone(c)
      /\ UNCHANGED <<transition, watch, lock, op, gen, event, result>>
  BY ZenonT(60), <1>a DEF StorePhase, Alone, Fields
<1>1. \A d \in Callers : d # c => pc[d] \notin Held /\ pc'[d] = pc[d]
  BY SMTT(60), <1>a, <1>b DEF Core, LockInv, Held, Alone
<1>2. LockInv'
  BY ZenonT(60), <1>a, <1>b, <1>1 DEF Core, LockInv, Held
<1>3. PhaseInv'
  BY ZenonT(60), <1>a, <1>b, <1>1 DEF Core, PhaseInv, Held, Diagram
<1>4. GenerationInv'
  BY ZenonT(60), <1>a, <1>b, <1>1 DEF Core, GenerationInv, Held
<1>5. \A d \in Callers : Certified(d)' => Certified(d)
  BY ZenonT(60), <1>b, <1>1 DEF Certified
<1>6. phase = "Running" => \A d \in Callers : gen[d] # transition.generation
  BY SMTT(60), <1>a, <1>b DEF Core, GenerationInv, Generations
<1>7. CertificateInv'
  BY ZenonT(60), <1>a, <1>b, <1>1, <1>5, <1>6 DEF Core, CertificateInv, PhaseInv, Diagram,
     Held, Admitted, Alone
<1> QED
  BY ZenonT(60), <1>2, <1>3, <1>4, <1>7 DEF Core

\* What a return does to the call that returns.
LEMMA ReturnEffect ==
  ASSUME Fields, NEW c \in Callers, NEW name, NEW r, Return(c, name, r)
  PROVE  /\ result'[c] = r
         /\ pc'[c] \in {"idle", "register", "closed"}
         /\ c = Owner /\ (pc'[c] = "closed" \/ op'[c] = "request_stop") => name = "request_stop"
         /\ \A d \in Callers : d # c =>
              result'[d] = result[d] /\ pc'[d] = pc[d] /\ op'[d] = op[d]
<1>1. result'[c] = r /\ \A d \in Callers : d # c => result'[d] = result[d]
  BY ZenonT(60) DEF Return, Fields
<1>2. pc'[c] \in {"idle", "register", "closed"} /\ \A d \in Callers : d # c => pc'[d] = pc[d]
  BY ZenonT(60) DEF Return, Fields
<1>3. c = Owner /\ pc'[c] = "closed" => name = "request_stop"
  BY ZenonT(60) DEF Return, Fields
<1>4. c = Owner /\ op'[c] = "request_stop" => name = "request_stop"
  BY ZenonT(60) DEF Return, Fields
<1>5. \A d \in Callers : d # c => op'[d] = op[d]
  BY ZenonT(60) DEF Return, Fields
<1> QED
  BY ZenonT(60), <1>1, <1>2, <1>3, <1>4, <1>5

\* A publication by c that starts outside publish_phase.
MayPublish(c, name, target, generation) ==
  /\ generation \in Int /\ (lock = NoOne \/ lock = c) /\ pc[c] # "store"
  /\ <<transition.phase, target>> \in Diagram /\ generation >= transition.generation
  /\ transition.phase = "Running" => generation > transition.generation
  /\ target = "Stopping" => Admitted = {}
  /\ c = Owner /\ name = "request_stop" => Certified(c)

LEMMA PublishCore ==
  ASSUME IInv, NEW c \in Callers, NEW name, NEW target, NEW generation,
         PublishFrom(c, name, target, generation), MayPublish(c, name, target, generation)
  PROVE  Core'
<1> USE DEF MayPublish
<1>a. Core /\ Fields /\ Generations
  BY ZenonT(60), FieldTypes DEF IInv, Core
<1>1. phase = transition.phase
  BY ZenonT(60), <1>a, Sole
<1>2. Alone(c) /\ pc'[c] = "store" /\ result'[c] = "none" /\ op'[c] = name
  BY ZenonT(60), <1>a DEF PublishFrom, Advance, Alone, Fields
<1>3. /\ UNCHANGED <<phase, watch, gen, event>> /\ lock' = c
      /\ transition'.phase = target /\ transition'.generation = generation
  BY ZenonT(60) DEF PublishFrom, Advance
<1>4. Certified(c)' => Certified(c)
  BY ZenonT(60), <1>2, <1>3 DEF Certified
<1>5. Advances(c)
  BY ZenonT(60), <1>1, <1>2, <1>3, <1>4 DEF Advances
<1> HIDE DEF MayPublish
<1> QED
  BY ZenonT(60), <1>a, <1>5, AdvanceCore

\* A call of c that returns outside publish_phase, whatever it has assigned to
\* the drain generation and to gen before.
MayReturn(c, name, r) ==
  /\ (lock = NoOne \/ lock = c) /\ pc[c] # "store"
  /\ transition'.phase = transition.phase /\ transition'.generation \in Int
  /\ transition'.generation >= transition.generation
  /\ (gen' = gen \/ gen' = [gen EXCEPT ![c] = transition'.generation])
  /\ r = "completed" => Admitted = {}
  /\ c = Owner /\ name = "request_stop" => Certified(c) /\ gen' = gen

LEMMA ReturnCore ==
  ASSUME IInv, NEW c \in Callers, NEW name, NEW r, ReturnNow(c, name, r),
         MayReturn(c, name, r)
  PROVE  Core'
<1> USE DEF shared, mutex, waiting, calls, readers, MayReturn
<1>a. Core /\ Fields /\ Generations
  BY ZenonT(60), FieldTypes DEF IInv, Core
<1>1. /\ result'[c] = r /\ pc'[c] \in {"idle", "register", "closed"}
      /\ c = Owner /\ (pc'[c] = "closed" \/ op'[c] = "request_stop") => name = "request_stop"
      /\ \A d \in Callers : d # c =>
           result'[d] = result[d] /\ pc'[d] = pc[d] /\ op'[d] = op[d]
  BY SMTT(60), <1>a, ReturnEffect DEF ReturnNow
<1>2. UNCHANGED <<phase, watch, rpc, event>> /\ lock' = NoOne
  BY ZenonT(60) DEF ReturnNow
<1>3. \A d \in Callers : d # c => gen'[d] = gen[d]
  BY ZenonT(60), <1>a DEF Fields
<1>4. gen'[c] \in Int /\ gen'[c] <= transition'.generation
  BY SMTT(60), <1>a DEF Fields, Generations, Core, GenerationInv
<1>5. Alone(c)
  BY ZenonT(60), <1>1, <1>2, <1>3 DEF Alone
<1>6. Certified(c)' /\ gen'[c] = transition'.generation /\ phase # "Running" => Admitted = {}
  <2>1. CASE r = "completed"
    BY ZenonT(60), <2>1
  <2>2. CASE r # "completed"
    <3>1. Certified(c)' => c = Owner /\ name = "request_stop"
      BY ZenonT(60), <1>1, <2>2 DEF Certified
    <3>2. gen' = gen /\ gen'[c] = transition'.generation => gen[c] = transition.generation
      BY SMTT(60), <1>a DEF Core, GenerationInv, Generations
    <3> QED
      BY ZenonT(60), <1>a, <3>1, <3>2 DEF Core, CertificateInv
  <2> QED
    BY ZenonT(60), <2>1, <2>2
<1>7. pc'[c] \notin Held
  BY ZenonT(60), <1>1 DEF Held
<1>8. Releases(c)
  BY ZenonT(60), <1>2, <1>4, <1>5, <1>6, <1>7 DEF Releases
<1> HIDE DEF MayReturn
<1> QED
  BY ZenonT(60), <1>a, <1>8, ReleaseCore

\* A call that returns without assigning to the drain state.
LEMMA PlainReturnCore ==
  ASSUME IInv, NEW c \in Callers, NEW name, NEW r, ReturnNow(c, name, r),
         UNCHANGED <<transition, gen>>, lock = NoOne \/ lock = c, pc[c] # "store",
         r = "completed" => Admitted = {},
         c = Owner /\ name = "request_stop" => Certified(c)
  PROVE  Core'
<1>1. transition.generation \in Int
  BY ZenonT(60), FieldTypes DEF IInv, Generations
<1>2. MayReturn(c, name, r)
  BY SMTT(60), <1>1 DEF MayReturn
<1> QED
  BY ZenonT(60), <1>2, ReturnCore

\* A call refused because the revision is exhausted.
LEMMA RefusedCore ==
  ASSUME IInv, NEW c \in Callers, NEW name, NEW generation \in Int,
         PublishRefused(c, name, generation),
         lock = NoOne \/ lock = c, pc[c] # "store", generation >= transition.generation,
         c = Owner /\ name = "request_stop" => Certified(c)
  PROVE  Core'
<1>1. /\ ReturnNow(c, name, "error") /\ gen' = gen
      /\ transition'.phase = transition.phase /\ transition'.generation = generation
  BY ZenonT(60) DEF PublishRefused
<1>2. MayReturn(c, name, "error")
  BY ZenonT(60), <1>1 DEF MayReturn
<1> QED
  BY ZenonT(60), <1>1, <1>2, ReturnCore

\* A wait of c moves on.
LEMMA WaitStepCore ==
  ASSUME IInv, NEW c \in Callers,
         \/ Observe(c) \/ CheckActive(c) \/ Register(c) \/ Check(c)
         \/ Park(c) \/ Wake(c) \/ Changed(c) \/ Timeout(c) \/ Abandon(c)
  PROVE  Core'
<1> USE DEF shared, mutex, waiting, calls, readers, frame, Go, EndWait
<1>b. Core /\ Fields /\ PhaseInv /\ CertificateInv /\ (active = 0 => Admitted = {})
  BY ZenonT(60), FieldTypes, ZeroMeansNobody DEF IInv, Core
<1>1. ASSUME pc[c] \notin Held, pc'[c] \notin Held \cup {"stop", "closed"},
             Alone(c), UNCHANGED <<phase, transition, watch, lock, gen, op, event>>,
             result'[c] = result[c] \/ result'[c] = "abandoned",
             pc'[c] # "finish"
      PROVE  Core'
  <2>1. Certified(c)' => Certified(c)
    BY ZenonT(60), <1>1 DEF Certified
  <2> QED
    BY ZenonT(60), <1>b, <1>1, <2>1, WaitCore
<1>2. ASSUME pc[c] \notin Held, pc'[c] = "finish", Alone(c),
             UNCHANGED <<phase, transition, watch, lock, gen, op, result>>,
             event'[c] = "zero_active" => Admitted = {}
      PROVE  Core'
  <2>1. Certified(c)' => Certified(c) \/ Admitted = {}
    BY ZenonT(60), <1>2 DEF Certified
  <2> QED
    BY ZenonT(60), <1>b, <1>2, <2>1, WaitCore DEF Held
<1>3. CASE Observe(c)
  <2>1. pc[c] \notin Held /\ Alone(c) /\ UNCHANGED <<phase, transition, watch, lock, gen, op, result>>
    BY ZenonT(60), <1>b, <1>3 DEF Observe, Held, Alone, Fields
  <2>2. CASE pc'[c] = "finish"
    <3>1. event'[c] = "zero_active" => watch.phase = "Stopping"
      BY ZenonT(60), <1>b, <1>3, <2>2 DEF Observe, Fields
    <3> QED
      BY ZenonT(60), <1>b, <1>2, <2>1, <2>2, <3>1 DEF PhaseInv, CertificateInv
  <2>3. CASE pc'[c] # "finish"
    BY ZenonT(60), <1>b, <1>1, <1>3, <2>1, <2>3 DEF Observe, Held, Fields
  <2> QED
    BY ZenonT(60), <2>2, <2>3
<1>4. CASE CheckActive(c)
  <2>1. pc[c] \notin Held /\ Alone(c) /\ UNCHANGED <<phase, transition, watch, lock, gen, op, result>>
    BY ZenonT(60), <1>b, <1>4 DEF CheckActive, Held, Alone, Fields
  <2>2. CASE active = 0
    BY ZenonT(60), <1>b, <1>2, <1>4, <2>1, <2>2 DEF CheckActive, Fields
  <2>3. CASE active # 0
    BY ZenonT(60), <1>b, <1>1, <1>4, <2>1, <2>3 DEF CheckActive, Held, Fields
  <2> QED
    BY ZenonT(60), <2>2, <2>3
<1>5. CASE Check(c)
  <2>1. pc[c] \notin Held /\ Alone(c) /\ UNCHANGED <<phase, transition, watch, lock, gen, op, result>>
    BY ZenonT(60), <1>b, <1>5 DEF Check, Held, Alone, Fields
  <2>2. CASE active = 0 /\ op[c] = "begin_drain"
    BY ZenonT(60), <1>b, <1>2, <1>5, <2>1, <2>2 DEF Check, Fields
  <2>3. CASE active = 0 /\ op[c] # "begin_drain"
    <3>1. pc'[c] = "stop" /\ Admitted = {}
      BY ZenonT(60), <1>b, <1>5, <2>3 DEF Check, Fields
    <3> QED
      BY ZenonT(60), <1>b, <2>1, <3>1, WaitCore DEF Held
  <2>4. CASE active # 0
    BY ZenonT(60), <1>b, <1>1, <1>5, <2>1, <2>4 DEF Check, Held, Fields
  <2> QED
    BY ZenonT(60), <2>2, <2>3, <2>4
<1>6. CASE Timeout(c)
  BY ZenonT(60), <1>b, <1>2, <1>6 DEF Timeout, Held, Alone, Fields
<1>7. CASE Register(c) \/ Park(c) \/ Wake(c) \/ Changed(c)
  BY ZenonT(60), <1>b, <1>1, <1>7 DEF Register, Park, Wake, Changed, Held, Alone, Fields
<1>8. CASE Abandon(c)
  BY ZenonT(60), <1>b, <1>1, <1>8 DEF Abandon, Held, Alone, Fields
<1> QED
  BY ZenonT(60), <1>3, <1>4, <1>5, <1>6, <1>7, <1>8

\* The control operations up to their first publication or return.
LEMMA StartCore ==
  ASSUME IInv, NEW c \in Callers, BeginDrain(c) \/ CancelDrain(c) \/ RequestStop(c)
  PROVE  Core'
<1> USE DEF shared, mutex, waiting, calls, readers
<1>a. Core /\ Fields /\ Generations /\ (active = 0 => Admitted = {})
  BY ZenonT(60), FieldTypes, ZeroMeansNobody DEF IInv, Core
<1>b. lock = NoOne /\ pc[c] # "store"
  BY ZenonT(60) DEF BeginDrain, CancelDrain, RequestStop, MayCall
<1>c. phase = transition.phase
  BY ZenonT(60), <1>a, <1>b, Sole
<1>d. transition.generation \in Int /\ transition.generation >= transition.generation
  BY SMTT(60), <1>a DEF Generations
<1>1. ASSUME NEW name, name # "request_stop" \/ c # Owner \/ Certified(c), LeaveRunning(c, name)
      PROVE  Core'
  <2>a. transition.phase = "Running"
    BY ZenonT(60), <1>1 DEF LeaveRunning
  <2>b. /\ transition.generation + 1 \in Int
        /\ transition.generation + 1 > transition.generation
        /\ transition.generation + 1 >= transition.generation
    BY SMTT(60), <1>a DEF Generations
  <2>1. CASE PublishFrom(c, name, "Draining", transition.generation + 1)
    <3>1. MayPublish(c, name, "Draining", transition.generation + 1)
      BY ZenonT(60), <1>b, <1>1, <2>a, <2>b DEF MayPublish, Diagram
    <3> QED
      BY ZenonT(60), <2>1, <3>1, PublishCore
  <2>2. CASE PublishRefused(c, name, transition.generation + 1)
    BY SMTT(60), <1>b, <1>1, <2>b, <2>2, RefusedCore
  <2>3. CASE ReturnNow(c, name, "error") /\ UNCHANGED <<transition, gen>>
    BY ZenonT(60), <1>b, <1>1, <2>3, PlainReturnCore
  <2> QED
    BY ZenonT(60), <1>1, <2>1, <2>2, <2>3 DEF LeaveRunning
<1>2. CASE BeginDrain(c)
  <2>1. CASE LeaveRunning(c, "begin_drain")
    BY ZenonT(60), <1>1, <2>1
  <2>2. CASE ReturnNow(c, "begin_drain", "error") /\ UNCHANGED <<transition, gen>>
    BY ZenonT(60), <1>b, <2>2, PlainReturnCore
  <2>3. CASE /\ gen' = [gen EXCEPT ![c] = transition.generation]
             /\ Continue(c, "begin_drain", "observe", NoOne)
    <3>1. /\ Alone(c) /\ pc'[c] = "observe" /\ result'[c] = "none" /\ op'[c] = "begin_drain"
          /\ gen'[c] = transition.generation
      BY ZenonT(60), <1>a, <2>3 DEF Continue, Alone, Fields
    <3>2. UNCHANGED <<phase, watch, transition, event>> /\ lock' = NoOne
      BY ZenonT(60), <2>3 DEF Continue
    <3>3. ~ Certified(c)'
      BY ZenonT(60), <3>1 DEF Certified
    <3>4. Releases(c)
      <4>1. phase' = phase /\ watch' = watch /\ transition'.phase = transition.phase
        BY ZenonT(60), <3>2
      <4>2. (lock = NoOne \/ lock = c) /\ pc[c] # "store"
        BY ZenonT(60), <1>b
      <4>3. pc'[c] \notin Held
        BY ZenonT(60), <3>1 DEF Held
      <4>a. transition.generation \in Int
        BY ZenonT(60), <1>a DEF Generations
      <4>b. transition' = transition /\ gen'[c] = transition.generation
        BY ZenonT(60), <3>1, <3>2
      <4>4. transition'.generation \in Int /\ transition'.generation >= transition.generation
            /\ gen'[c] \in Int /\ gen'[c] <= transition'.generation
        BY SMTT(60), <4>a, <4>b
      <4> QED
        BY <3>1, <3>2, <3>3, <4>1, <4>2, <4>3, <4>4, ZenonT(60) DEF Releases
    <3> QED
      BY ZenonT(60), <1>a, <3>4, ReleaseCore
  <2>4. CASE /\ transition.phase \in {"AwaitingCancellation", "Stopping"}
             /\ gen' = [gen EXCEPT ![c] = transition.generation]
             /\ ReturnNow(c, "begin_drain",
                          IF transition.phase = "Stopping" \/ active = 0
                          THEN "completed" ELSE "timed_out")
             /\ UNCHANGED transition
    <3>1. transition.phase = "Stopping" \/ active = 0 => Admitted = {}
      BY ZenonT(60), <1>a, <1>c DEF Core, CertificateInv
    <3>2. PICK r : /\ r = "completed" => transition.phase = "Stopping" \/ active = 0
                   /\ ReturnNow(c, "begin_drain", r)
      BY <2>4, ZenonT(60)
    <3>3. /\ transition'.phase = transition.phase /\ transition'.generation \in Int
          /\ transition'.generation >= transition.generation
          /\ gen' = [gen EXCEPT ![c] = transition'.generation]
      BY SMTT(60), <1>a, <2>4 DEF Generations
    <3>4. r = "completed" => Admitted = {}
      BY ZenonT(60), <3>1, <3>2
    <3>5. MayReturn(c, "begin_drain", r)
      BY ZenonT(60), <1>b, <3>3, <3>4 DEF MayReturn
    <3> QED
      BY ZenonT(60), <3>2, <3>5, ReturnCore
  <2> QED
    BY ZenonT(60), <1>2, <2>1, <2>2, <2>3, <2>4 DEF BeginDrain
<1>3. CASE CancelDrain(c)
  <2>1. CASE /\ transition.phase \in {"Draining", "AwaitingCancellation"}
             /\ PublishFrom(c, "cancel_drain", "Running", transition.generation)
    <3>1. MayPublish(c, "cancel_drain", "Running", transition.generation)
      BY ZenonT(60), <1>b, <1>d, <2>1 DEF MayPublish, Diagram
    <3> QED
      BY ZenonT(60), <2>1, <3>1, PublishCore
  <2>2. CASE PublishRefused(c, "cancel_drain", transition.generation)
    BY ZenonT(60), <1>b, <1>d, <2>2, RefusedCore
  <2>3. CASE ReturnNow(c, "cancel_drain", "error") /\ UNCHANGED <<transition, gen>>
    BY ZenonT(60), <1>b, <2>3, PlainReturnCore
  <2> QED
    BY ZenonT(60), <1>3, <2>1, <2>2, <2>3 DEF CancelDrain
<1>4. CASE RequestStop(c)
  <2>1. c = Owner => Certified(c)
    BY ZenonT(60), <1>4 DEF RequestStop, MayCall, Certified
  <2>2. CASE LeaveRunning(c, "request_stop")
    BY ZenonT(60), <1>1, <2>1, <2>2
  <2>3. CASE \E r \in {"ok", "error"} :
               ReturnNow(c, "request_stop", r) /\ UNCHANGED <<transition, gen>>
    BY ZenonT(60), <1>b, <2>1, <2>3, PlainReturnCore
  <2>4. CASE /\ transition.phase \in {"Draining", "AwaitingCancellation"}
             /\ Continue(c, "request_stop", "stop_check", c)
             /\ UNCHANGED gen
    <3>1. /\ Alone(c) /\ pc'[c] = "stop_check" /\ result'[c] = "none" /\ op'[c] = "request_stop"
      BY ZenonT(60), <1>a, <2>4 DEF Continue, Alone, Fields
    <3>2. UNCHANGED <<phase, watch, transition, event, gen>> /\ lock' = c
      BY ZenonT(60), <2>4 DEF Continue
    <3>3. Certified(c)' => Certified(c)
      BY ZenonT(60), <2>1, <3>1 DEF Certified
    <3>4. Keeps(c)
      BY ZenonT(60), <1>b, <2>4, <3>1, <3>2, <3>3 DEF Keeps
    <3> QED
      BY ZenonT(60), <1>a, <3>4, KeepCore
  <2> QED
    BY ZenonT(60), <1>4, <2>2, <2>3, <2>4 DEF RequestStop
<1> QED
  BY ZenonT(60), <1>2, <1>3, <1>4

\* The second half of request_stop, the end of a drain wait and its
\* publication of AwaitingCancellation.
LEMMA FinishCore ==
  ASSUME IInv, NEW c \in Callers,
         StopCheck(c) \/ StopPublish(c) \/ FinishDrainWait(c) \/ AwaitPublish(c)
  PROVE  Core'
<1> USE DEF shared, mutex, waiting, calls, readers
<1>a. Core /\ Fields /\ Generations /\ (active = 0 => Admitted = {})
  BY ZenonT(60), FieldTypes, ZeroMeansNobody DEF IInv, Core
<1>b. (lock = NoOne \/ lock = c) /\ pc[c] # "store"
  BY ZenonT(60), <1>a DEF StopCheck, StopPublish, FinishDrainWait, AwaitPublish, Core,
     LockInv, Held
<1>c. phase = transition.phase
  BY ZenonT(60), <1>a, <1>b, Sole
<1>d. transition.generation \in Int /\ transition.generation >= transition.generation
  BY SMTT(60), <1>a DEF Generations
<1>1. CASE StopCheck(c)
  <2>1. /\ transition.phase \in {"Draining", "AwaitingCancellation"}
        /\ op[c] = "request_stop" /\ (c = Owner => Certified(c))
    BY ZenonT(60), <1>a, <1>1 DEF StopCheck, Core, PhaseInv, Certified
  <2>2. CASE active = 0 /\ Continue(c, "request_stop", "stop_publish", c) /\ UNCHANGED gen
    <3>1. /\ Alone(c) /\ pc'[c] = "stop_publish" /\ op'[c] = "request_stop"
      BY ZenonT(60), <1>a, <2>2 DEF Continue, Alone, Fields
    <3>2. UNCHANGED <<phase, watch, transition, event, gen>> /\ lock' = c
      BY ZenonT(60), <2>2 DEF Continue
    <3>3. Keeps(c)
      BY ZenonT(60), <1>a, <1>b, <2>1, <2>2, <3>1, <3>2 DEF Keeps
    <3> QED
      BY ZenonT(60), <1>a, <3>3, KeepCore
  <2>3. CASE ReturnNow(c, "request_stop", "error") /\ UNCHANGED <<transition, gen>>
    BY ZenonT(60), <1>b, <2>1, <2>3, PlainReturnCore
  <2> QED
    BY ZenonT(60), <1>1, <2>2, <2>3 DEF StopCheck
<1>2. CASE StopPublish(c)
  <2>1. /\ transition.phase \in {"Draining", "AwaitingCancellation"} /\ Admitted = {}
        /\ (c = Owner => Certified(c))
    BY ZenonT(60), <1>a, <1>2 DEF StopPublish, Core, PhaseInv, CertificateInv, Certified
  <2>2. CASE PublishFrom(c, "request_stop", "Stopping", transition.generation)
    <3>1. MayPublish(c, "request_stop", "Stopping", transition.generation)
      BY ZenonT(60), <1>b, <1>d, <2>1 DEF MayPublish, Diagram
    <3> QED
      BY ZenonT(60), <2>2, <3>1, PublishCore
  <2>3. CASE PublishRefused(c, "request_stop", transition.generation)
    BY ZenonT(60), <1>b, <1>d, <2>1, <2>3, RefusedCore
  <2> QED
    BY ZenonT(60), <1>2, <2>2, <2>3 DEF StopPublish
<1>3. CASE FinishDrainWait(c)
  <2>1. pc[c] = "finish"
    BY ZenonT(60), <1>3 DEF FinishDrainWait
  <2>2. CASE /\ transition.phase = "Draining"
             /\ Continue(c, "begin_drain", "await_publish", c) /\ UNCHANGED gen
    <3>1. /\ Alone(c) /\ pc'[c] = "await_publish" /\ op'[c] = "begin_drain" /\ result'[c] = "none"
      BY ZenonT(60), <1>a, <2>2 DEF Continue, Alone, Fields
    <3>2. UNCHANGED <<phase, watch, transition, event, gen>> /\ lock' = c
      BY ZenonT(60), <2>2 DEF Continue
    <3>3. ~ Certified(c)'
      BY ZenonT(60), <3>1 DEF Certified
    <3>4. Keeps(c)
      BY ZenonT(60), <1>b, <2>2, <3>1, <3>2, <3>3 DEF Keeps
    <3> QED
      BY ZenonT(60), <1>a, <3>4, KeepCore
  <2>3. CASE ReturnNow(c, "begin_drain", FinishOutcome(c)) /\ UNCHANGED <<transition, gen>>
    <3>1. FinishOutcome(c) = "completed" =>
            \/ transition.phase = "Stopping"
            \/ /\ transition.generation = gen[c] /\ transition.phase # "Running"
               /\ active = 0 \/ event[c] = "zero_active"
      BY ZenonT(60) DEF FinishOutcome
    <3>2. FinishOutcome(c) = "completed" => Admitted = {}
      BY ZenonT(60), <1>a, <1>c, <2>1, <3>1 DEF Core, CertificateInv, Certified
    <3> QED
      BY ZenonT(60), <1>b, <2>3, <3>2, PlainReturnCore
  <2> QED
    BY ZenonT(60), <1>3, <2>2, <2>3 DEF FinishDrainWait
<1>4. CASE AwaitPublish(c)
  <2>1. transition.phase = "Draining"
    BY ZenonT(60), <1>a, <1>4 DEF AwaitPublish, Core, PhaseInv
  <2>2. CASE PublishFrom(c, "begin_drain", "AwaitingCancellation", transition.generation)
    <3>1. MayPublish(c, "begin_drain", "AwaitingCancellation", transition.generation)
      BY ZenonT(60), <1>b, <1>d, <2>1 DEF MayPublish, Diagram
    <3> QED
      BY ZenonT(60), <2>2, <3>1, PublishCore
  <2>3. CASE PublishRefused(c, "begin_drain", transition.generation)
    BY ZenonT(60), <1>b, <1>d, <2>3, RefusedCore
  <2> QED
    BY ZenonT(60), <1>4, <2>2, <2>3 DEF AwaitPublish
<1> QED
  BY ZenonT(60), <1>1, <1>2, <1>3, <1>4

\* send_replace, and the way on from a publication.
LEMMA SendCore ==
  ASSUME IInv, NEW c \in Callers, SendWatch(c)
  PROVE  Core'
<1> USE DEF shared, mutex, waiting, calls, readers
<1>a. Core /\ Fields /\ Generations
  BY ZenonT(60), FieldTypes DEF IInv, Core
<1>b. pc[c] = "send" /\ lock = c /\ result[c] = "none" /\ watch' = transition
      /\ UNCHANGED <<phase, transition, rpc, event>>
  BY ZenonT(60), <1>a DEF SendWatch, Core, LockInv, GenerationInv, Held
<1>c. phase = transition.phase
  BY ZenonT(60), <1>a, <1>b, Sole
<1>1. CASE /\ op[c] = "begin_drain" /\ lock' = NoOne
           /\ gen' = [gen EXCEPT ![c] = transition.generation]
           /\ pc' = [pc EXCEPT ![c] = "observe"]
           /\ UNCHANGED <<op, result, stopRequested>>
  <2>1. Alone(c) /\ pc'[c] = "observe" /\ gen'[c] = transition.generation
    BY ZenonT(60), <1>a, <1>b, <1>1 DEF Alone, Fields
  <2>2. ~ Certified(c)'
    BY ZenonT(60), <1>b, <1>1, <2>1 DEF Certified
  <2>3. Releases(c)
    <3>1. phase' = phase /\ watch' = transition /\ lock = c /\ lock' = NoOne
          /\ pc[c] # "store" /\ transition'.phase = transition.phase
      BY ZenonT(60), <1>b, <1>1
    <3>2. pc'[c] \notin Held
      BY ZenonT(60), <2>1 DEF Held
    <3>a. transition.generation \in Int
      BY ZenonT(60), <1>a DEF Generations
    <3>b. transition' = transition /\ gen'[c] = transition.generation
      BY ZenonT(60), <1>b, <2>1
    <3>3. transition'.generation \in Int /\ transition'.generation >= transition.generation
          /\ gen'[c] \in Int /\ gen'[c] <= transition'.generation
      BY SMTT(60), <3>a, <3>b
    <3> QED
      BY <2>1, <2>2, <3>1, <3>2, <3>3, ZenonT(60) DEF Releases
  <2> QED
    BY ZenonT(60), <1>a, <2>3, ReleaseCore
<1>2. CASE /\ op[c] = "request_stop" /\ transition.phase = "Draining"
           /\ pc' = [pc EXCEPT ![c] = "stop_check"]
           /\ UNCHANGED <<lock, gen, op, result, stopRequested>>
  <2>1. Alone(c) /\ pc'[c] = "stop_check"
    BY ZenonT(60), <1>a, <1>b, <1>2 DEF Alone, Fields
  <2>2. Certified(c)' => Certified(c)
    BY ZenonT(60), <1>b, <1>2, <2>1 DEF Certified
  <2>3. Keeps(c)
    BY ZenonT(60), <1>b, <1>2, <2>1, <2>2 DEF Keeps
  <2> QED
    BY ZenonT(60), <1>a, <2>3, KeepCore
<1>3. CASE \E r \in {"ok", "timed_out"} :
             lock' = NoOne /\ Return(c, op[c], r) /\ UNCHANGED gen
  <2>0. PICK r \in {"ok", "timed_out"} : lock' = NoOne /\ Return(c, op[c], r) /\ UNCHANGED gen
    BY ZenonT(60), <1>3
  <2>1. /\ result'[c] = r /\ pc'[c] \in {"idle", "register", "closed"}
        /\ c = Owner /\ (pc'[c] = "closed" \/ op'[c] = "request_stop") => op[c] = "request_stop"
        /\ \A d \in Callers : d # c =>
             result'[d] = result[d] /\ pc'[d] = pc[d] /\ op'[d] = op[d]
    BY ZenonT(60), <1>a, <2>0, ReturnEffect
  <2>2. Alone(c) /\ pc'[c] \notin Held
    BY ZenonT(60), <1>b, <2>0, <2>1 DEF Alone, Held
  <2>3. Certified(c)' => Certified(c)
    BY ZenonT(60), <1>b, <2>1 DEF Certified
  <2>4. Certified(c)' /\ gen'[c] = transition'.generation /\ phase # "Running" => Admitted = {}
    BY ZenonT(60), <1>a, <1>b, <2>0, <2>3 DEF Core, CertificateInv
  <2>5. gen'[c] \in Int /\ gen'[c] <= transition'.generation
    BY ZenonT(60), <1>a, <1>b, <2>0 DEF Core, GenerationInv, Generations
  <2>6. Releases(c)
    <3>1. phase' = phase /\ watch' = transition /\ lock = c /\ lock' = NoOne
          /\ pc[c] # "store" /\ transition'.phase = transition.phase
      BY ZenonT(60), <1>b, <2>0
    <3>2. transition'.generation \in Int /\ transition'.generation >= transition.generation
      BY SMTT(60), <1>a, <1>b DEF Generations
    <3> QED
      BY <2>2, <2>4, <2>5, <3>1, <3>2, ZenonT(60) DEF Releases
  <2> QED
    BY ZenonT(60), <1>a, <2>6, ReleaseCore
<1> QED
  BY ZenonT(60), <1>1, <1>2, <1>3 DEF SendWatch

\* Every step of a control call keeps the mutex, phase, generation and
\* certificate invariants.
LEMMA CallCore ==
  ASSUME IInv, NEW c \in Callers, CallStep(c)
  PROVE  Core'
  BY ZenonT(60), StoreCore, SendCore, StartCore, FinishCore, WaitStepCore
     DEF CallStep, CallRuns

-----------------------------------------------------------------------------
(* The inductive invariant and what follows from it.                       *)

USE DEF Phases, Callers, Counting, Holding

LEMMA InitInv == Init => IInv
<1> SUFFICES ASSUME Init PROVE IInv
  BY ZenonT(60)
<1> USE ConstantsAssumption DEF Init
<1>1. TypeOK
  <2>1. idlePermit \in BOOLEAN /\ stopRequested \in BOOLEAN
    BY ZenonT(60)
  <2>2. rpc \in [Requests -> {"idle"}] /\ view \in [Readers -> [revision : 0..MaxRevision, phase : Phases, was : Phases]]
    BY SMTT(60) DEF NothingRead, Seen
  <2>3. transition \in [phase : Phases, generation : 0..MaxGeneration]
        /\ watch \in [phase : Phases, generation : 0..MaxGeneration]
    BY SMTT(60)
  <2>4. /\ phase \in Phases /\ active \in 0..MaxActive /\ revision \in 0..MaxRevision
        /\ activity \in 0..MaxActivity /\ lock \in Callers \cup {NoOne}
        /\ unseen \subseteq Callers /\ woken \subseteq Callers
    BY SMTT(60)
  <2>5. /\ pc \in [Callers -> {"idle"}] /\ op \in [Callers -> {"none"}]
        /\ gen \in [Callers -> 0..MaxGeneration]
        /\ event \in [Callers -> {"none"}] /\ result \in [Callers -> {"none"}]
        /\ spc \in [Readers -> {"revision_before"}]
    BY SMTT(60)
  <2> HIDE DEF Init
  <2> QED
    BY SMTT(60), <2>1, <2>2, <2>3, <2>4, <2>5 DEF TypeOK
<1>2. ActiveCountsRequests
  <2>1. {r \in Requests : rpc[r] \in Counting} = {}
    BY ZenonT(60)
  <2> QED
    BY ZenonT(60), <2>1, FS_EmptySet DEF ActiveCountsRequests
<1>3. LockInv /\ PhaseInv /\ GenerationInv
  BY SMTT(60) DEF LockInv, PhaseInv, GenerationInv, Held
<1>4. CertificateInv
  BY ZenonT(60) DEF CertificateInv, Certified, Admitted
<1> QED
  BY ZenonT(60), <1>1, <1>2, <1>3, <1>4 DEF IInv

LEMMA StepInv == IInv /\ [Next]_vars => IInv'
<1> SUFFICES ASSUME IInv, [Next]_vars PROVE IInv'
  BY ZenonT(60)
<1> USE ConstantsAssumption DEF shared, mutex, waiting, calls, readers
<1>1. TypeOK' /\ ActiveCountsRequests'
  BY ZenonT(60), TypesStep, CountStep DEF IInv
<1> SUFFICES Core'
  BY ZenonT(60), <1>1 DEF Core, IInv
<1>2. CASE \E r \in Requests : RequestStep(r)
  BY ZenonT(60), <1>2, RequestCore
<1>3. CASE \E c \in Callers : CallStep(c)
  BY ZenonT(60), <1>3, CallCore
<1>4. CASE MarkRunning
  <2>1. Owner \in Callers /\ lock = NoOne /\ pc[Owner] # "store" /\ transition.phase = "Starting"
        /\ transition.generation \in Int
    BY ZenonT(60), <1>4, FieldTypes DEF MarkRunning, IInv, Generations
  <2> HIDE DEF Callers
  <2>a. transition.generation >= transition.generation
    BY SMTT(60), <2>1
  <2>2. CASE PublishFrom(Owner, "mark_running", "Running", transition.generation)
    <3>1. MayPublish(Owner, "mark_running", "Running", transition.generation)
      BY ZenonT(60), <2>1, <2>a DEF MayPublish, Diagram
    <3> QED
      BY ZenonT(60), <2>1, <2>2, <3>1, PublishCore
  <2>3. CASE PublishRefused(Owner, "mark_running", transition.generation)
    BY ZenonT(60), <2>1, <2>a, <2>3, RefusedCore
  <2> QED
    BY ZenonT(60), <1>4, <2>2, <2>3 DEF MarkRunning
<1>5. ASSUME UNCHANGED <<phase, transition, lock, watch, rpc, pc, op, gen, event, result>>
      PROVE  Core'
  <2>1. LockInv' /\ PhaseInv' /\ GenerationInv'
    BY ZenonT(60), <1>5 DEF IInv, LockInv, PhaseInv, GenerationInv
  <2>2. CertificateInv'
    BY ZenonT(60), <1>5 DEF IInv, CertificateInv, Certified, Admitted
  <2> QED
    BY ZenonT(60), <2>1, <2>2 DEF Core
<1>6. CASE \E s \in Readers : Snapshot(s)
  BY ZenonT(60), <1>5, <1>6 DEF Snapshot, Read
<1>7. CASE UNCHANGED vars
  BY ZenonT(60), <1>5, <1>7 DEF vars
<1> QED
  BY ZenonT(60), <1>2, <1>3, <1>4, <1>6, <1>7 DEF Next

\* The inductive invariant holds in every reachable state of the protocol of
\* admission.rs and service.rs.
THEOREM Invariance == Spec => []IInv
  BY InitInv, StepInv, PTL DEF Spec

\* Every variable of the model keeps its type, the counters their width.
THEOREM TypeCorrectness == Spec => []TypeOK
<1>1. IInv => TypeOK
  BY ZenonT(60) DEF IInv
<1> QED
  BY <1>1, Invariance, PTL

\* active is the number of requests between increment and decrement.
THEOREM ActiveIsTheCount == Spec => []ActiveCountsRequests
<1>1. IInv => ActiveCountsRequests
  BY ZenonT(60) DEF IInv
<1> QED
  BY <1>1, Invariance, PTL

\* No request is admitted in the phase Stopping.
THEOREM StoppingQuiescence == Spec => []StoppingIsQuiescent
<1>1. IInv => StoppingIsQuiescent
  BY ZenonT(60) DEF IInv, CertificateInv, StoppingIsQuiescent
<1> QED
  BY <1>1, Invariance, PTL

\* A drain reported Completed has no admitted request until it is cancelled.
THEOREM CompletedDrainQuiescence == Spec => []DrainCompletedIsQuiescent
<1>1. IInv => DrainCompletedIsQuiescent
  BY ZenonT(60) DEF IInv, CertificateInv, Certified, DrainCompletedIsQuiescent
<1> QED
  BY <1>1, Invariance, PTL

\* The owner closes under an admitted request only after a cancelled drain.
THEOREM ShutdownQuiescence == Spec => []ShutdownIsQuiescentUnlessCancelled
<1>1. IInv => ShutdownIsQuiescentUnlessCancelled
  BY ZenonT(60) DEF IInv, CertificateInv, Certified, ShutdownIsQuiescentUnlessCancelled
<1> QED
  BY <1>1, Invariance, PTL

\* All that the lifecycle answers about quiescence, for any number of requests and callers.
THEOREM QuiescentService == Spec => []QuiescentAnswers
<1>1. ActiveCountsRequests /\ StoppingIsQuiescent /\ DrainCompletedIsQuiescent
        /\ ShutdownIsQuiescentUnlessCancelled => QuiescentAnswers
  BY ZenonT(60) DEF QuiescentAnswers
<1> QED
  BY <1>1, ActiveIsTheCount, StoppingQuiescence, CompletedDrainQuiescence,
     ShutdownQuiescence, PTL

\* The atomic phase only moves along the edges of the phase diagram.
THEOREM PhaseDiagram == Spec => PhasesFollowTheDiagram
<1>1. IInv /\ [Next]_vars => [PhaseStep]_phase
  <2> SUFFICES ASSUME IInv, [Next]_vars, phase' # phase PROVE PhaseStep
    BY ZenonT(60)
  <2> USE DEF shared, mutex, waiting, calls, readers
  <2>1. PICK c \in Callers : CallStep(c)
    BY ZenonT(60) DEF Next, vars, RequestStep, RequestRuns, TryEnter, Increment, Recheck,
       ObserveAdmission, CheckedDecrement, ObserveRelease, NotifyWaiters, NotifyOne,
       MarkRunning, PublishFrom, PublishRefused, ReturnNow, Snapshot, Read
  <2>2. StorePhase(c)
    BY ZenonT(60), <2>1 DEF CallStep, CallRuns, SendWatch, StopCheck, StopPublish,
       BeginDrain,
       CancelDrain, RequestStop, LeaveRunning, Continue, ReturnNow, PublishFrom,
       PublishRefused, Observe, CheckActive, Register, Check, Park, Wake, Changed, Timeout,
       Abandon, frame, FinishDrainWait, AwaitPublish
  <2> QED
    BY ZenonT(60), <2>2 DEF StorePhase, IInv, PhaseInv, Diagram, PhaseStep
<1> QED
  BY <1>1, Invariance, PTL DEF Spec, PhasesFollowTheDiagram

\* At the instant begin_drain answers Completed nobody is admitted, whatever
\* became of the drain since the wait ended.
THEOREM FreshAnswer == Spec => DrainAnswerIsFresh
<1> USE DEF shared, mutex, waiting, calls, readers
<1>1. IInv /\ [Next]_vars =>
        [\A c \in Callers :
           result'[c] = "completed" /\ result[c] # "completed" => Admitted = {}]_vars
  <2> SUFFICES ASSUME IInv, [Next]_vars, NEW d \in Callers,
                      result'[d] = "completed", result[d] # "completed"
               PROVE  Admitted = {}
    BY ZenonT(60)
  <2>t. Core /\ Fields /\ PhaseInv /\ CertificateInv /\ (active = 0 => Admitted = {})
    BY ZenonT(60), FieldTypes, ZeroMeansNobody DEF IInv, Core
  <2>1. PICK c \in Callers : CallStep(c) \/ MarkRunning
    BY ZenonT(60) DEF Next, vars, RequestStep, RequestRuns, TryEnter, Increment, Recheck,
       ObserveAdmission, CheckedDecrement, ObserveRelease, NotifyWaiters, NotifyOne,
       Snapshot, Read
  <2> HIDE DEF Callers, Phases
  <2>2. BeginDrain(c) \/ FinishDrainWait(c)
    <3>1. ~MarkRunning
      BY ZenonT(60), <2>t DEF MarkRunning, PublishFrom, PublishRefused, ReturnNow, Return,
         Fields
    <3>2. ~(\/ StorePhase(c) \/ StopPublish(c) \/ AwaitPublish(c) \/ CancelDrain(c))
      BY ZenonT(60), <2>t DEF StorePhase, StopPublish, AwaitPublish, CancelDrain,
         PublishFrom,
                  PublishRefused, ReturnNow, Return, Fields
    <3>3. ~(SendWatch(c) \/ StopCheck(c) \/ RequestStop(c))
      BY ZenonT(60), <2>t DEF SendWatch, StopCheck, RequestStop, LeaveRunning, Continue,
         PublishFrom,
                  PublishRefused, ReturnNow, Return, Fields
    <3>4. ~(\/ Observe(c) \/ CheckActive(c) \/ Register(c) \/ Check(c) \/ Park(c)
            \/ Wake(c) \/ Changed(c) \/ Timeout(c) \/ Abandon(c))
      BY ZenonT(60), <2>t DEF Observe, CheckActive, Register, Check, Park, Wake, Changed,
         Timeout,
                  Abandon, frame, Fields
    <3> QED
      BY ZenonT(60), <2>1, <3>1, <3>2, <3>3, <3>4 DEF CallStep, CallRuns
  <2>3. CASE BeginDrain(c)
    <3>1. pc[c] = "idle" /\ lock = NoOne
      BY ZenonT(60), <2>3 DEF BeginDrain, MayCall
    <3>2. phase = transition.phase
      BY ZenonT(60), <2>t, <3>1, Sole
    <3>3. transition.phase = "Stopping" \/ active = 0
      BY ZenonT(60), <2>t, <2>3 DEF BeginDrain, LeaveRunning, Continue, PublishFrom,
         PublishRefused,
                        ReturnNow, Return, Fields
    <3> QED
      BY ZenonT(60), <2>t, <3>2, <3>3 DEF CertificateInv
  <2>4. CASE FinishDrainWait(c)
    <3>1. pc[c] = "finish" /\ lock = NoOne
      BY ZenonT(60), <2>4 DEF FinishDrainWait
    <3>2. phase = transition.phase
      BY ZenonT(60), <2>t, <3>1, Sole
    <3>3. FinishOutcome(c) = "completed"
      BY ZenonT(60), <2>t, <2>4 DEF FinishDrainWait, Continue, ReturnNow, Return, Fields
    <3>4. \/ transition.phase = "Stopping" \/ active = 0
          \/ /\ transition.generation = gen[c] /\ transition.phase # "Running"
             /\ event[c] = "zero_active"
      BY ZenonT(60), <3>3 DEF FinishOutcome
    <3> QED
      BY ZenonT(60), <2>t, <3>1, <3>2, <3>4 DEF CertificateInv, Certified
  <2> QED
    BY ZenonT(60), <2>2, <2>3, <2>4
<1> QED
  BY <1>1, Invariance, PTL DEF Spec, DrainAnswerIsFresh

-----------------------------------------------------------------------------
(* snapshot(): a publication raises the revision before it stores the      *)
(* phase, so within one revision the phase changes once at most, and a     *)
(* phase that a reader finds changed stays so until the revision does.     *)

Stored == \A c \in Callers : pc[c] # "store"

ReaderInv(s) ==
  /\ view[s].revision <= revision
  /\ view[s].revision = revision =>
       /\ spc[s] = "active" /\ phase # view[s].phase => Stored
       /\ spc[s] = "phase_after" /\ view[s].was # view[s].phase
            => Stored /\ phase # view[s].phase
       /\ spc[s] = "revision_after" => view[s].was = view[s].phase
  /\ spc[s] = "returned" => view[s].was = view[s].phase

SnapshotInv == \A s \in Readers : ReaderInv(s)

\* A control operation, in any of its steps, moves revision and phase in the
\* order of publish_phase.
LEMMA PublicationOrder ==
  ASSUME IInv, NEW c \in Callers, CallStep(c) \/ MarkRunning
  PROVE  /\ UNCHANGED readers
         /\ \/ UNCHANGED <<phase, revision>> /\ (Stored => Stored')
            \/ revision' = revision + 1
            \/ revision' = revision /\ ~Stored /\ Stored'
<1> USE DEF shared, mutex, waiting, calls, readers
<1>t. pc \in [Callers -> {"idle", "store", "send", "stop", "stop_check", "stop_publish",
                          "observe", "check_active", "register", "check", "await", "parked",
                          "finish", "await_publish", "closed"}]
  BY ZenonT(60) DEF IInv, TypeOK
<1> HIDE DEF Callers, Phases
<1>1. \A d \in Callers : \A label : label # "store" /\ Stored /\ pc' = [pc EXCEPT ![d] = label] => Stored'
  BY ZenonT(60), <1>t DEF Stored
<1>2. \A d \in Callers : \A name, r : Return(d, name, r) /\ Stored => Stored'
  BY ZenonT(60), <1>t DEF Return, Stored
<1>3. CASE StorePhase(c)
  BY ZenonT(60), <1>3, <1>t DEF StorePhase, IInv, LockInv, Held, Stored
<1>4. CASE SendWatch(c)
  BY ZenonT(60), <1>4, <1>1, <1>2 DEF SendWatch
<1>5. \A d \in Callers : \A name, target, generation :
        PublishFrom(d, name, target, generation) => revision' = revision + 1 /\ UNCHANGED readers
  BY ZenonT(60) DEF PublishFrom, Advance
<1>6. \A d \in Callers : \A name, r :
        ReturnNow(d, name, r) => UNCHANGED <<phase, revision, readers>> /\ (Stored => Stored')
  BY ZenonT(60), <1>2 DEF ReturnNow
<1>7. \A d \in Callers : \A name, label, holder :
        label # "store" /\ Continue(d, name, label, holder)
          => UNCHANGED <<phase, revision, readers>> /\ (Stored => Stored')
  BY ZenonT(60), <1>1 DEF Continue
<1>8. CASE MarkRunning
  <2>1. Owner \in Callers
    BY ZenonT(60) DEF Callers
  <2> QED
    BY <1>8, <1>5, <1>6, <2>1 DEF MarkRunning, PublishRefused
<1>9. CASE StopCheck(c) \/ StopPublish(c) \/ FinishDrainWait(c) \/ AwaitPublish(c)
  BY ZenonT(60), <1>9, <1>5, <1>6, <1>7 DEF StopCheck, StopPublish, FinishDrainWait,
     AwaitPublish, PublishRefused
<1>10. CASE BeginDrain(c) \/ CancelDrain(c) \/ RequestStop(c)
  BY ZenonT(60), <1>10, <1>5, <1>6, <1>7 DEF BeginDrain, CancelDrain, RequestStop,
     LeaveRunning, PublishRefused
<1>11. CASE \/ Observe(c) \/ CheckActive(c) \/ Register(c) \/ Check(c) \/ Park(c)
            \/ Wake(c) \/ Changed(c) \/ Timeout(c) \/ Abandon(c)
  BY ZenonT(60), <1>11, <1>1 DEF Observe, CheckActive, Register, Check, Park, Wake,
     Changed, Timeout,
                     Abandon, EndWait, Go, frame
<1> QED
  BY ZenonT(60), <1>3, <1>4, <1>8, <1>9, <1>10, <1>11 DEF CallStep, CallRuns

LEMMA SnapshotStep == IInv /\ SnapshotInv /\ [Next]_vars => SnapshotInv'
<1> SUFFICES ASSUME IInv, SnapshotInv, [Next]_vars PROVE SnapshotInv'
  BY ZenonT(60)
<1> USE DEF shared, mutex, waiting, calls, readers
<1>t. /\ revision \in Int /\ revision' \in Int /\ spc \in [Readers -> ReaderSteps]
      /\ view \in [Readers -> Views] /\ \A s \in Readers : view[s].revision \in Int
  <2>1. TypeOK /\ TypeOK'
    BY ZenonT(60), TypesStep DEF IInv
  <2> QED
    BY SMTT(60), <2>1, ConstantsAssumption DEF TypeOK, ReaderSteps, Views
<1> HIDE DEF Callers, Phases
<1>1. CASE \E c \in Callers : CallStep(c) \/ MarkRunning
  <2>1. /\ UNCHANGED <<spc, view>>
        /\ \/ UNCHANGED <<phase, revision>> /\ (Stored => Stored')
           \/ revision' = revision + 1
           \/ revision' = revision /\ ~Stored /\ Stored'
    BY ZenonT(60), <1>1, PublicationOrder
  <2> HIDE DEF Stored
  <2>2. CASE revision' = revision + 1
    BY SMTT(60), <1>t, <2>1, <2>2 DEF SnapshotInv, ReaderInv
  <2>3. CASE revision' = revision /\ ~Stored /\ Stored'
    BY ZenonT(60), <1>t, <2>1, <2>3 DEF SnapshotInv, ReaderInv
  <2>4. CASE UNCHANGED <<phase, revision>> /\ (Stored => Stored')
    BY ZenonT(60), <1>t, <2>1, <2>4 DEF SnapshotInv, ReaderInv
  <2> QED
    BY ZenonT(60), <2>1, <2>2, <2>3, <2>4
<1>2. ASSUME NEW s \in Readers, Snapshot(s) PROVE SnapshotInv'
  <2>1. UNCHANGED <<phase, revision, pc>> /\ Stored' = Stored
    BY ZenonT(60), <1>2 DEF Snapshot, Read, Stored
  <2>2. \A q \in Readers : q # s => spc'[q] = spc[q] /\ view'[q] = view[q]
    BY ZenonT(60), <1>2, <1>t DEF Snapshot, Read
  <2>3. \A r, p, w : Seen(r, p, w).revision = r /\ Seen(r, p, w).phase = p /\ Seen(r, p, w).was = w
    BY ZenonT(60) DEF Seen
  <2> HIDE DEF Stored
  <2> SUFFICES ReaderInv(s)'
    BY SMTT(60), <2>1, <2>2 DEF SnapshotInv, ReaderInv
  <2>4. ReaderInv(s)
    BY ZenonT(60) DEF SnapshotInv
  <2> USE <1>t, <2>1, <2>3, <2>4 DEF Read, ReaderInv
  <2>5. CASE Read(s, {"revision_before", "returned"}, "phase_before",
                  Seen(revision, "Starting", "Starting"))
    BY SMTT(60), <2>5
  <2>6. CASE Read(s, {"phase_before"}, "active", Seen(view[s].revision, phase, "Starting"))
    BY SMTT(60), <2>6
  <2>7. CASE Read(s, {"active"}, "phase_after", Seen(view[s].revision, view[s].phase, phase))
    BY SMTT(60), <2>7
  <2>8. CASE phase = view[s].phase /\ Read(s, {"phase_after"}, "revision_after", view[s])
    BY ZenonT(60), <2>8
  <2>9. CASE Read(s, {"phase_after"}, "revision_before", NothingRead)
             \/ Read(s, {"revision_after"}, "revision_before", NothingRead)
    <3>1. spc'[s] = "revision_before" /\ view'[s].revision = 0
      BY SMTT(60), <2>9 DEF NothingRead
    <3>2. 0 <= revision
      BY SMTT(60), ConstantsAssumption DEF IInv, TypeOK
    <3> QED
      BY SMTT(60), <3>1, <3>2
  <2>10. CASE revision = view[s].revision /\ Read(s, {"revision_after"}, "returned", view[s])
    BY <2>10
  <2> QED
    BY <1>2, <2>5, <2>6, <2>7, <2>8, <2>9, <2>10 DEF Snapshot
<1>3. CASE \E r \in Requests : RequestStep(r)
  <2>1. UNCHANGED <<phase, revision, pc, spc, view>>
    BY ZenonT(60), <1>3 DEF RequestStep, RequestRuns, TryEnter, Increment, Recheck,
       ObserveAdmission,
                CheckedDecrement, ObserveRelease, NotifyWaiters, NotifyOne
  <2> QED
    BY ZenonT(60), <2>1 DEF SnapshotInv, ReaderInv, Stored
<1>4. CASE UNCHANGED vars
  BY <1>4 DEF vars, SnapshotInv, ReaderInv, Stored
<1> QED
  BY ZenonT(60), <1>1, <1>2, <1>3, <1>4 DEF Next, Callers

\* What snapshot() returns was the phase at the instant active was read, also
\* when the phase left and came back between the reads.
THEOREM AtomicSnapshot == Spec => []SnapshotIsAtomic
<1>1. Init => SnapshotInv
  BY SMTT(60), ConstantsAssumption DEF Init, SnapshotInv, ReaderInv, NothingRead, Seen
<1>2. SnapshotInv => SnapshotIsAtomic
  BY ZenonT(60) DEF SnapshotInv, ReaderInv, SnapshotIsAtomic
<1> QED
  BY <1>1, <1>2, SnapshotStep, Invariance, PTL DEF Spec
=============================================================================
