----------------------------- MODULE IdleMemory -----------------------------
(***************************************************************************)
(* The idle memory reclaimer (lifecycle/memory.rs) beside the admission    *)
(* protocol it observes: it waits for the permit that the last request out *)
(* stores, sleeps, and reclaims if nothing has moved since.                *)
(***************************************************************************)
EXTENDS ServiceLifecycle

VARIABLES
  mpc,        \* what the reclaimer does next
  seenActivity, \* the activity revision read after the sleep
  reclaimed,  \* reclaimed_activity_revision
  shutdown,   \* the shutdown watch: sent, then observed
  reclaims,   \* history: reclaims of each activity revision
  unreclaimed \* history: the service became idle and no reclaim began since

memory == <<mpc, seenActivity, reclaimed, shutdown, reclaims, unreclaimed>>

MemoryInit ==
  /\ Init
  /\ mpc = "wait" /\ seenActivity = 0 /\ reclaimed = activity
  /\ shutdown = FALSE
  /\ reclaims = [a \in 0..MaxActivity |-> 0] /\ unreclaimed = FALSE

\* A select of the reclaimer: the shutdown branch is polled first.
Await(from, ready, to) ==
  /\ mpc = from
  /\ mpc' = IF shutdown THEN "done" ELSE to
  /\ ready \/ shutdown
  /\ UNCHANGED <<seenActivity, reclaimed, shutdown, reclaims, unreclaimed>>

\* The permit of notify_one is consumed by the branch that wins.
WaitForIdle ==
  /\ Await("wait", idlePermit, "sleep")
  /\ idlePermit' = IF shutdown THEN idlePermit ELSE FALSE
  /\ UNCHANGED <<phase, active, revision, activity, mutex, waiting, rpc, calls, readers>>

Sleep == Await("sleep", TRUE, "read") /\ UNCHANGED vars

ReadActivity ==
  /\ mpc = "read"
  /\ mpc' = "check" /\ seenActivity' = activity
  /\ UNCHANGED <<vars, reclaimed, shutdown, reclaims, unreclaimed>>

\* A decision to reclaim or to wait for the next idle period.
Decide(from, reclaim, to) ==
  /\ mpc = from
  /\ mpc' = IF reclaim THEN to ELSE "wait"
  /\ unreclaimed' = (unreclaimed /\ ~ (reclaim /\ to # "recheck_activity"))
  /\ UNCHANGED <<vars, seenActivity, reclaimed, shutdown, reclaims>>

CheckIdle == Decide("check", active = 0 /\ seenActivity # reclaimed, "reclaim")

\* The blocking task ran, or panicked and ended the reclaimer.
Reclaim(from, to, remembered) ==
  /\ mpc = from
  /\ \/ mpc' = to /\ reclaimed' = remembered
     \/ mpc' = "done" /\ UNCHANGED reclaimed
  /\ reclaims' = [reclaims EXCEPT ![seenActivity] = @ + 1]
  /\ UNCHANGED <<vars, seenActivity, shutdown, unreclaimed>>

ReclaimFirst == Reclaim("reclaim", "follow_up", seenActivity)

FollowUp == Await("follow_up", TRUE, "recheck") /\ UNCHANGED vars

\* The count is read before the revision.
RecheckActive == Decide("recheck", active = 0, "recheck_activity")

RecheckActivity == Decide("recheck_activity", activity = reclaimed, "reclaim_again")

\* The fault of remembering the revision that is current after the reclaim.
ReclaimAgainLate == Reclaim("reclaim_again", "wait", activity)

ReclaimAgain == Reclaim("reclaim_again", "wait", reclaimed)

RequestShutdown ==
  /\ ~ shutdown /\ shutdown' = TRUE
  /\ UNCHANGED <<vars, mpc, seenActivity, reclaimed, reclaims, unreclaimed>>

Reclaimer ==
  \/ WaitForIdle \/ Sleep \/ ReadActivity \/ CheckIdle \/ ReclaimFirst
  \/ FollowUp \/ RecheckActive \/ RecheckActivity \/ ReclaimAgain

\* Bound: a request starts only while the activity revision has room for its
\* two increments and those of the others.
MayStart == activity + 2 * Cardinality(Requests) <= MaxActivity

\* A step of a request, and whether it leaves the service idle.
RequestMoves(r) ==
  /\ RequestRuns(r)
  /\ unreclaimed' = (unreclaimed \/ (active > 0 /\ active' = 0))
  /\ UNCHANGED <<mpc, seenActivity, reclaimed, shutdown, reclaims>>

MemoryNext ==
  \/ \E r \in Requests : (MayStart /\ TryEnter(r) /\ UNCHANGED memory) \/ RequestMoves(r)
  \/ MarkRunning /\ UNCHANGED memory
  \/ StorePhase(Owner) /\ UNCHANGED memory
  \/ SendWatch(Owner) /\ UNCHANGED memory
  \/ Reclaimer
  \/ RequestShutdown

\* The tasks that can run do run, and the sleeps end.
MemoryFairness ==
  /\ \A r \in Requests : WF_<<vars, memory>>(RequestMoves(r))
  /\ WF_<<vars, memory>>(Reclaimer)

MemorySpec == MemoryInit /\ [][MemoryNext]_<<vars, memory>> /\ MemoryFairness

\* The reclaimer has been shut down, and nothing asks for admission.
MemoryEnded ==
  /\ Init
  /\ mpc = "done" /\ seenActivity = 0 /\ reclaimed = activity
  /\ shutdown = TRUE
  /\ reclaims = [a \in 0..MaxActivity |-> 0] /\ unreclaimed = FALSE

-----------------------------------------------------------------------------
(* Properties.                                                             *)

\* A revision of the activity counter that the reclaimer read is reclaimed at
\* most twice: once after the idle delay and once as a follow-up.
AtMostTwicePerRevision == \A a \in 0..MaxActivity : reclaims[a] <= 2

\* No request is inside the admission protocol.
Quiet == \A r \in Requests : rpc[r] = "idle"

\* The permit, the sleep and the comparison of revisions lose no idle period:
\* when the service stays idle, a reclaim has begun after its last request
\* left (unless the reclaimer was shut down or its blocking task failed).
IdleIsReclaimed == <>[](Quiet /\ mpc # "done") => <>[](~ unreclaimed)

\* A shutdown of the reclaimer ends it from whatever it is waiting for.
ShutdownEndsReclaimer == shutdown ~> (mpc = "done")
=============================================================================
