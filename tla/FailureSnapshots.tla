-------------------------- MODULE FailureSnapshots --------------------------
(***************************************************************************)
(* The failure snapshot recorder                                           *)
(* (crates/wokcore-diagnostics/src/snapshot.rs): requests with a key and   *)
(* the second they were observed in go through a bounded queue to one      *)
(* owner, which suppresses repetitions and bursts, writes a numbered file  *)
(* and keeps the newest.  Every snapshot is one unit of the budget.        *)
(***************************************************************************)
EXTENDS Integers, Sequences, SequencesExt, FiniteSetsExt

CONSTANTS
  Keys,          \* (cause, correlation) of a request
  MaxTime,       \* seconds
  MaxMade,      \* requests made
  QueueCap,      \* SNAPSHOT_QUEUE_CAPACITY
  Cooldown,      \* SNAPSHOT_COOLDOWN_SECONDS
  Window,        \* the 60 seconds of the budget
  WriteBudget,   \* write_budget_per_minute
  MaxKeys,       \* MAX_COOLDOWN_KEYS
  Kept,          \* MAX_FAILURE_SNAPSHOTS
  OpenFaults     \* may a snapshot fail to open, as when no descriptor is left

VARIABLES
  second,      \* the clock the requests read
  requests,    \* the queue
  stop,        \* running, requested (shutdown.requested), closed (the queue), over
  cooldowns,   \* <<key, second>> in the order they were entered
  budgetClock, buckets,
  nextNumber,  \* next_snapshot
  snapshots,   \* numbers of the files
  cleaning,    \* what remove_unretained will keep, while it has not
  counted,     \* metrics.atoms: dropped, suppressed, failed and
               \* deferred (io_errors), written
  pending,     \* pending_suppressions, all counters together
  drained,     \* history: total of the summaries drained
  made,       \* history: requests made
  writes       \* history: <<number, budget clock>> of the files published

ownerVars == <<cooldowns, budgetClock, buckets, nextNumber>>
snapshotVars == <<second, requests, stop, ownerVars, snapshots, cleaning, counted, pending,
                  drained, made, writes>>

Idle == {-1}
Nothing == [dropped |-> 0, suppressed |-> 0, failed |-> 0, written |-> 0, deferred |-> 0]

SnapshotInit ==
  /\ second = 0 /\ requests = <<>> /\ stop = "running"
  /\ cooldowns = <<>> /\ budgetClock = 0 /\ buckets = {} /\ nextNumber = 1
  /\ snapshots \in {{}, 1..Kept} /\ cleaning = Idle
  /\ counted = Nothing /\ pending = 0 /\ drained = 0 /\ made = 0 /\ writes = <<>>

Count(field) == counted' = [counted EXCEPT ![field] = @ + 1]

Tick ==
  /\ second < MaxTime
  /\ second' = second + 1
  /\ UNCHANGED <<requests, stop, ownerVars, snapshots, cleaning, counted, pending, drained, made, writes>>

-----------------------------------------------------------------------------
\* SnapshotRecorder::try_request, which never waits; what it is about may have
\* been observed a second before.
TryRequest(key, at) ==
  /\ made < MaxMade
  /\ made' = made + 1
  /\ IF stop = "running" /\ Len(requests) < QueueCap
     THEN requests' = Append(requests, <<key, at>>) /\ UNCHANGED <<counted, pending>>
     ELSE Count("dropped") /\ pending' = pending + 1 /\ UNCHANGED requests
  /\ UNCHANGED <<second, stop, ownerVars, snapshots, cleaning, drained, writes>>

\* SnapshotShutdown::request, and run closing the queue at its next turn.
RequestStop ==
  /\ stop = "running"
  /\ stop' = "requested"
  /\ UNCHANGED <<second, requests, ownerVars, snapshots, cleaning, counted, pending, drained, made, writes>>

RunStops ==
  /\ \/ stop = "requested" /\ stop' = "closed"
     \/ stop = "closed" /\ requests = <<>> /\ stop' = "over"
  /\ cleaning = Idle
  /\ UNCHANGED <<second, requests, ownerVars, snapshots, cleaning, counted, pending, drained, made, writes>>

\* drain_suppression_summary.
Drain ==
  /\ pending > 0
  /\ drained' = drained + pending
  /\ pending' = 0
  /\ UNCHANGED <<second, requests, stop, ownerVars, snapshots, cleaning, counted, made, writes>>

-----------------------------------------------------------------------------
(* SnapshotOwner::process.                                                 *)

Cooling(key, at) == \E c \in ToSet(cooldowns) : c[1] = key /\ at - c[2] < Cooldown

\* record_cooldown: the oldest entry makes room.
WithCooldown(key, at) ==
  IF \E c \in ToSet(cooldowns) : c[1] = key
  THEN [i \in DOMAIN cooldowns |-> IF cooldowns[i][1] = key THEN <<key, at>> ELSE cooldowns[i]]
  ELSE Append(IF Len(cooldowns) = MaxKeys THEN Tail(cooldowns) ELSE cooldowns, <<key, at>>)

Clock(at) == IF at > budgetClock THEN at ELSE budgetClock
Recent(clock) == {b \in buckets : clock - b[1] < Window}
Spent(clock) == FoldSet(LAMBDA b, n : n + b[2], 0, Recent(clock))

\* account_published: what is written counts at the clock of the budget.
Charged(clock) ==
  LET at == {b \in Recent(clock) : b[1] = clock}
      now == FoldSet(LAMBDA b, n : n + b[2], 0, at)
  IN (Recent(clock) \ at) \cup {<<clock, now + 1>>}

\* The snapshots one pass of completed takes for its own: one that does not
\* open is passed over.
Seen(files) == IF OpenFaults THEN SUBSET files ELSE {files}

\* A retention of the oldest.
Oldest(numbers) == {n \in numbers : Cardinality({m \in numbers : m < n}) < Kept}

\* The retained of a set of numbers.
Newest(numbers) == {n \in numbers : Cardinality({m \in numbers : m > n}) < Kept}
After(numbers) == Max({nextNumber} \cup {n + 1 : n \in numbers})

Take ==
  /\ requests # <<>> /\ stop # "over" /\ cleaning = Idle
  /\ requests' = Tail(requests)
  /\ UNCHANGED <<second, stop, drained, made>>

\* A repetition, or too much in one minute.
Suppress ==
  LET key == Head(requests)[1]  at == Head(requests)[2] IN
  /\ Take
  /\ \/ Cooling(key, at) /\ UNCHANGED <<budgetClock, buckets>>
     \/ /\ ~ Cooling(key, at) /\ Spent(Clock(at)) + 1 > WriteBudget
        /\ budgetClock' = Clock(at) /\ buckets' = Recent(Clock(at))
  /\ Count("suppressed") /\ pending' = pending + 1
  /\ UNCHANGED <<cooldowns, nextNumber, snapshots, cleaning, writes>>

\* write_snapshot up to the commit: the number after all that are seen, and a
\* file that must be new.  The cooldown stands even if the write fails.
Write ==
  LET key == Head(requests)[1]  at == Head(requests)[2] IN
  /\ Take
  /\ ~ Cooling(key, at) /\ Spent(Clock(at)) + 1 <= WriteBudget
  /\ cooldowns' = WithCooldown(key, at)
  /\ budgetClock' = Clock(at)
  /\ \E seen \in Seen(snapshots) :
       LET number == After(seen) IN
       \/ /\ number \notin snapshots
          /\ snapshots' = snapshots \cup {number}
          /\ nextNumber' = number + 1
          /\ buckets' = Charged(Clock(at))
          /\ writes' = Append(writes, <<number, Clock(at)>>)
          /\ \/ /\ \E again \in Seen(snapshots') : cleaning' = Newest(again)
                /\ Count("written") /\ UNCHANGED pending
             \/ /\ counted' = [counted EXCEPT !.written = @ + 1, !.deferred = @ + 1]
                /\ pending' = pending + 1 /\ UNCHANGED cleaning
       \/ /\ nextNumber' = number
          /\ buckets' = Recent(Clock(at))
          /\ Count("failed") /\ pending' = pending + 1
          /\ UNCHANGED <<snapshots, cleaning, writes>>

\* remove_unretained: another pass, which removes what it sees and the first
\* did not retain, or gives up on the way.
RemoveUnretained ==
  /\ cleaning # Idle
  /\ \E seen \in Seen(snapshots), done \in BOOLEAN :
       LET unretained == seen \ cleaning IN
       IF done
       THEN snapshots' = snapshots \ unretained /\ UNCHANGED <<counted, pending>>
       ELSE /\ unretained # {} /\ Count("deferred") /\ pending' = pending + 1
            /\ \E some \in SUBSET unretained :
                 some # unretained /\ snapshots' = snapshots \ some
  /\ cleaning' = Idle
  /\ UNCHANGED <<second, requests, stop, ownerVars, drained, made, writes>>

SnapshotNext ==
  \/ Tick \/ RequestStop \/ RunStops \/ Drain \/ Suppress \/ Write \/ RemoveUnretained
  \/ \E key \in Keys, at \in {second, second - 1} \cap Nat : TryRequest(key, at)

-----------------------------------------------------------------------------
\* In every window of the budget's clock no more is written than the budget,
\* however late and in whatever order the requests were observed.
WithinBudget ==
  \A t \in 0..MaxTime :
    Len(SelectSeq(writes, LAMBDA w : t - Window < w[2] /\ w[2] <= t)) <= WriteBudget

\* Every request ends up somewhere: written or counted once, or still queued;
\* and every loss is in the summary once, whatever was drained in between.
RequestsAreAccounted ==
  /\ made = Len(requests) + counted.dropped + counted.suppressed + counted.failed + counted.written
  /\ pending + drained = counted.dropped + counted.suppressed + counted.failed + counted.deferred
  /\ stop = "over" => requests = <<>>

\* The newest snapshots published are on the disk.
NewestAreKept ==
  LET published == {writes[i][1] : i \in DOMAIN writes} IN Newest(published) \subseteq snapshots
=============================================================================
