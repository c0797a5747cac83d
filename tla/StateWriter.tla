----------------------------- MODULE StateWriter -----------------------------
(* The writer of the state database (wokcore-storage state/writer.rs) and the *)
(* handle of the service around it (wokcore-server observability/writer.rs):  *)
(* one thread that owns the store, a bounded queue of commands, request       *)
(* metrics collected into batches, and a shutdown that flushes, checkpoints   *)
(* and closes.                                                                *)
EXTENDS Naturals, Sequences, FiniteSetTheorems, TLAPS

CONSTANTS
    Requests,   \* requests, each observing one metric
    Scans,      \* writes of scanners, which retry a full queue
    BatchRows,  \* REQUEST_METRIC_BATCH_ROWS
    QueueCap    \* STATE_STORE_WRITER_QUEUE_CAPACITY

ASSUME WriterAssumption == IsFiniteSet(Requests)

VARIABLES
    metric,     \* a request: idle, holding a batch it must send, or done
    rows,       \* the pending metrics (PendingRequestMetrics)
    dropped,    \* dropped_request_metrics
    queue,      \* the channel of commands
    open,       \* whether the receiver accepts commands
    stored,     \* how often each metric was stored
    failed,     \* metrics of a batch the database refused
    scan,       \* a scanner's write: waiting to send, sent, or its answer
    written,    \* scanner writes the store has executed
    writer,     \* running, or ended (with the acknowledgement sent)
    stop        \* checkpoint_and_shutdown: [pc, batch]

wvars == <<metric, rows, dropped, queue, open, stored, failed, scan, written, writer, stop>>

Execute(kind, what) == [is |-> "execute", of |-> kind, what |-> what]
Flush == [is |-> "flush"]
Checkpoint == [is |-> "checkpoint"]
CloseWriter == [is |-> "shutdown"]

Accepts == open /\ Len(queue) < QueueCap

-----------------------------------------------------------------------------
(* StateWriterHandle::observe_request_metric.                                 *)

\* Under the lock: the metric is added, or dropped when the batch is full; a
\* batch that is full or older than the flush interval is taken.
Observe(r) ==
    /\ metric[r] = [pc |-> "idle", batch |-> {}]
    /\ IF Cardinality(rows) >= BatchRows
       THEN /\ dropped' = dropped + 1
            /\ metric' = [metric EXCEPT ![r] = [pc |-> "done", batch |-> {}]]
            /\ UNCHANGED rows
       ELSE LET all == rows \union {r} IN
            /\ \/ /\ rows' = {}
                  /\ metric' = [metric EXCEPT ![r] = [pc |-> "send", batch |-> all]]
               \/ /\ Cardinality(all) < BatchRows
                  /\ rows' = all
                  /\ metric' = [metric EXCEPT ![r] = [pc |-> "done", batch |-> {}]]
            /\ UNCHANGED dropped
    /\ UNCHANGED <<queue, open, stored, failed, scan, written, writer, stop>>

\* A faulty SendBatch: a refused batch counts as one.
SendBatchCountsOne(r) ==
    /\ metric[r].pc = "send"
    /\ IF Accepts
       THEN /\ queue' = Append(queue, Execute("metrics", metric[r].batch))
            /\ UNCHANGED dropped
       ELSE dropped' = dropped + 1 /\ UNCHANGED queue
    /\ metric' = [metric EXCEPT ![r] = [pc |-> "done", batch |-> {}]]
    /\ UNCHANGED <<rows, open, stored, failed, scan, written, writer, stop>>

\* try_execute: the command, then the activity.  A full or closed queue drops
\* the batch.
SendBatch(r) ==
    /\ metric[r].pc = "send"
    /\ IF Accepts
       THEN /\ queue' = Append(queue, Execute("metrics", metric[r].batch))
            /\ UNCHANGED dropped
       ELSE dropped' = dropped + Cardinality(metric[r].batch) /\ UNCHANGED queue
    /\ metric' = [metric EXCEPT ![r] = [pc |-> "done", batch |-> {}]]
    /\ UNCHANGED <<rows, open, stored, failed, scan, written, writer, stop>>

-----------------------------------------------------------------------------
(* SessionState of the scanners: retried while the queue is full.             *)

SendScan(c) ==
    /\ scan[c] = "send" /\ (Accepts \/ ~open)
    /\ IF open
       THEN /\ queue' = Append(queue, Execute("scan", c))
            /\ scan' = [scan EXCEPT ![c] = "wait"]
       ELSE scan' = [scan EXCEPT ![c] = "unavailable"] /\ UNCHANGED queue
    /\ UNCHANGED <<metric, rows, dropped, open, stored, failed, written, writer, stop>>

-----------------------------------------------------------------------------
(* StateStoreWriter::run_one.                                                 *)

RunExecute ==
    /\ writer = "running" /\ queue # << >> /\ Head(queue).is = "execute"
    /\ LET c == Head(queue) IN
       IF c.of = "scan"
       THEN /\ written' = written \union {c.what}
            /\ scan' = [scan EXCEPT ![c.what] = "answered"]
            /\ UNCHANGED <<stored, failed, stop>>
       ELSE \E ok \in BOOLEAN :
            /\ stored' = [m \in Requests |-> stored[m] + (IF ok /\ m \in c.what THEN 1 ELSE 0)]
            /\ failed' = failed + (IF ok THEN 0 ELSE Cardinality(c.what))
            \* a flush that failed is over: the next step is the checkpoint
            /\ stop' = IF c.of = "metrics" THEN stop
                       ELSE [pc |-> IF ok THEN "flush" ELSE "flushed", batch |-> {}]
            /\ UNCHANGED <<written, scan>>
    /\ queue' = Tail(queue)
    /\ UNCHANGED <<metric, rows, dropped, open, writer>>

RunFlush ==
    /\ writer = "running" /\ queue # << >> /\ Head(queue).is = "flush"
    /\ stop' = [stop EXCEPT !.pc = "flushed"]
    /\ queue' = Tail(queue)
    /\ UNCHANGED <<metric, rows, dropped, open, stored, failed, scan, written, writer>>

\* A passive checkpoint, and a truncation after an idle interval: both change
\* the files only (WalReplay).
RunCheckpoint ==
    /\ writer = "running" /\ queue # << >> /\ Head(queue).is = "checkpoint"
    /\ stop' = [stop EXCEPT !.pc = "checked"]
    /\ queue' = Tail(queue)
    /\ UNCHANGED <<metric, rows, dropped, open, stored, failed, scan, written, writer>>

\* A faulty RunClose: the commands behind the shutdown are discarded.
RunCloseNow ==
    /\ writer = "running" /\ queue # << >> /\ Head(queue).is = "shutdown"
    /\ open' = FALSE
    /\ queue' = << >>
    /\ UNCHANGED <<metric, rows, dropped, stored, failed, scan, written, writer, stop>>

\* The receiver closes; what is queued is still received.
RunClose ==
    /\ writer = "running" /\ queue # << >> /\ Head(queue).is = "shutdown"
    /\ open' = FALSE
    /\ queue' = Tail(queue)
    /\ UNCHANGED <<metric, rows, dropped, stored, failed, scan, written, writer, stop>>

RunEnd ==
    /\ writer = "running" /\ ~open /\ queue = << >>
    /\ writer' = "ended"
    /\ UNCHANGED <<metric, rows, dropped, queue, open, stored, failed, scan, written, stop>>

-----------------------------------------------------------------------------
(* RunningStateWriter::flush and checkpoint_and_shutdown, each retried while  *)
(* the queue is full.                                                         *)

\* flush_pending_request_metrics takes the batch once; an empty one is not sent.
TakePending ==
    /\ stop.pc = "running"
    /\ stop' = [pc |-> IF rows = {} THEN "flush" ELSE "pending", batch |-> rows]
    /\ rows' = {}
    /\ UNCHANGED <<metric, dropped, queue, open, stored, failed, scan, written, writer>>

AskWriter(from, to, command) ==
    /\ stop.pc = from /\ Accepts
    /\ queue' = Append(queue, command)
    /\ stop' = [pc |-> to, batch |-> {}]
    /\ UNCHANGED <<metric, rows, dropped, open, stored, failed, scan, written, writer>>

SendPending == AskWriter("pending", "storing", Execute("flush", stop.batch))
AskFlush == AskWriter("flush", "flushing", Flush)
AskCheckpoint == AskWriter("flushed", "checking", Checkpoint)
AskClose == AskWriter("checked", "closing", CloseWriter)

Join ==
    /\ stop.pc = "closing" /\ writer = "ended"
    /\ stop' = [stop EXCEPT !.pc = "joined"]
    /\ UNCHANGED <<metric, rows, dropped, queue, open, stored, failed, scan, written, writer>>

-----------------------------------------------------------------------------
WriterInit ==
    /\ metric = [r \in Requests |-> [pc |-> "idle", batch |-> {}]]
    /\ rows = {} /\ dropped = 0 /\ queue = << >> /\ open = TRUE
    /\ stored = [r \in Requests |-> 0] /\ failed = 0
    /\ scan = [c \in Scans |-> "send"] /\ written = {}
    /\ writer = "running" /\ stop = [pc |-> "running", batch |-> {}]

\* A writer that has been shut down.
WriterEnded ==
    /\ metric = [r \in Requests |-> [pc |-> "done", batch |-> {}]]
    /\ rows = {} /\ dropped = 0 /\ queue = << >> /\ open = FALSE
    /\ stored = [r \in Requests |-> 1] /\ failed = 0
    /\ scan = [c \in Scans |-> "answered"] /\ written = Scans
    /\ writer = "ended" /\ stop = [pc |-> "joined", batch |-> {}]

Thread == RunExecute \/ RunFlush \/ RunCheckpoint \/ RunClose \/ RunEnd
Stopping == TakePending \/ SendPending \/ AskFlush \/ AskCheckpoint \/ AskClose \/ Join

WriterNext ==
    \/ \E r \in Requests : Observe(r) \/ SendBatch(r)
    \/ \E c \in Scans : SendScan(c)
    \/ Thread \/ Stopping

WriterFairness == WF_wvars(Thread) /\ SF_wvars(Stopping) /\ \A c \in Scans : SF_wvars(SendScan(c))

WriterSpec == WriterInit /\ [][WriterNext]_wvars /\ WriterFairness

-----------------------------------------------------------------------------
Batch(command) ==
    IF command.is = "execute" /\ command.of # "scan" THEN command.what ELSE {}
InFlight(m) == \E r \in Requests : m \in metric[r].batch
Queued(m) == \E i \in 1..Len(queue) : m \in Batch(queue[i])
OneBatch(m) ==
    \A r, s \in Requests : m \in metric[r].batch /\ m \in metric[s].batch => r = s
OneCommand(m) ==
    \A i, j \in 1..Len(queue) : m \in Batch(queue[i]) /\ m \in Batch(queue[j]) => i = j
Seen == {r \in Requests : metric[r].pc # "idle"}
Kept == {m \in Requests : \/ m \in rows \/ m \in stop.batch \/ stored[m] = 1
                          \/ InFlight(m) \/ Queued(m)}

\* A metric is in one place at most: pending, in one request's batch, in one command, in
\* the batch of the shutdown, or stored, and stored once.
OnePlace(m) ==
    /\ m \in rows => m \notin stop.batch /\ stored[m] = 0 /\ ~InFlight(m) /\ ~Queued(m)
    /\ m \in stop.batch => stored[m] = 0 /\ ~InFlight(m) /\ ~Queued(m)
    /\ InFlight(m) => stored[m] = 0 /\ ~Queued(m)
    /\ Queued(m) => stored[m] = 0
    /\ stored[m] <= 1
    /\ OneBatch(m) /\ OneCommand(m)

\* Every metric that was observed is in one place, or was dropped and counted when the batch
\* or the queue was full, or was in a batch that the database refused (which nobody counts)
\* (observe_request_metric, try_execute, flush_pending_request_metrics, run_one).
MetricsAreAccounted ==
    /\ \A m \in Requests : OnePlace(m)
    /\ Cardinality(Seen) = Cardinality(Kept) + dropped + failed

\* A write the queue accepted is executed and answered, also one that was
\* queued behind the shutdown command, a write it refuses fails, and
\* checkpoint_and_shutdown returns although the queue may be full each time.
WritesAreExecuted ==
    <>(stop.pc = "joined" /\ \A c \in Scans : scan[c] \in {"answered", "unavailable"})

-----------------------------------------------------------------------------
(* For any number of requests and scanners, any size of a batch and any      *)
(* capacity of the queue.                                                     *)

MetricCommands == [is : {"execute"}, of : {"metrics", "flush"}, what : SUBSET Requests]
ScanCommands == [is : {"execute"}, of : {"scan"}, what : Scans]
Commands == MetricCommands \cup ScanCommands \cup [is : {"flush", "checkpoint", "shutdown"}]

WriterTypes ==
    /\ metric \in [Requests -> [pc : {"idle", "send", "done"}, batch : SUBSET Requests]]
    /\ rows \in SUBSET Requests
    /\ dropped \in Nat /\ failed \in Nat
    /\ queue \in Seq(Commands)
    /\ stored \in [Requests -> Nat]
    /\ stop \in [pc : {"running", "pending", "storing", "flush", "flushing", "flushed",
                       "checking", "checked", "closing", "joined"},
                 batch : SUBSET Requests]

\* What checkpoint_and_shutdown does while a command of its own is queued.
OfShutdown(c) == c.is # "execute" \/ c.of = "flush"
Awaited(c) ==
    IF c.is = "execute" THEN {"storing"}
    ELSE IF c.is = "flush" THEN {"flushing"}
    ELSE IF c.is = "checkpoint" THEN {"checking"} ELSE {"closing", "joined"}

\* The shutdown waits for each of its commands: one is queued at most.
ShutdownInv ==
    /\ stop.pc # "pending" => stop.batch = {}
    /\ \A i \in 1..Len(queue) : OfShutdown(queue[i]) => stop.pc \in Awaited(queue[i])
    /\ \A i, j \in 1..Len(queue) : OfShutdown(queue[i]) /\ OfShutdown(queue[j]) => i = j

WriterInv ==
    /\ WriterTypes
    /\ MetricsAreAccounted
    /\ Kept \subseteq Seen
    /\ \A r \in Requests : metric[r].pc # "send" => metric[r].batch = {}
    /\ ShutdownInv

\* A metric more.
LEMMA OneMore ==
  ASSUME NEW S \in SUBSET Requests, NEW r \in Requests \ S
  PROVE  /\ Cardinality(S) \in Nat
         /\ Cardinality(S \cup {r}) = Cardinality(S) + 1
<1>1. IsFiniteSet(S)
  BY WriterAssumption, FS_Subset
<1> QED
  BY <1>1, FS_AddElement, FS_CardinalityType

\* A batch fewer.
LEMMA BatchFewer ==
  ASSUME NEW S \in SUBSET Requests, NEW B \in SUBSET S
  PROVE  /\ Cardinality(B) \in Nat /\ Cardinality(S \ B) \in Nat
         /\ Cardinality(S) = Cardinality(S \ B) + Cardinality(B)
<1>1. IsFiniteSet(S) /\ IsFiniteSet(B) /\ IsFiniteSet(S \ B)
  BY WriterAssumption, FS_Subset
<1>2. (S \ B) \cup B = S /\ (S \ B) \cap B = {}
  OBVIOUS
<1>3. /\ Cardinality((S \ B) \cup B)
          = Cardinality(S \ B) + Cardinality(B) - Cardinality((S \ B) \cap B)
      /\ Cardinality({}) = 0
  BY <1>1, FS_Union, FS_EmptySet
<1>4. Cardinality(S \ B) \in Nat /\ Cardinality(B) \in Nat /\ Cardinality(S) \in Nat
  BY <1>1, FS_CardinalityType
<1>5. Cardinality(S) = Cardinality(S \ B) + Cardinality(B) - 0
  BY <1>2, <1>3, Zenon
<1> QED
  BY <1>4, <1>5

\* The counts are of finite sets.
LEMMA CountsAreNatural ==
  ASSUME WriterTypes
  PROVE  Cardinality(Seen) \in Nat /\ Cardinality(Kept) \in Nat
<1>1. IsFiniteSet(Seen) /\ IsFiniteSet(Kept)
  BY WriterAssumption, FS_Subset DEF Seen, Kept
<1> QED
  BY <1>1, FS_CardinalityType

\* What is sent is behind everything that is queued.
LEMMA Appended ==
  ASSUME WriterTypes, NEW c \in Commands, queue' = Append(queue, c)
  PROVE  /\ queue' \in Seq(Commands)
         /\ Len(queue') = Len(queue) + 1 /\ queue'[Len(queue) + 1] = c
         /\ \A i \in 1..Len(queue) : queue'[i] = queue[i]
         /\ \A m : Queued(m)' <=> Queued(m) \/ m \in Batch(c)
         /\ \A m : OneCommand(m) /\ ~(Queued(m) /\ m \in Batch(c)) => OneCommand(m)'
<1>1. /\ queue \in Seq(Commands) /\ queue' \in Seq(Commands) /\ Len(queue) \in Nat
      /\ Len(queue') = Len(queue) + 1 /\ queue'[Len(queue) + 1] = c
      /\ \A i \in 1..Len(queue) : queue'[i] = queue[i]
  BY DEF WriterTypes
<1>2. ASSUME NEW m PROVE Queued(m)' <=> Queued(m) \/ m \in Batch(c)
  <2>1. ASSUME NEW i \in 1..Len(queue) PROVE i \in 1..Len(queue')
    BY <1>1
  <2>2. Len(queue) + 1 \in 1..Len(queue')
    BY <1>1
  <2>3. ASSUME NEW i \in 1..Len(queue') PROVE i \in 1..Len(queue) \/ i = Len(queue) + 1
    BY <1>1
  <2> QED
    BY <1>1, <2>1, <2>2, <2>3, Zenon DEF Queued
<1>3. ASSUME NEW m, OneCommand(m), ~(Queued(m) /\ m \in Batch(c)) PROVE OneCommand(m)'
  <2> SUFFICES ASSUME NEW i \in 1..Len(queue'), NEW j \in 1..Len(queue'),
                      m \in Batch(queue'[i]), m \in Batch(queue'[j])
               PROVE  i = j
    BY DEF OneCommand
  <2>1. CASE i \in 1..Len(queue) /\ j \in 1..Len(queue)
    BY <1>1, <1>3, <2>1, Zenon DEF OneCommand
  <2>2. CASE i = Len(queue) + 1 /\ j \in 1..Len(queue)
    BY <1>1, <1>3, <2>2, Zenon DEF Queued
  <2>3. CASE j = Len(queue) + 1 /\ i \in 1..Len(queue)
    BY <1>1, <1>3, <2>3, Zenon DEF Queued
  <2> QED
    BY <1>1, <2>1, <2>2, <2>3
<1> QED
  BY <1>1, <1>2, <1>3

\* The writer takes the first command.
LEMMA Received ==
  ASSUME WriterTypes, queue # <<>>, queue' = Tail(queue)
  PROVE  /\ queue' \in Seq(Commands) /\ Head(queue) \in Commands
         /\ 1 \in 1..Len(queue) /\ Head(queue) = queue[1]
         /\ \A i \in 1..Len(queue') : i + 1 \in 1..Len(queue) /\ queue'[i] = queue[i + 1]
         /\ \A m : Queued(m) <=> Queued(m)' \/ m \in Batch(Head(queue))
         /\ \A m : OneCommand(m) => OneCommand(m)' /\ ~(Queued(m)' /\ m \in Batch(Head(queue)))
<1>1. /\ queue \in Seq(Commands) /\ queue' \in Seq(Commands) /\ Len(queue) \in Nat
      /\ Head(queue) \in Commands /\ Head(queue) = queue[1]
      /\ Len(queue) >= 1 /\ Len(queue') = Len(queue) - 1
      /\ \A i \in 1..Len(queue') : queue'[i] = queue[i + 1]
  BY DEF WriterTypes
<1>2. /\ 1 \in 1..Len(queue)
      /\ \A i \in 1..Len(queue') : i + 1 \in 1..Len(queue) /\ i + 1 # 1
      /\ \A i \in 1..Len(queue) : i = 1 \/ (i - 1 \in 1..Len(queue') /\ (i - 1) + 1 = i)
      /\ \A i, j \in 1..Len(queue') : i + 1 = j + 1 => i = j
  BY <1>1
<1>3. ASSUME NEW m PROVE Queued(m) <=> Queued(m)' \/ m \in Batch(Head(queue))
  <2>1. ASSUME Queued(m), m \notin Batch(Head(queue)) PROVE Queued(m)'
    <3>1. PICK i \in 1..Len(queue) : m \in Batch(queue[i])
      BY <2>1, Zenon DEF Queued
    <3>2. i - 1 \in 1..Len(queue') /\ queue'[i - 1] = queue[i]
      <4>1. i # 1
        BY <1>1, <2>1, <3>1, Zenon
      <4> QED
        BY <1>1, <1>2, <4>1, Zenon
    <3> QED
      BY <3>1, <3>2, Zenon DEF Queued
  <2>2. ASSUME Queued(m)' PROVE Queued(m)
    BY <1>1, <1>2, <2>2, Zenon DEF Queued
  <2>3. ASSUME m \in Batch(Head(queue)) PROVE Queued(m)
    BY <1>1, <1>2, <2>3, Zenon DEF Queued
  <2> QED
    BY <2>1, <2>2, <2>3
<1>4. ASSUME NEW m, OneCommand(m) PROVE OneCommand(m)'
  <2> SUFFICES ASSUME NEW i \in 1..Len(queue'), NEW j \in 1..Len(queue'),
                      m \in Batch(queue'[i]), m \in Batch(queue'[j])
               PROVE  i = j
    BY DEF OneCommand
  <2>1. m \in Batch(queue[i + 1]) /\ m \in Batch(queue[j + 1])
    BY <1>1, Zenon
  <2>2. i + 1 = j + 1
    BY <1>2, <1>4, <2>1, Zenon DEF OneCommand
  <2> QED
    BY <1>2, <2>2, Zenon
<1>5. ASSUME NEW m, OneCommand(m) PROVE ~(Queued(m)' /\ m \in Batch(Head(queue)))
  BY <1>1, <1>2, <1>5, Zenon DEF OneCommand, Queued
<1> QED
  BY <1>1, <1>2, <1>3, <1>4, <1>5

\* A command of somebody else leaves the shutdown alone.
LEMMA ShutdownAppended ==
  ASSUME WriterTypes, ShutdownInv, NEW c \in Commands, ~OfShutdown(c),
         queue' = Append(queue, c), stop' = stop
  PROVE  ShutdownInv'
<1>1. \A i \in 1..Len(queue') : i \in 1..Len(queue) \/ i = Len(queue) + 1
  BY Appended DEF WriterTypes
<1>2. \A i \in 1..Len(queue') : OfShutdown(queue'[i]) => i \in 1..Len(queue) /\ queue'[i] = queue[i]
  BY <1>1, Appended, Zenon
<1> QED
  BY <1>2, Zenon DEF ShutdownInv

\* The shutdown asks while none of its commands is queued.
LEMMA ShutdownAsks ==
  ASSUME WriterTypes, ShutdownInv, NEW c \in Commands, OfShutdown(c),
         queue' = Append(queue, c), stop.pc \in {"pending", "flush", "flushed", "checked"},
         stop'.batch = {}, stop'.pc \in Awaited(c)
  PROVE  ShutdownInv'
<1>1. \A i \in 1..Len(queue') : i \in 1..Len(queue) \/ i = Len(queue) + 1
  BY Appended DEF WriterTypes
<1>2. \A d : stop.pc \notin Awaited(d)
  BY DEF Awaited
<1>3. \A i \in 1..Len(queue) : ~OfShutdown(queue[i])
  BY <1>2, Zenon DEF ShutdownInv
<1>4. \A i \in 1..Len(queue') : OfShutdown(queue'[i]) => i = Len(queue) + 1 /\ queue'[i] = c
  BY <1>1, <1>3, Appended, Zenon
<1> QED
  BY <1>4, Zenon DEF ShutdownInv

\* A command is received.
LEMMA ShutdownReceived ==
  ASSUME WriterTypes, ShutdownInv, queue # <<>>, queue' = Tail(queue), stop' = stop
  PROVE  ShutdownInv'
<1>1. \A i, j \in 1..Len(queue') : i + 1 = j + 1 => i = j
  BY Received DEF WriterTypes
<1>2. ASSUME NEW i \in 1..Len(queue'), OfShutdown(queue'[i]) PROVE stop'.pc \in Awaited(queue'[i])
  BY <1>2, Received, Zenon DEF ShutdownInv
<1>3. ASSUME NEW i \in 1..Len(queue'), NEW j \in 1..Len(queue'),
             OfShutdown(queue'[i]), OfShutdown(queue'[j])
      PROVE  i = j
  <2>1. i + 1 = j + 1
    BY <1>3, Received, Zenon DEF ShutdownInv
  <2> QED
    BY <1>1, <2>1, Zenon
<1>4. stop'.pc # "pending" => stop'.batch = {}
  BY DEF ShutdownInv
<1> QED
  BY <1>2, <1>3, <1>4, Zenon DEF ShutdownInv

\* A command of the shutdown is answered.
LEMMA ShutdownAnswered ==
  ASSUME WriterTypes, ShutdownInv, queue # <<>>, queue' = Tail(queue),
         OfShutdown(Head(queue)), stop'.batch = {}
  PROVE  stop.batch = {} /\ ShutdownInv'
<1>1. \A i \in 1..Len(queue') : i + 1 # 1
  BY Received DEF WriterTypes
<1>2. stop.pc \in Awaited(Head(queue))
  BY Received, Zenon DEF ShutdownInv
<1>3. stop.batch = {}
  BY <1>2 DEF Awaited, ShutdownInv
<1>4. ASSUME NEW i \in 1..Len(queue') PROVE ~OfShutdown(queue'[i])
  BY <1>1, Received, Zenon DEF ShutdownInv
<1> QED
  BY <1>3, <1>4, Zenon DEF ShutdownInv

\* The first state.
LEMMA WriterStart == WriterInit => WriterInv
<1> SUFFICES ASSUME WriterInit PROVE WriterInv
  OBVIOUS
<1>1. WriterTypes
  BY DEF WriterInit, WriterTypes
<1>2. Len(queue) = 0 /\ 1..Len(queue) = {}
  BY DEF WriterInit
<1>3. \A m \in Requests : ~Queued(m) /\ ~InFlight(m) /\ OneCommand(m) /\ OneBatch(m)
  BY <1>2 DEF WriterInit, Queued, InFlight, OneCommand, OneBatch
<1>4. Seen = {} /\ Kept = {}
  BY <1>3 DEF Seen, Kept, WriterInit
<1>5. Cardinality(Seen) = Cardinality(Kept) + dropped + failed
  BY <1>4, FS_EmptySet DEF WriterInit
<1>6. \A m \in Requests : OnePlace(m)
  BY <1>3 DEF OnePlace, WriterInit
<1>7. ShutdownInv
  BY <1>2 DEF ShutdownInv, WriterInit
<1>8. \A r \in Requests : metric[r].pc # "send" => metric[r].batch = {}
  BY DEF WriterInit
<1> QED
  BY <1>1, <1>4, <1>5, <1>6, <1>7, <1>8 DEF WriterInv, MetricsAreAccounted

\* observe_request_metric, under the lock.
LEMMA ObserveStep ==
  ASSUME WriterInv, NEW r \in Requests, Observe(r)
  PROVE  WriterInv'
<1> USE DEF WriterInv
<1>1. /\ metric[r].pc = "idle" /\ metric[r].batch = {} /\ r \notin Seen /\ r \notin Kept
      /\ queue' = queue /\ stored' = stored /\ stop' = stop /\ failed' = failed
  BY DEF Observe, Seen
<1>2. \A m : (Queued(m)' <=> Queued(m)) /\ (OneCommand(m)' <=> OneCommand(m))
  BY <1>1, Zenon DEF Queued, OneCommand
<1>3. /\ r \notin rows /\ r \notin stop.batch /\ stored[r] # 1 /\ stored[r] = 0
      /\ ~InFlight(r) /\ ~Queued(r)
  BY <1>1 DEF Kept, WriterTypes, MetricsAreAccounted, OnePlace
<1>4. ShutdownInv'
  BY <1>1, Zenon DEF ShutdownInv
<1>5. CASE Cardinality(rows) >= BatchRows
  <2>1. /\ dropped' = dropped + 1 /\ rows' = rows
        /\ metric' = [metric EXCEPT ![r] = [pc |-> "done", batch |-> {}]]
    BY <1>5 DEF Observe
  <2>2. WriterTypes'
    BY <1>1, <2>1 DEF WriterTypes
  <2>3. \A s \in Requests : metric'[s].batch = metric[s].batch
    BY <1>1, <2>1, Zenon DEF WriterTypes
  <2>4. \A m : (InFlight(m)' <=> InFlight(m)) /\ (OneBatch(m)' <=> OneBatch(m))
    BY <2>3, Zenon DEF InFlight, OneBatch
  <2>5. Kept' = Kept
    BY <1>1, <1>2, <2>1, <2>4 DEF Kept
  <2>6. Seen' = Seen \cup {r}
    BY <2>1 DEF Seen, WriterTypes
  <2>7. /\ Cardinality(Seen') = Cardinality(Seen) + 1
        /\ Cardinality(Kept') = Cardinality(Kept)
    BY <1>1, <2>5, <2>6, OneMore DEF Seen
  <2>8. Cardinality(Seen') = Cardinality(Kept') + dropped' + failed'
    <3>1. /\ Cardinality(Seen) \in Nat /\ Cardinality(Kept) \in Nat
          /\ dropped \in Nat /\ failed \in Nat
          /\ Cardinality(Seen) = Cardinality(Kept) + dropped + failed
      BY CountsAreNatural, Zenon DEF WriterTypes, MetricsAreAccounted
    <3>2. dropped' = dropped + 1 /\ failed' = failed
      BY <1>1, <2>1
    <3> HIDE DEF WriterInv
    <3> QED
      BY <2>7, <3>1, <3>2
  <2>9. \A m \in Requests : OnePlace(m)'
    BY <1>1, <1>2, <2>1, <2>4 DEF OnePlace, MetricsAreAccounted
  <2>10. \A s \in Requests : metric'[s].pc # "send" => metric'[s].batch = {}
    BY <2>1 DEF WriterTypes
  <2>11. Kept' \subseteq Seen'
    BY <2>5, <2>6
  <2> QED
    BY <1>4, <2>2, <2>8, <2>9, <2>10, <2>11, Zenon DEF MetricsAreAccounted
<1>6. CASE ~(Cardinality(rows) >= BatchRows)
  <2>0. dropped' = dropped
    BY <1>6 DEF Observe
  <2>1. /\ \/ /\ rows' = {}
              /\ metric' = [metric EXCEPT ![r] = [pc |-> "send", batch |-> rows \cup {r}]]
           \/ /\ rows' = rows \cup {r}
              /\ metric' = [metric EXCEPT ![r] = [pc |-> "done", batch |-> {}]]
    BY <1>6 DEF Observe
  <2>2. WriterTypes'
    BY <1>1, <2>0, <2>1 DEF WriterTypes
  <2>3. /\ \A s \in Requests \ {r} : metric'[s] = metric[s]
        /\ \/ rows' = {} /\ metric'[r].batch = rows \cup {r}
           \/ rows' = rows \cup {r} /\ metric'[r].batch = {}
        /\ metric'[r].pc # "idle"
        /\ metric'[r].pc # "send" => metric'[r].batch = {}
    BY <1>1, <2>1 DEF WriterTypes
  <2>4. ASSUME NEW m \in Requests
        PROVE  /\ m \in rows' \/ InFlight(m)' <=> m \in rows \/ InFlight(m) \/ m = r
               /\ m \in rows' => ~InFlight(m)'
               /\ OneBatch(m)'
    <3>1. OnePlace(m)
      BY DEF MetricsAreAccounted
    <3> QED
      BY <1>1, <1>3, <2>3, <3>1 DEF InFlight, OneBatch, OnePlace
  <2>5. \A m \in Requests : OnePlace(m)'
    <3> SUFFICES ASSUME NEW m \in Requests PROVE OnePlace(m)'
      OBVIOUS
    <3>1. OnePlace(m)
      BY DEF MetricsAreAccounted
    <3> QED
      BY <1>1, <1>2, <1>3, <2>4, <3>1 DEF OnePlace
  <2>6. Kept' = Kept \cup {r}
    BY <1>1, <1>2, <2>4 DEF Kept
  <2>7. Seen' = Seen \cup {r}
    BY <2>3 DEF Seen
  <2>8. /\ Cardinality(Seen') = Cardinality(Seen) + 1
        /\ Cardinality(Kept') = Cardinality(Kept) + 1
    BY <1>1, <2>6, <2>7, OneMore, Zenon DEF Seen, Kept
  <2>9. Cardinality(Seen') = Cardinality(Kept') + dropped' + failed'
    BY <1>1, <2>0, <2>8, CountsAreNatural DEF WriterTypes, MetricsAreAccounted
  <2>10. \A s \in Requests : metric'[s].pc # "send" => metric'[s].batch = {}
    BY <2>3
  <2>11. Kept' \subseteq Seen'
    BY <2>6, <2>7
  <2> QED
    BY <1>4, <2>2, <2>5, <2>9, <2>10, <2>11, Zenon DEF MetricsAreAccounted
<1> QED
  BY <1>5, <1>6

\* A batch is sent, or dropped and counted.
LEMMA SendBatchStep ==
  ASSUME WriterInv, NEW r \in Requests, SendBatch(r)
  PROVE  WriterInv'
<1> DEFINE B == metric[r].batch
           c == Execute("metrics", B)
<1> USE DEF WriterInv
<1>1. /\ metric' = [metric EXCEPT ![r] = [pc |-> "done", batch |-> {}]]
      /\ rows' = rows /\ stored' = stored /\ stop' = stop /\ failed' = failed
      /\ metric[r].pc = "send" /\ B \in SUBSET Requests
  BY DEF SendBatch, WriterTypes
<1>2. /\ \A s \in Requests \ {r} : metric'[s] = metric[s]
      /\ metric'[r].pc = "done" /\ metric'[r].batch = {}
  BY <1>1 DEF WriterTypes
<1>3. ASSUME NEW m \in Requests
      PROVE  /\ OneBatch(m)' /\ (InFlight(m)' \/ m \in B <=> InFlight(m))
             /\ ~(InFlight(m)' /\ m \in B)
  <2>1. OnePlace(m)
    BY DEF MetricsAreAccounted
  <2> QED
    BY <1>2, <2>1 DEF InFlight, OneBatch, OnePlace
<1>4. Seen' = Seen
  BY <1>1, <1>2 DEF Seen
<1>5. \A s \in Requests : metric'[s].pc # "send" => metric'[s].batch = {}
  BY <1>2
<1>6. c \in Commands /\ Batch(c) = B /\ ~OfShutdown(c)
  BY <1>1 DEF Execute, Commands, MetricCommands, Batch, OfShutdown
<1> HIDE DEF c
<1>7. ASSUME NEW m \in Requests, m \in B
      PROVE  ~Queued(m) /\ stored[m] = 0 /\ m \notin rows /\ m \notin stop.batch
  BY <1>3, <1>7 DEF MetricsAreAccounted, OnePlace
<1>8. CASE Accepts
  <2>1. queue' = Append(queue, c) /\ dropped' = dropped
    BY <1>8 DEF SendBatch, c
  <2>2. WriterTypes'
    BY <1>1, <1>6, <2>1, Appended DEF WriterTypes
  <2>3. ShutdownInv'
    BY <1>1, <1>6, <2>1, ShutdownAppended
  <2>4. ASSUME NEW m \in Requests
        PROVE  /\ Queued(m)' <=> Queued(m) \/ m \in B
               /\ OneCommand(m)'
    <3>1. OneCommand(m)
      BY DEF MetricsAreAccounted, OnePlace
    <3> QED
      <4>1. /\ Queued(m)' <=> Queued(m) \/ m \in Batch(c)
            /\ OneCommand(m) /\ ~(Queued(m) /\ m \in Batch(c)) => OneCommand(m)'
        BY <1>6, <2>1, Appended, Zenon
      <4> QED
        BY <1>6, <1>7, <3>1, <4>1, Zenon
  <2>5. \A m \in Requests : OnePlace(m)'
    BY <1>1, <1>3, <1>7, <2>4 DEF OnePlace, MetricsAreAccounted
  <2>6. Kept' = Kept
    BY <1>1, <1>3, <2>4 DEF Kept
  <2>7. Cardinality(Seen') = Cardinality(Kept') + dropped' + failed'
    BY <1>1, <1>4, <2>1, <2>6, Zenon DEF MetricsAreAccounted
  <2> QED
    BY <1>4, <1>5, <2>2, <2>3, <2>5, <2>6, <2>7, Zenon DEF MetricsAreAccounted
<1>9. CASE ~Accepts
  <2>1. queue' = queue /\ dropped' = dropped + Cardinality(B)
    BY <1>9 DEF SendBatch
  <2>2. \A m : (Queued(m)' <=> Queued(m)) /\ (OneCommand(m)' <=> OneCommand(m))
    BY <2>1, Zenon DEF Queued, OneCommand
  <2>3. ShutdownInv'
    BY <1>1, <2>1, Zenon DEF ShutdownInv
  <2>4. \A m \in Requests : OnePlace(m)'
    BY <1>1, <1>3, <2>2 DEF OnePlace, MetricsAreAccounted
  <2>5. Kept' = Kept \ B /\ B \subseteq Kept
    BY <1>1, <1>3, <1>7, <2>2 DEF Kept
  <2>6. Kept \in SUBSET Requests /\ B \in SUBSET Kept
    BY <2>5 DEF Kept
  <2>7. /\ Cardinality(B) \in Nat /\ Cardinality(Kept') \in Nat
        /\ Cardinality(Kept) = Cardinality(Kept') + Cardinality(B)
        /\ Cardinality(Seen') = Cardinality(Seen)
    BY <1>4, <2>5, <2>6, BatchFewer, Zenon
  <2>8. Cardinality(Seen') = Cardinality(Kept') + dropped' + failed'
    BY <1>1, <2>1, <2>7, CountsAreNatural DEF MetricsAreAccounted, WriterTypes
  <2>9. WriterTypes'
    BY <1>1, <2>1, <2>7 DEF WriterTypes
  <2> QED
    BY <1>4, <1>5, <2>3, <2>4, <2>5, <2>8, <2>9, Zenon DEF MetricsAreAccounted
<1> QED
  BY <1>8, <1>9

\* What says nothing about a metric: the places are the same.
LEMMA SamePlaces ==
  ASSUME WriterInv, WriterTypes', ShutdownInv', metric' = metric, dropped' = dropped,
         failed' = failed, stored' = stored, rows' = rows, stop'.batch = stop.batch,
         \A m : (Queued(m)' <=> Queued(m)) /\ (OneCommand(m) => OneCommand(m)')
  PROVE  WriterInv'
<1>1. \A m : (InFlight(m)' <=> InFlight(m)) /\ (OneBatch(m)' <=> OneBatch(m))
  BY Zenon DEF InFlight, OneBatch
<1>2. Seen' = Seen /\ Kept' = Kept
  BY <1>1 DEF Seen, Kept
<1>3. \A m \in Requests : OnePlace(m)'
  BY <1>1 DEF OnePlace, WriterInv, MetricsAreAccounted
<1> QED
  BY <1>2, <1>3, Zenon DEF WriterInv, MetricsAreAccounted

\* A scanner sends its write.
LEMMA SendScanStep ==
  ASSUME WriterInv, NEW k \in Scans, SendScan(k)
  PROVE  WriterInv'
<1> DEFINE c == Execute("scan", k)
<1>1. /\ metric' = metric /\ rows' = rows /\ stored' = stored /\ stop' = stop
      /\ failed' = failed /\ dropped' = dropped
  BY DEF SendScan
<1>2. c \in Commands /\ Batch(c) = {} /\ ~OfShutdown(c)
  BY DEF Execute, Commands, ScanCommands, Batch, OfShutdown
<1> HIDE DEF c
<1>3. CASE open
  <2>1. queue' = Append(queue, c)
    BY <1>3 DEF SendScan, c
  <2>2. WriterTypes'
    BY <1>1, <1>2, <2>1, Appended DEF WriterTypes, WriterInv
  <2>3. ShutdownInv'
    BY <1>1, <1>2, <2>1, ShutdownAppended DEF WriterInv
  <2>4. \A m : (Queued(m)' <=> Queued(m)) /\ (OneCommand(m) => OneCommand(m)')
    BY <1>2, <2>1, Appended DEF WriterInv
  <2> QED
    BY <1>1, <2>2, <2>3, <2>4, SamePlaces
<1>4. CASE ~open
  <2>1. queue' = queue
    BY <1>4 DEF SendScan
  <2>2. WriterTypes' /\ ShutdownInv'
    BY <1>1, <2>1, Zenon DEF WriterTypes, ShutdownInv, WriterInv
  <2>3. \A m : (Queued(m)' <=> Queued(m)) /\ (OneCommand(m) => OneCommand(m)')
    BY <2>1, Zenon DEF Queued, OneCommand
  <2> QED
    BY <1>1, <2>2, <2>3, SamePlaces
<1> QED
  BY <1>3, <1>4

\* run_one: a batch is stored, or it failed and is counted; a scanner's write is executed.
LEMMA RunExecuteStep ==
  ASSUME WriterInv, RunExecute
  PROVE  WriterInv'
<1> DEFINE c == Head(queue)
           B == c.what
<1> USE DEF WriterInv
<1>1. /\ metric' = metric /\ rows' = rows /\ dropped' = dropped
      /\ queue # <<>> /\ queue' = Tail(queue) /\ c.is = "execute"
  BY DEF RunExecute
<1>2. c \in Commands /\ queue' \in Seq(Commands)
  BY <1>1, Received, Zenon
<1>3. CASE c.of = "scan"
  <2>1. stored' = stored /\ failed' = failed /\ stop' = stop
    BY <1>3 DEF RunExecute
  <2>2. WriterTypes'
    BY <1>1, <1>2, <2>1, Zenon DEF WriterTypes
  <2>3. ShutdownInv'
    BY <1>1, <2>1, ShutdownReceived, Zenon
  <2>4. Batch(c) = {}
    BY <1>3 DEF Batch
  <2>5. \A m : (Queued(m)' <=> Queued(m)) /\ (OneCommand(m) => OneCommand(m)')
    BY <1>1, <2>4, Received
  <2> QED
    BY <1>1, <2>1, <2>2, <2>3, <2>5, SamePlaces
<1>4. CASE c.of # "scan"
  <2>1. c \in MetricCommands /\ B \in SUBSET Requests /\ Batch(c) = B
    BY <1>1, <1>2, <1>4 DEF Commands, MetricCommands, ScanCommands, Batch
  <2>2. ASSUME NEW m \in Requests
        PROVE  /\ Queued(m) <=> Queued(m)' \/ m \in B
               /\ OneCommand(m)' /\ ~(Queued(m)' /\ m \in B)
    <3>1. OneCommand(m)
      BY DEF MetricsAreAccounted, OnePlace
    <3> QED
      BY <1>1, <2>1, <3>1, Received, Zenon
  <2>3. \A m : (InFlight(m)' <=> InFlight(m)) /\ (OneBatch(m)' <=> OneBatch(m))
    BY <1>1, Zenon DEF InFlight, OneBatch
  <2>4. Seen' = Seen
    BY <1>1, Zenon DEF Seen
  <2>5. PICK ok \in BOOLEAN :
          /\ stored' = [m \in Requests |-> stored[m] + (IF ok /\ m \in B THEN 1 ELSE 0)]
          /\ failed' = failed + (IF ok THEN 0 ELSE Cardinality(B))
          /\ stop' = IF c.of = "metrics" THEN stop
                     ELSE [pc |-> IF ok THEN "flush" ELSE "flushed", batch |-> {}]
    BY <1>4, Zenon DEF RunExecute
  <2>6. /\ stop'.batch = stop.batch /\ ShutdownInv'
        /\ stop' = stop \/ stop' = [pc |-> "flush", batch |-> {}]
                        \/ stop' = [pc |-> "flushed", batch |-> {}]
    <3>1. CASE c.of = "metrics"
      BY <1>1, <2>5, <3>1, ShutdownReceived, Zenon
    <3>2. CASE c.of # "metrics"
      <4>1. OfShutdown(c)
        BY <2>1, <3>2 DEF OfShutdown, MetricCommands
      <4>2. /\ stop' = [pc |-> "flush", batch |-> {}] \/ stop' = [pc |-> "flushed", batch |-> {}]
            /\ stop'.batch = {}
        BY <2>5, <3>2, Zenon
      <4> QED
        BY <1>1, <4>1, <4>2, ShutdownAnswered, Zenon
    <3> QED
      BY <3>1, <3>2
  <2> HIDE DEF c
  <2>7. stop' \in [pc : {"running", "pending", "storing", "flush", "flushing", "flushed",
                         "checking", "checked", "closing", "joined"}, batch : SUBSET Requests]
    BY <2>6 DEF WriterTypes
  <2>8. ASSUME NEW m \in Requests, m \in B
        PROVE  stored[m] = 0 /\ ~InFlight(m) /\ m \notin rows /\ m \notin stop.batch
    BY <2>2, <2>8 DEF MetricsAreAccounted, OnePlace
  <2>9. CASE ok = TRUE
    <3>1. /\ \A m \in Requests : stored'[m] = IF m \in B THEN stored[m] + 1 ELSE stored[m]
          /\ stored' \in [Requests -> Nat] /\ failed' = failed
      BY <2>5, <2>9 DEF WriterTypes
    <3>2. WriterTypes'
      BY <1>1, <1>2, <2>7, <3>1, Zenon DEF WriterTypes
    <3>3. \A m \in Requests : stored'[m] = IF m \in B THEN 1 ELSE stored[m]
      BY <2>8, <3>1
    <3>4. \A m \in Requests : OnePlace(m)'
      BY <1>1, <2>2, <2>3, <2>6, <2>8, <3>3 DEF OnePlace, MetricsAreAccounted
    <3>5. Kept' = Kept
      BY <1>1, <2>2, <2>3, <2>6, <3>3 DEF Kept
    <3>6. Cardinality(Seen') = Cardinality(Kept') + dropped' + failed'
      BY <1>1, <2>4, <3>1, <3>5, Zenon DEF MetricsAreAccounted
    <3> QED
      BY <1>1, <2>4, <2>6, <3>2, <3>4, <3>5, <3>6, Zenon DEF MetricsAreAccounted
  <2>10. CASE ok = FALSE
    <3>1. stored' = stored /\ failed' = failed + Cardinality(B)
      BY <2>5, <2>10 DEF WriterTypes
    <3>2. \A m \in Requests : OnePlace(m)'
      BY <1>1, <2>2, <2>3, <2>6, <3>1 DEF OnePlace, MetricsAreAccounted
    <3>3. Kept' = Kept \ B /\ B \subseteq Kept
      BY <1>1, <2>1, <2>2, <2>3, <2>6, <2>8, <3>1 DEF Kept
    <3>4. Kept \in SUBSET Requests /\ B \in SUBSET Kept
      BY <3>3 DEF Kept
    <3>5. /\ Cardinality(B) \in Nat /\ Cardinality(Kept') \in Nat
          /\ Cardinality(Kept) = Cardinality(Kept') + Cardinality(B)
          /\ Cardinality(Seen') = Cardinality(Seen)
      BY <2>4, <3>3, <3>4, BatchFewer, Zenon
    <3>6. Cardinality(Seen') = Cardinality(Kept') + dropped' + failed'
      BY <1>1, <3>1, <3>5, CountsAreNatural DEF MetricsAreAccounted, WriterTypes
    <3>7. failed' \in Nat
      BY <3>1, <3>5 DEF WriterTypes
    <3>8. WriterTypes'
      BY <1>1, <1>2, <2>7, <3>1, <3>7, Zenon DEF WriterTypes
    <3>9. Kept' \subseteq Seen'
      BY <2>4, <3>3
    <3> QED
      BY <1>1, <2>4, <2>6, <3>2, <3>6, <3>8, <3>9, Zenon DEF MetricsAreAccounted
  <2> QED
    BY <2>9, <2>10, Zenon
<1> QED
  BY <1>3, <1>4

\* run_one: the shutdown's other commands.
LEMMA RunOtherStep ==
  ASSUME WriterInv, RunFlush \/ RunCheckpoint \/ RunClose
  PROVE  WriterInv'
<1>1. /\ metric' = metric /\ rows' = rows /\ stored' = stored
      /\ failed' = failed /\ dropped' = dropped
      /\ queue # <<>> /\ queue' = Tail(queue) /\ Head(queue).is # "execute"
  BY DEF RunFlush, RunCheckpoint, RunClose
<1>2. WriterTypes /\ ShutdownInv
  BY DEF WriterInv
<1>3. OfShutdown(Head(queue)) /\ Batch(Head(queue)) = {}
  BY <1>1 DEF OfShutdown, Batch
<1>4. stop'.batch = stop.batch
  BY <1>2 DEF RunFlush, RunCheckpoint, RunClose, WriterTypes
<1>5. stop.batch = {}
  <2>1. stop.pc \in Awaited(Head(queue))
    BY <1>1, <1>2, <1>3, Received, Zenon DEF ShutdownInv
  <2> QED
    BY <1>2, <2>1 DEF Awaited, ShutdownInv
<1>6. ShutdownInv'
  BY <1>1, <1>2, <1>3, <1>4, <1>5, ShutdownAnswered, Zenon
<1>7. \A m : (Queued(m)' <=> Queued(m)) /\ (OneCommand(m) => OneCommand(m)')
  BY <1>1, <1>2, <1>3, Received
<1>8. stop' \in [pc : {"running", "pending", "storing", "flush", "flushing", "flushed",
                       "checking", "checked", "closing", "joined"}, batch : SUBSET Requests]
  <2>1. PICK to \in {"flushed", "checked"} : stop' = [stop EXCEPT !.pc = to] \/ stop' = stop
    BY DEF RunFlush, RunCheckpoint, RunClose
  <2> QED
    BY <1>2, <2>1, Zenon DEF WriterTypes
<1>9. WriterTypes'
  BY <1>1, <1>2, <1>8, Received, Zenon DEF WriterTypes
<1> QED
  BY <1>1, <1>4, <1>6, <1>7, <1>9, SamePlaces

\* The thread and the shutdown end.
LEMMA EndStep ==
  ASSUME WriterInv, RunEnd \/ Join \/ UNCHANGED wvars
  PROVE  WriterInv'
<1>1. /\ metric' = metric /\ rows' = rows /\ stored' = stored
      /\ failed' = failed /\ dropped' = dropped /\ queue' = queue
  BY DEF RunEnd, Join, wvars
<1>2. WriterTypes /\ ShutdownInv
  BY DEF WriterInv
<1>3. /\ stop'.batch = stop.batch
      /\ stop' = stop \/ (stop.pc = "closing" /\ stop'.pc = "joined")
      /\ stop' \in [pc : {"running", "pending", "storing", "flush", "flushing", "flushed",
                          "checking", "checked", "closing", "joined"}, batch : SUBSET Requests]
  BY <1>2 DEF RunEnd, Join, WriterTypes, wvars
<1>4. \A d : stop.pc \in Awaited(d) => stop'.pc \in Awaited(d)
  BY <1>3 DEF Awaited
<1>5. stop'.pc # "pending" => stop'.batch = {}
  BY <1>2, <1>3 DEF ShutdownInv
<1>6. ShutdownInv'
  BY <1>1, <1>2, <1>4, <1>5, Zenon DEF ShutdownInv
<1>7. \A m : (Queued(m)' <=> Queued(m)) /\ (OneCommand(m) => OneCommand(m)')
  BY <1>1, Zenon DEF Queued, OneCommand
<1>8. WriterTypes'
  BY <1>1, <1>2, <1>3, Zenon DEF WriterTypes
<1> QED
  BY <1>1, <1>3, <1>6, <1>7, <1>8, SamePlaces

\* flush_pending_request_metrics takes the batch.
LEMMA TakePendingStep ==
  ASSUME WriterInv, TakePending
  PROVE  WriterInv'
<1> USE DEF WriterInv
<1>1. /\ metric' = metric /\ stored' = stored /\ failed' = failed
      /\ dropped' = dropped /\ queue' = queue /\ rows' = {}
      /\ stop.pc = "running" /\ stop.batch = {} /\ stop'.batch = rows
      /\ stop' = [pc |-> "flush", batch |-> rows] \/ stop' = [pc |-> "pending", batch |-> rows]
      /\ stop'.pc # "pending" => rows = {}
  BY DEF TakePending, ShutdownInv
<1>2. WriterTypes'
  BY <1>1 DEF WriterTypes
<1>3. ShutdownInv'
  <2>1. \A d : stop.pc \notin Awaited(d)
    BY <1>1 DEF Awaited
  <2>2. \A i \in 1..Len(queue) : ~OfShutdown(queue[i])
    BY <2>1, Zenon DEF ShutdownInv
  <2> QED
    BY <1>1, <2>2, Zenon DEF ShutdownInv
<1>4. \A m : /\ Queued(m)' <=> Queued(m)
             /\ OneCommand(m)' <=> OneCommand(m)
             /\ InFlight(m)' <=> InFlight(m)
             /\ OneBatch(m)' <=> OneBatch(m)
  BY <1>1, Zenon DEF Queued, OneCommand, InFlight, OneBatch
<1>5. \A m \in Requests : OnePlace(m)'
  BY <1>1, <1>4 DEF OnePlace, MetricsAreAccounted
<1>6. Kept' = Kept /\ Seen' = Seen
  BY <1>1, <1>4 DEF Kept, Seen
<1> QED
  BY <1>1, <1>2, <1>3, <1>5, <1>6, Zenon DEF MetricsAreAccounted

\* The shutdown sends its batch.
LEMMA SendPendingStep ==
  ASSUME WriterInv, SendPending
  PROVE  WriterInv'
<1> DEFINE B == stop.batch
           c == Execute("flush", B)
<1> USE DEF WriterInv
<1>1. /\ metric' = metric /\ rows' = rows /\ stored' = stored /\ failed' = failed
      /\ dropped' = dropped /\ queue' = Append(queue, c)
      /\ stop.pc = "pending" /\ stop' = [pc |-> "storing", batch |-> {}]
      /\ B \in SUBSET Requests
  BY DEF SendPending, AskWriter, WriterTypes
<1>2. /\ c \in Commands /\ Batch(c) = B /\ OfShutdown(c) /\ "storing" \in Awaited(c)
  BY <1>1 DEF Execute, Commands, MetricCommands, Batch, OfShutdown, Awaited
<1> HIDE DEF c
<1>3. /\ stop'.batch = {} /\ stop'.pc = "storing"
      /\ stop.pc \in {"pending", "flush", "flushed", "checked"}
  BY <1>1
<1>4. ShutdownInv'
  BY <1>1, <1>2, <1>3, ShutdownAsks, Zenon
<1>5. WriterTypes'
  BY <1>1, <1>2, Appended DEF WriterTypes
<1>6. ASSUME NEW m \in Requests
      PROVE  (Queued(m)' <=> Queued(m) \/ m \in B) /\ OneCommand(m)'
  <2>1. OneCommand(m) /\ ~(Queued(m) /\ m \in B)
    BY DEF MetricsAreAccounted, OnePlace
  <2> QED
    BY <1>1, <1>2, <2>1, Appended, Zenon
<1>7. \A m : (InFlight(m)' <=> InFlight(m)) /\ (OneBatch(m)' <=> OneBatch(m))
  BY <1>1, Zenon DEF InFlight, OneBatch
<1>8. \A m \in Requests : OnePlace(m)'
  BY <1>1, <1>3, <1>6, <1>7 DEF OnePlace, MetricsAreAccounted
<1>9. Kept' = Kept /\ Seen' = Seen
  BY <1>1, <1>3, <1>6, <1>7 DEF Kept, Seen
<1> QED
  BY <1>1, <1>4, <1>5, <1>8, <1>9, Zenon DEF MetricsAreAccounted

\* The shutdown asks for the flush, the checkpoint and the end.
LEMMA AskStep ==
  ASSUME WriterInv, AskFlush \/ AskCheckpoint \/ AskClose
  PROVE  WriterInv'
<1>1. PICK from \in {"flush", "flushed", "checked"}, to \in {"flushing", "checking", "closing"},
           c \in [is : {"flush", "checkpoint", "shutdown"}] :
             AskWriter(from, to, c) /\ to \in Awaited(c)
  BY DEF AskFlush, AskCheckpoint, AskClose, Flush, Checkpoint, CloseWriter, Awaited
<1>2. /\ metric' = metric /\ rows' = rows /\ stored' = stored /\ failed' = failed
      /\ dropped' = dropped /\ queue' = Append(queue, c)
      /\ stop.pc = from /\ stop' = [pc |-> to, batch |-> {}]
  BY <1>1 DEF AskWriter
<1>3. c \in Commands /\ Batch(c) = {} /\ OfShutdown(c)
  BY DEF Commands, Batch, OfShutdown
<1>4. /\ stop'.batch = {} /\ stop'.pc \in Awaited(c) /\ stop.batch = {}
      /\ stop.pc \in {"pending", "flush", "flushed", "checked"}
  BY <1>1, <1>2 DEF WriterInv, ShutdownInv
<1>5. ShutdownInv'
  BY <1>2, <1>3, <1>4, ShutdownAsks, Zenon DEF WriterInv
<1>6. WriterTypes'
  BY <1>2, <1>3, Appended DEF WriterTypes, WriterInv
<1>7. \A m : (Queued(m)' <=> Queued(m)) /\ (OneCommand(m) => OneCommand(m)')
  BY <1>2, <1>3, Appended DEF WriterInv
<1> QED
  BY <1>2, <1>4, <1>5, <1>6, <1>7, SamePlaces

\* Every metric that was observed is in one place, stored at most once, or was dropped and
\* counted, or was in a batch that the database refused, with any number of requests,
\* scanners and commands and through the shutdown (observe_request_metric, flush_pending_request_metrics, run_one).
THEOREM MetricsAreKept == WriterSpec => []MetricsAreAccounted
<1>1. WriterInv /\ [WriterNext]_wvars => WriterInv'
  BY ObserveStep, SendBatchStep, SendScanStep, RunExecuteStep, RunOtherStep, EndStep,
     TakePendingStep, SendPendingStep, AskStep, Zenon DEF WriterNext, Thread, Stopping
<1>2. WriterInv => MetricsAreAccounted
  BY DEF WriterInv
<1> QED
  BY <1>1, <1>2, WriterStart, PTL DEF WriterSpec
==============================================================================
