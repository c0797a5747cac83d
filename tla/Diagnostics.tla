---------------------------- MODULE Diagnostics ----------------------------
(***************************************************************************)
(* The diagnostic pipeline (diagnostics recorder.rs, segment.rs; server    *)
(* observability/writer.rs): request threads hand events to the recorder   *)
(* task through a bounded channel; the recorder numbers them and hands the *)
(* ones worth keeping to the writer thread through another; the writer     *)
(* appends them in batches to segment files, reports what was dropped by   *)
(* sending a drop summary around through the recorder, and is flushed and  *)
(* joined by the shutdown.  The process may crash at any step and is       *)
(* started again on the files it left.                                     *)
(*                                                                         *)
(* An event of the durable queue is its sequence number and the number of  *)
(* drops it reports (0 for an event that is not a drop summary).  Page     *)
(* queries, the in-memory ring they read and the counters of the recorder  *)
(* (DropMetrics) do not influence any of this and are left out.            *)
(***************************************************************************)
EXTENDS Integers, Sequences, FiniteSets, FiniteSetsExt,
        TLAPS, WellFoundedInduction, NaturalsInduction

CONSTANTS
  MaxSegment,   \* MAX_SEGMENT_BYTES, in lines
  MaxClosed,    \* MAX_CLOSED_SEGMENT_BYTES, in closed segments
  Producers,    \* how many threads may be recording at a time
  IngressCap,   \* INGRESS_QUEUE_CAPACITY
  InternalCap,  \* INTERNAL_INGRESS_QUEUE_CAPACITY
  DurableCap,   \* DURABLE_QUEUE_CAPACITY
  BatchMax,     \* MAX_BATCH_EVENTS
  MaxSeq,       \* u64::MAX, the last sequence number; it bounds the model
  Levels,       \* what the producers record: "durable", "transient"
  Faults        \* which of "crash", "io" and "deadline" may happen

ASSUME DiagnosticsAssumption ==
  /\ {Producers, IngressCap, InternalCap, DurableCap, BatchMax, MaxSeq} \subseteq Nat \ {0}
  /\ MaxSegment \in Nat \ {0} /\ MaxClosed \in Nat
  /\ Levels \subseteq {"durable", "transient"}
  /\ Faults \subseteq {"crash", "io", "deadline"}

-----------------------------------------------------------------------------
(* The segments: files in the order of their indexes, of which the last    *)
(* one is appended to (segment.rs, retention.rs; platform diagnostics.rs). *)
(* A file is the events of its complete lines and whether bytes of an      *)
(* incomplete line follow them; between two files some may be gone.  All   *)
(* lines have the same size.                                               *)

Last(s) == s[Len(s)]
IsPrefix(s, t) == Len(s) <= Len(t) /\ SubSeq(s, 1, Len(s)) = SubSeq(t, 1, Len(s))

Segment(events, torn) == [there |-> TRUE, events |-> events, torn |-> torn]
EmptySegment == Segment(<<>>, FALSE)
Gone == [there |-> FALSE, events |-> <<>>, torn |-> FALSE]

\* The closed files: all but the active one.
Closed(files) == {i \in 1..(Len(files) - 1) : files[i].there}

\* scan_segment and validate_complete_segment_bytes: a whole file of at least
\* one line, with increasing sequence numbers.
Complete(segment) ==
  /\ ~segment.torn /\ segment.events # <<>>
  /\ \A i \in 2..Len(segment.events) : segment.events[i - 1].seq < segment.events[i].seq

Follows(segment, next) ==
  next.events = <<>> \/ Last(segment.events).seq < next.events[1].seq

\* All files but the last are complete and their numbers increase: what
\* recover() and the first scan of retention insist on.
WellFormed(files) ==
  \A i \in Closed(files) :
    Complete(files[i]) /\ \A j \in (i + 1)..Len(files) : Follows(files[i], files[j])

RepairTooMuch(files) ==
  IF files = <<>> THEN <<EmptySegment>>
  ELSE IF Last(files).torn THEN [files EXCEPT ![Len(files)] = EmptySegment] ELSE files

\* recover(): the incomplete tail of the last file is cut off, and a file is
\* created where there is none.
Repair(files) ==
  IF files = <<>> THEN <<EmptySegment>>
  ELSE [files EXCEPT ![Len(files)] = Segment(Last(files).events, FALSE)]

\* The last number of the last file, or of the last complete one before it.
LastSequence(files) ==
  LET used == {i \in DOMAIN files : files[i].events # <<>>}
  IN IF used = {} THEN 0 ELSE Last(files[Max(used)].events).seq

\* The lines of a batch that the active file has room for.
Room(files, batch) ==
  LET room == MaxSegment - Len(Last(files).events)
  IN IF room < Len(batch) THEN room ELSE Len(batch)

\* append(): the first n lines of the batch reach the file, and of the next
\* one a part if the append ended early.
Appended(files, batch, n, torn) ==
  [files EXCEPT ![Len(files)] =
     Segment(Last(files).events \o SubSeq(batch, 1, n), Last(files).torn \/ torn)]

\* What an append that does not return may have left of its lines.
PartialAppends(files, batch) ==
  {Appended(files, batch, n, torn) : n \in 0..Room(files, batch), torn \in BOOLEAN}

\* The files without some closed ones, from the oldest that is left.
Without(files, removed) ==
  LET left == [i \in DOMAIN files |-> IF i \in removed THEN Gone ELSE files[i]]
  IN SubSeq(left, Min({i \in DOMAIN files : left[i].there}), Len(files))

\* enforce_with_active: the expired files go, then the oldest ones until the
\* closed files fit the budget.  The last file is active and stays.
Retained(files, expired) ==
  LET young == Closed(files) \ expired
      kept == {i \in young : Cardinality({j \in young : j > i}) < MaxClosed}
  IN Without(files, Closed(files) \ kept)

\* The closed files whose age a run of retention may find expired: any of
\* them, as the age is that of the modification time the clock is set against.
Expirable(files) == SUBSET Closed(files)
-----------------------------------------------------------------------------
VARIABLES
  phase,      \* the process: "down", "up", or "refused" by its recovery
  checking,   \* producers past the flags of try_record
  permits,    \* producers holding a permit of the ingress channel
  ingress,    \* the ingress channel: levels
  internal,   \* the internal channel: drop counts of summaries
  queries,    \* the command channel: "barrier", "close"
  recv,       \* the recorder's receivers: "open", "closed" or "ended"
  closing,    \* RecorderShutdownState.ingress_closed
  requested,  \* RecorderShutdownState.requested
  next,       \* RecorderOwner.next_sequence, 0 when exhausted
  remaining,  \* remaining_sequences
  durable,    \* the durable channel
  drops,      \* the total of DropAtoms
  inflight,   \* drop_summary_inflight
  wpc, mode,  \* the writer thread: its step, and whether it serves a flush
  pending,    \* pending_ingress
  batch,      \* the rest of the DurableBatch being flushed
  attempted,  \* the event count of that batch
  rotated,    \* whether this flush rotated
  progress,   \* progress_observed
  request,    \* the summary of the DurableDropRequest the writer holds, 0 without
  last,       \* SegmentWriter.last_sequence
  failure,    \* why the writer thread returned an error
  barrier,    \* the reply of the writer's barrier
  closed,     \* the reply of the shutdown's CloseIngress
  flush,      \* the Flush command
  spc, clean, \* the shutdown: its step, and no first_error so far
  files,      \* the segment files
  offered, settled  \* history: durable events of this process, and how many of
                    \* them are in the files or reported there as dropped

producerVars == <<checking, permits>>
channelVars == <<ingress, internal, queries>>
recorderVars == <<recv, next, closed, barrier>>
dropVars == <<drops, inflight>>
writerVars == <<wpc, mode, pending, batch, attempted, rotated, progress, request, last, failure>>
shutdownVars == <<closing, requested, flush, spc, clean>>
vars == <<phase, producerVars, channelVars, recorderVars, remaining, durable, dropVars,
          writerVars, shutdownVars, files, offered, settled>>

Channels == {"ingress", "internal", "queries"}
WriterAlive == wpc \notin {"ended", "failed"}
RecorderAlive == \E c \in Channels : recv[c] # "ended"
IsSummary(event) == event.summary # 0
-----------------------------------------------------------------------------
\* The memory of a process before and after its life.
Blank ==
  /\ checking = 0 /\ permits = 0
  /\ ingress = <<>> /\ internal = <<>> /\ queries = <<>>
  /\ closing = FALSE /\ requested = FALSE
  /\ closed = "none" /\ barrier = "none" /\ flush = "none"
  /\ durable = <<>> /\ drops = 0 /\ inflight = FALSE
  /\ mode = "work" /\ pending = <<>> /\ batch = <<>> /\ attempted = 0 /\ rotated = FALSE
  /\ progress = FALSE /\ request = 0 /\ failure = "none" /\ clean = TRUE
  /\ offered = 0 /\ settled = 0

Cleared ==
  /\ checking' = 0 /\ permits' = 0
  /\ ingress' = <<>> /\ internal' = <<>> /\ queries' = <<>>
  /\ closing' = FALSE /\ requested' = FALSE
  /\ closed' = "none" /\ barrier' = "none" /\ flush' = "none"
  /\ durable' = <<>> /\ drops' = 0 /\ inflight' = FALSE
  /\ mode' = "work" /\ pending' = <<>> /\ batch' = <<>> /\ attempted' = 0 /\ rotated' = FALSE
  /\ progress' = FALSE /\ request' = 0 /\ failure' = "none" /\ clean' = TRUE
  /\ offered' = 0 /\ settled' = 0

Halted ==
  /\ recv = [c \in Channels |-> "ended"] /\ wpc = "ended" /\ spc = "idle"
  /\ next = 0 /\ remaining = 0 /\ last = 0

Stopped ==
  /\ recv' = [c \in Channels |-> "ended"] /\ wpc' = "ended" /\ spc' = "idle"
  /\ next' = 0 /\ remaining' = 0 /\ last' = 0

Init == phase = "down" /\ files = <<>> /\ Blank /\ Halted

\* elevate_next_sequence, from a recorder that starts at 1 with all of
\* 1..MaxSeq to give: the sequences up to the recovered one are skipped.
NextAfter(sequence) == IF sequence = MaxSeq THEN 0 ELSE sequence + 1
RemainingAfter(sequence) == MaxSeq - sequence

\* PreparedDiagnosticWriter::open and start: recovery, startup retention, then
\* the recorder task and the writer thread.
Start ==
  /\ phase = "down"
  /\ IF WellFormed(files)
     THEN /\ phase' = "up"
          /\ \E expired \in Expirable(Repair(files)) : files' = Retained(Repair(files), expired)
          /\ next' = NextAfter(LastSequence(files))
          /\ remaining' = RemainingAfter(LastSequence(files))
          /\ last' = LastSequence(files)
          /\ recv' = [c \in Channels |-> "open"] /\ wpc' = "idle" /\ spc' = "running"
     ELSE /\ phase' = "refused"
          /\ UNCHANGED <<files, next, remaining, last, recv, wpc, spc>>
  /\ Cleared
-----------------------------------------------------------------------------
\* try_record, by one of the producers: the flags are read ...
CheckFlags ==
  /\ phase = "up" /\ checking + permits < Producers /\ ~requested /\ ~closing
  /\ checking' = checking + 1
  /\ UNCHANGED <<phase, permits, channelVars, recorderVars, remaining, durable, dropVars,
                 writerVars, shutdownVars, files, offered, settled>>

\* ... then a permit is taken, unless the channel is full or closed ...
ReservePermit ==
  /\ checking > 0
  /\ checking' = checking - 1
  /\ permits' = IF recv["ingress"] = "open" /\ Len(ingress) + permits < IngressCap
                THEN permits + 1 ELSE permits
  /\ UNCHANGED <<phase, channelVars, recorderVars, remaining, durable, dropVars,
                 writerVars, shutdownVars, files, offered, settled>>

\* ... and the event sent, if it can be encoded and a sequence number is left
\* for it.  The permit is given back in any case.
SendEvent ==
  /\ permits > 0
  /\ permits' = permits - 1
  /\ \/ UNCHANGED <<ingress, remaining>>
     \/ /\ remaining > 0
        /\ remaining' = remaining - 1
        /\ \E level \in Levels : ingress' = Append(ingress, level)
  /\ UNCHANGED <<phase, checking, internal, queries, recorderVars, durable, dropVars,
                 writerVars, shutdownVars, files, offered, settled>>

Producer == ReservePermit \/ SendEvent
-----------------------------------------------------------------------------
\* RecorderOwner::run.  A closed channel ends once it is empty and no permit of
\* it is out.  The select is biased: ingress, internal, queries.
Drained(c) ==
  CASE c = "ingress" -> ingress = <<>> /\ permits = 0
    [] c = "internal" -> internal = <<>>
    [] c = "queries" -> queries = <<>>
Waiting(c) ==
  CASE c = "ingress" -> ingress # <<>>
    [] c = "internal" -> internal # <<>>
    [] c = "queries" -> queries # <<>>
Ready(c) == recv[c] # "ended" /\ (Waiting(c) \/ (recv[c] = "closed" /\ Drained(c)))
Selects(c) ==
  /\ phase = "up" /\ Ready(c)
  /\ (c # "ingress" => ~Ready("ingress"))
  /\ (c = "queries" => ~Ready("internal"))

\* The head of the next iteration: a requested shutdown closes the receivers.
Top(receivers) ==
  [c \in Channels |-> IF requested /\ receivers[c] = "open" THEN "closed" ELSE receivers[c]]

\* DurableProducer::try_record.
TryRecord(event) ==
  IF WriterAlive /\ Len(durable) < DurableCap
  THEN durable' = Append(durable, event) /\ UNCHANGED dropVars
  ELSE /\ drops' = drops + event.summary + 1
       /\ inflight' = (inflight /\ ~IsSummary(event))
       /\ UNCHANGED durable

\* finalize_and_insert; next is not 0 here (EveryEventGetsItsNumber).
Finalize(persists, summary) ==
  /\ next' = (IF next \in {0, MaxSeq} THEN 0 ELSE next + 1)
  /\ IF persists /\ next # 0
     THEN /\ TryRecord([seq |-> next, summary |-> summary])
          /\ offered' = offered + 1
     ELSE UNCHANGED <<durable, dropVars, offered>>

TakeIngress ==
  /\ Selects("ingress") /\ ingress # <<>>
  /\ ingress' = Tail(ingress)
  /\ Finalize(Head(ingress) = "durable", 0)
  /\ recv' = Top(recv)
  /\ UNCHANGED <<phase, producerVars, internal, queries, closed, barrier, remaining,
                 writerVars, shutdownVars, files, settled>>

EndIngressSilent ==
  /\ Selects("ingress") /\ ingress = <<>>
  /\ recv' = Top([recv EXCEPT !["ingress"] = "ended"])
  /\ UNCHANGED <<phase, producerVars, channelVars, next, closed, barrier, remaining, durable,
                 dropVars, writerVars, shutdownVars, files, offered, settled>>

\* The CloseIngress replies are held until the ingress channel has ended.
EndIngress ==
  /\ Selects("ingress") /\ ingress = <<>>
  /\ recv' = Top([recv EXCEPT !["ingress"] = "ended"])
  /\ closed' = IF closed = "held" THEN "replied" ELSE closed
  /\ UNCHANGED <<phase, producerVars, channelVars, next, barrier, remaining, durable, dropVars,
                 writerVars, shutdownVars, files, offered, settled>>

TakeInternal ==
  /\ Selects("internal") /\ internal # <<>>
  /\ internal' = Tail(internal)
  /\ Finalize(TRUE, Head(internal))
  /\ recv' = Top(recv)
  /\ UNCHANGED <<phase, producerVars, ingress, queries, closed, barrier, remaining,
                 writerVars, shutdownVars, files, settled>>

EndInternal ==
  /\ Selects("internal") /\ internal = <<>>
  /\ recv' = Top([recv EXCEPT !["internal"] = "ended"])
  /\ UNCHANGED <<phase, producerVars, channelVars, next, closed, barrier, remaining, durable,
                 dropVars, writerVars, shutdownVars, files, offered, settled>>

TakeQueryEager ==
  /\ Selects("queries") /\ queries # <<>>
  /\ queries' = Tail(queries)
  /\ IF Head(queries) = "barrier"
     THEN barrier' = "replied" /\ recv' = Top(recv) /\ UNCHANGED closed
     ELSE /\ recv' = Top([recv EXCEPT !["ingress"] = IF @ = "open" THEN "closed" ELSE @])
          /\ closed' = "replied"
          /\ UNCHANGED barrier
  /\ UNCHANGED <<phase, producerVars, ingress, internal, next, remaining, durable, dropVars,
                 writerVars, shutdownVars, files, offered, settled>>

\* A barrier is answered at once; the close of the ingress channel when that
\* has ended.
TakeQuery ==
  /\ Selects("queries") /\ queries # <<>>
  /\ queries' = Tail(queries)
  /\ IF Head(queries) = "barrier"
     THEN barrier' = "replied" /\ recv' = Top(recv) /\ UNCHANGED closed
     ELSE /\ recv' = Top([recv EXCEPT !["ingress"] = IF @ = "open" THEN "closed" ELSE @])
          /\ closed' = IF recv["ingress"] = "ended" THEN "replied" ELSE "held"
          /\ UNCHANGED barrier
  /\ UNCHANGED <<phase, producerVars, ingress, internal, next, remaining, durable, dropVars,
                 writerVars, shutdownVars, files, offered, settled>>

EndQueries ==
  /\ Selects("queries") /\ queries = <<>>
  /\ recv' = Top([recv EXCEPT !["queries"] = "ended"])
  /\ UNCHANGED <<phase, producerVars, channelVars, next, closed, barrier, remaining, durable,
                 dropVars, writerVars, shutdownVars, files, offered, settled>>

\* Nothing is ready and the shutdown's notification wakes the select.
Wake ==
  /\ phase = "up" /\ requested /\ \A c \in Channels : ~Ready(c)
  /\ Top(recv) # recv
  /\ recv' = Top(recv)
  /\ UNCHANGED <<phase, producerVars, channelVars, next, closed, barrier, remaining, durable,
                 dropVars, writerVars, shutdownVars, files, offered, settled>>

Recorder ==
  TakeIngress \/ EndIngress \/ TakeInternal \/ EndInternal \/ TakeQuery \/ EndQueries \/ Wake
-----------------------------------------------------------------------------
\* run_durable_writer.  A flush command goes before the batched work, which it
\* cancels where that waits (wait_process_next_batched and
\* collect_partial_batch keep what they have received in pending).
WriterKeeps == <<phase, producerVars, queries, recv, next, closed, shutdownVars, offered>>

TakeFlushLossy ==
  /\ wpc \in {"idle", "parked", "collect"} /\ flush = "sent"
  /\ flush' = "taken" /\ mode' = "flush" /\ wpc' = "process" /\ pending' = <<>>
  /\ UNCHANGED <<phase, producerVars, channelVars, recorderVars, remaining, durable, dropVars,
                 batch, attempted, rotated, progress, request, last, failure,
                 closing, requested, spc, clean, files, offered, settled>>

TakeFlush ==
  /\ wpc \in {"idle", "parked", "collect"} /\ flush = "sent"
  /\ flush' = "taken" /\ mode' = "flush" /\ wpc' = "process"
  /\ UNCHANGED <<phase, producerVars, channelVars, recorderVars, remaining, durable, dropVars,
                 pending, batch, attempted, rotated, progress, request, last, failure,
                 closing, requested, spc, clean, files, offered, settled>>

AfterReceiving(queue) ==
  IF IsSummary(Last(queue)) \/ Len(queue) >= BatchMax
  THEN "process" ELSE "collect"

\* wait_process_next_batched, up to its wait for an event.
Poll ==
  /\ wpc = "idle" /\ flush # "sent"
  /\ wpc' = CASE pending # <<>> -> IF IsSummary(Head(pending)) \/ Len(pending) >= BatchMax
                                   THEN "process" ELSE "collect"
              [] pending = <<>> /\ progress /\ ~inflight /\ drops > 0 -> "process"
              [] OTHER -> "parked"
  /\ UNCHANGED <<WriterKeeps, ingress, internal, barrier, remaining, durable, dropVars, mode,
                 pending, batch, attempted, rotated, progress, request, last, failure,
                 files, settled>>

\* The event that ends the wait, or one more for the partial batch.
Receive ==
  /\ wpc \in {"parked", "collect"} /\ flush # "sent" /\ durable # <<>>
  /\ pending' = Append(pending, Head(durable))
  /\ durable' = Tail(durable)
  /\ wpc' = AfterReceiving(pending')
  /\ UNCHANGED <<WriterKeeps, ingress, internal, barrier, remaining, dropVars, mode, batch,
                 attempted, rotated, progress, request, last, failure, files, settled>>

\* The partial batch is due, or its channel has ended.
StopCollecting ==
  /\ wpc = "collect" /\ flush # "sent"
  /\ wpc' = "process"
  /\ UNCHANGED <<WriterKeeps, ingress, internal, barrier, remaining, durable, dropVars, mode,
                 pending, batch, attempted, rotated, progress, request, last, failure,
                 files, settled>>

\* The recorder is gone: one last try_process_next.
ReceiveNone ==
  /\ wpc = "parked" /\ flush # "sent" /\ durable = <<>> /\ ~RecorderAlive
  /\ wpc' = "process" /\ mode' = "last"
  /\ UNCHANGED <<WriterKeeps, ingress, internal, barrier, remaining, durable, dropVars,
                 pending, batch, attempted, rotated, progress, request, last, failure,
                 files, settled>>

\* Where the writer goes on after it has written or forwarded something.
Resume == /\ wpc' = IF mode = "flush" THEN "process" ELSE "idle"
          /\ mode' = IF mode = "flush" THEN "flush" ELSE "work"

\* The thread returns an error; a request it holds is dropped and puts its
\* summary back (DurableDropRequest::drop).
Fail(why, uncounted) ==
  /\ wpc' = "failed" /\ failure' = why
  /\ drops' = drops + request + uncounted
  /\ inflight' = (inflight /\ request = 0)
  /\ request' = 0
  /\ UNCHANGED <<mode, progress, last>>

\* try_process_next_at.  A batch is a drop summary alone, or what there is
\* before the next one; that one, once received, stays in pending.
BatchOf(queue) ==
  IF IsSummary(queue[1]) THEN <<queue[1]>>
  ELSE LET stop == {i \in DOMAIN queue : i > BatchMax \/ IsSummary(queue[i])}
       IN SubSeq(queue, 1, IF stop = {} THEN Len(queue) ELSE Min(stop) - 1)
Received(queue, size) ==
  IF size < BatchMax /\ size < Len(queue) /\ ~IsSummary(queue[1]) THEN size + 1 ELSE size

Increasing(after, events) ==
  \A i \in DOMAIN events : events[i].seq > (IF i = 1 THEN after ELSE events[i - 1].seq)

ProcessEvents ==
  LET queue == pending \o durable
      size == Len(BatchOf(queue))
      received == Max({Received(queue, size), Len(pending)})
  IN /\ wpc = "process" /\ queue # <<>>
     /\ pending' = SubSeq(queue, size + 1, received)
     /\ durable' = SubSeq(queue, received + 1, Len(queue))
     /\ rotated' = FALSE /\ attempted' = size
     /\ IF Increasing(last, BatchOf(queue))
        THEN /\ batch' = BatchOf(queue) /\ wpc' = "append"
             /\ UNCHANGED <<dropVars, mode, progress, request, last, failure>>
        ELSE Fail("order", size) /\ UNCHANGED batch
     /\ UNCHANGED <<WriterKeeps, ingress, internal, barrier, remaining, files, settled>>

\* Nothing to write: drops that nobody reports yet are taken for a summary.
RequestSummary ==
  /\ wpc = "process" /\ pending \o durable = <<>> /\ progress /\ ~inflight /\ drops > 0
  /\ request' = drops /\ drops' = 0 /\ inflight' = TRUE /\ wpc' = "forward"
  /\ UNCHANGED <<WriterKeeps, ingress, internal, barrier, remaining, durable, mode, pending,
                 batch, attempted, rotated, progress, last, failure, files, settled>>

\* Idle: a flush is answered, the last call ends the thread, and the batched
\* work, which had seen something to do, takes it for corrupt data.
ProcessNothing ==
  /\ wpc = "process" /\ pending \o durable = <<>> /\ ~(progress /\ ~inflight /\ drops > 0)
  /\ CASE mode = "flush" -> /\ flush' = "done" /\ wpc' = "idle" /\ mode' = "work"
                            /\ UNCHANGED <<dropVars, progress, request, last, failure>>
       [] mode = "last" -> /\ wpc' = "ended"
                           /\ UNCHANGED <<flush, mode, dropVars, progress, request, last, failure>>
       [] OTHER -> Fail("idle", 0) /\ UNCHANGED flush
  /\ UNCHANGED <<phase, producerVars, channelVars, recorderVars, remaining, durable, pending,
                 batch, attempted, rotated, closing, requested, spc, clean, files,
                 offered, settled>>
-----------------------------------------------------------------------------
\* SegmentWriter::flush: what fits is appended, and the rest goes to the next
\* file.  A written drop summary ends its being in flight.
AppendLines ==
  LET n == Room(files, batch)
      rest == SubSeq(batch, n + 1, Len(batch))
      summaries == MapThenSumSet(LAMBDA i : batch[i].summary, 1..n)
  IN /\ wpc = "append" /\ n > 0
     /\ files' = Appended(files, batch, n, FALSE)
     /\ batch' = rest
     /\ settled' = settled + n + summaries
     /\ IF rest # <<>>
        THEN UNCHANGED <<wpc, mode, inflight, progress, last>>
        ELSE /\ last' = Last(batch).seq
             /\ inflight' = (inflight /\ ~IsSummary(Last(batch)))
             /\ IF rotated
                THEN wpc' = "retain" /\ UNCHANGED <<mode, progress>>
                ELSE Resume /\ progress' = TRUE
     /\ UNCHANGED <<WriterKeeps, ingress, internal, barrier, remaining, durable, drops, pending,
                    attempted, rotated, request, failure>>

Rotate ==
  /\ wpc = "append" /\ Room(files, batch) = 0
  /\ files' = Append(files, EmptySegment)
  /\ rotated' = TRUE
  /\ UNCHANGED <<WriterKeeps, ingress, internal, barrier, remaining, durable, dropVars, wpc,
                 mode, pending, batch, attempted, progress, request, last, failure, settled>>

\* enforce_with_active after a rotation.
Retain ==
  /\ wpc = "retain"
  /\ IF WellFormed(files)
     THEN /\ \E expired \in Expirable(files) : files' = Retained(files, expired)
          /\ Resume /\ progress' = TRUE
          /\ UNCHANGED <<dropVars, request, last, failure>>
     ELSE Fail("order", 0) /\ UNCHANGED files
  /\ UNCHANGED <<WriterKeeps, ingress, internal, barrier, remaining, durable, pending, batch,
                 attempted, rotated, settled>>
-----------------------------------------------------------------------------
\* forward_drop_summary: the summary is recorded through the internal channel
\* (try_record_internal) ...
Forward ==
  /\ wpc = "forward"
  /\ IF ~requested /\ recv["internal"] = "open" /\ Len(internal) < InternalCap /\ remaining > 0
     THEN /\ internal' = Append(internal, request)
          /\ remaining' = remaining - 1
          /\ wpc' = "admit"
          /\ UNCHANGED <<dropVars, mode, progress, request, last, failure>>
     ELSE /\ Fail(IF requested THEN "shutdown" ELSE "exhausted", 0)
          /\ UNCHANGED <<internal, remaining>>
  /\ UNCHANGED <<WriterKeeps, ingress, barrier, durable, pending, batch, attempted, rotated,
                 files, settled>>

\* ... a barrier is sent after it ...
AdmitBarrier ==
  /\ wpc = "admit"
  /\ IF requested
     THEN Fail("shutdown", 0) /\ UNCHANGED <<queries, barrier>>
     ELSE /\ queries' = Append(queries, "barrier") /\ barrier' = "sent" /\ wpc' = "barrier"
          /\ UNCHANGED <<dropVars, mode, progress, request, last, failure>>
  /\ UNCHANGED <<phase, producerVars, ingress, internal, recv, next, closed, remaining, durable,
                 pending, batch, attempted, rotated, shutdownVars, files, offered, settled>>

\* ... and its reply acknowledges the request.
Acknowledge ==
  /\ wpc = "barrier" /\ barrier = "replied"
  /\ Resume /\ request' = 0 /\ barrier' = "none"
  /\ UNCHANGED <<WriterKeeps, ingress, internal, remaining, durable, dropVars, pending, batch,
                 attempted, rotated, progress, last, failure, files, settled>>

Writer ==
  \/ TakeFlush \/ Poll \/ Receive \/ StopCollecting \/ ReceiveNone
  \/ ProcessEvents \/ RequestSummary \/ ProcessNothing
  \/ AppendLines \/ Rotate \/ Retain \/ Forward \/ AdmitBarrier \/ Acknowledge
-----------------------------------------------------------------------------
\* RunningDiagnosticWriter::shutdown (and the task its Drop spawns).
ShutdownKeeps == <<phase, producerVars, ingress, internal, recorderVars, remaining, durable,
                   dropVars, writerVars, files, offered, settled>>

\* close_recorder_ingress.
CloseIngress ==
  /\ spc = "running"
  /\ spc' = "closing" /\ closing' = TRUE /\ queries' = Append(queries, "close")
  /\ UNCHANGED <<ShutdownKeeps, requested, flush, clean>>

IngressClosed ==
  /\ spc = "closing" /\ closed = "replied"
  /\ spc' = "flush"
  /\ UNCHANGED <<ShutdownKeeps, queries, closing, requested, flush, clean>>

SendFlush ==
  /\ spc = "flush"
  /\ IF WriterAlive THEN spc' = "flushing" /\ flush' = "sent" /\ UNCHANGED clean
     ELSE spc' = "request" /\ clean' = FALSE /\ UNCHANGED flush
  /\ UNCHANGED <<ShutdownKeeps, queries, closing, requested>>

Flushed ==
  /\ spc = "flushing" /\ (flush = "done" \/ ~WriterAlive)
  /\ spc' = "request" /\ clean' = (clean /\ flush = "done")
  /\ UNCHANGED <<ShutdownKeeps, queries, closing, requested, flush>>

RequestShutdown ==
  /\ spc = "request"
  /\ spc' = "joining" /\ requested' = TRUE /\ closing' = TRUE
  /\ UNCHANGED <<ShutdownKeeps, queries, flush, clean>>

\* The recorder task is awaited, the command channel dropped, the thread joined.
Joined ==
  /\ spc = "joining" /\ ~RecorderAlive /\ ~WriterAlive
  /\ spc' = "stopped" /\ clean' = (clean /\ wpc = "ended")
  /\ UNCHANGED <<ShutdownKeeps, queries, closing, requested, flush>>

Shutdown == CloseIngress \/ IngressClosed \/ SendFlush \/ Flushed \/ RequestShutdown \/ Joined
-----------------------------------------------------------------------------
\* The five-second deadlines of the two barriers.
CloseDeadline ==
  /\ "deadline" \in Faults /\ spc = "closing"
  /\ spc' = "flush" /\ clean' = FALSE
  /\ UNCHANGED <<ShutdownKeeps, queries, closing, requested, flush>>

BarrierDeadline ==
  /\ "deadline" \in Faults /\ wpc = "barrier" /\ Fail("deadline", 0)
  /\ UNCHANGED <<WriterKeeps, ingress, internal, barrier, remaining, durable, pending, batch,
                 attempted, rotated, files, settled>>

\* What a removal of closed files that stops half way may have left.
PartialRemovals(before) == {Without(before, removed) : removed \in SUBSET Closed(before)}

\* The files an append, a rotation or a removal may leave behind.
Interrupted ==
  CASE wpc = "append" -> PartialAppends(files, batch)
    [] wpc = "retain" -> PartialRemovals(files)
    [] OTHER -> {files}

IoError ==
  /\ "io" \in Faults /\ wpc \in {"append", "retain", "forward"}
  /\ files' \in Interrupted
  /\ Fail("io", IF wpc = "append" THEN attempted ELSE 0)
  /\ UNCHANGED <<WriterKeeps, ingress, internal, barrier, remaining, durable, pending, batch,
                 attempted, rotated, settled>>

Crash ==
  /\ "crash" \in Faults /\ phase = "up" /\ spc # "stopped"
  /\ phase' = "down" /\ files' \in Interrupted /\ Cleared /\ Stopped

\* A process that has shut down exits.
Exit == phase = "up" /\ spc = "stopped" /\ phase' = "down" /\ Cleared /\ Stopped /\ UNCHANGED files

Next ==
  \/ Start \/ CheckFlags \/ Producer \/ Recorder \/ Writer \/ Shutdown
  \/ CloseDeadline \/ BarrierDeadline \/ IoError \/ Crash \/ Exit

\* Every thread that can run does; nothing has to record, shut down or fail.
Fairness ==
  /\ WF_vars(Producer) /\ WF_vars(Recorder) /\ WF_vars(Writer)
  /\ WF_vars(IngressClosed \/ SendFlush \/ Flushed \/ RequestShutdown \/ Joined)

Spec == Init /\ [][Next]_vars /\ Fairness
-----------------------------------------------------------------------------
Event == [seq : 1..MaxSeq, summary : Nat]

\* The variables have the types of the fields they stand for; the sequence
\* counter never passes the largest number (recorder.rs, NextAfter).
TypeOK ==
  /\ phase \in {"down", "up", "refused"}
  /\ checking \in 0..Producers /\ permits \in 0..Producers
  /\ ingress \in Seq(Levels) /\ Len(ingress) + permits <= IngressCap
  /\ internal \in Seq(Nat \ {0}) /\ Len(internal) <= InternalCap
  /\ queries \in Seq({"barrier", "close"})
  /\ recv \in [Channels -> {"open", "closed", "ended"}]
  /\ closing \in BOOLEAN /\ requested \in BOOLEAN
  /\ next \in 0..MaxSeq /\ remaining \in 0..MaxSeq /\ last \in 0..MaxSeq
  /\ durable \in Seq(Event) /\ Len(durable) <= DurableCap
  /\ pending \in Seq(Event) /\ batch \in Seq(Event)
  /\ drops \in Nat /\ request \in Nat /\ attempted \in Nat
  /\ inflight \in BOOLEAN /\ progress \in BOOLEAN /\ rotated \in BOOLEAN /\ clean \in BOOLEAN
  /\ wpc \in {"idle", "parked", "collect", "process", "append", "retain", "forward", "admit",
              "barrier", "ended", "failed"}
  /\ mode \in {"work", "flush", "last"}
  /\ failure \in {"none", "order", "idle", "shutdown", "exhausted", "deadline", "io"}
  /\ barrier \in {"none", "sent", "replied"} /\ closed \in {"none", "held", "replied"}
  /\ flush \in {"none", "sent", "taken", "done"}
  /\ spc \in {"idle", "running", "closing", "flush", "flushing", "request", "joining", "stopped"}
  /\ files \in Seq([there : BOOLEAN, events : Seq(Event), torn : BOOLEAN])
  /\ \A i \in DOMAIN files : Len(files[i].events) <= MaxSegment

\* Sequence numbers increase over all files, and the writer never has to refuse
\* a batch for its numbers (SegmentWriter::flush): also over restarts, though
\* numbers given to events that were lost in a crash are given again.
NumbersIncrease ==
  /\ \A i \in DOMAIN files, j \in DOMAIN files :
       \A a \in DOMAIN files[i].events, b \in DOMAIN files[j].events :
         i < j \/ (i = j /\ a < b) => files[i].events[a].seq < files[j].events[b].seq
  /\ failure # "order"

\* An event that try_record accepted has a sequence number left when the
\* recorder gets to it (reserve_sequence against finalize_and_insert), also for
\* the last numbers there are and after a recovery has skipped some.
EveryEventGetsItsNumber ==
  phase = "up" =>
    /\ Len(ingress) + Len(internal) + remaining = (IF next = 0 THEN 0 ELSE MaxSeq - next + 1)
    /\ (next = 0 => ingress = <<>> /\ internal = <<>>)

Weight(events) == FoldFunction(LAMBDA e, n : n + 1 + e.summary, 0, events)

\* As long as the writer has not failed, each durable event is on its way, in
\* the files, or counted exactly once among the drops that are waiting, being
\* forwarded, queued in a summary or reported in the files (DropAtoms,
\* DurableDropRequest, try_record, try_process_next_at).
DropsAreCountedOnce ==
  failure = "none" =>
    offered = settled + Weight(durable) + Weight(pending) + Weight(batch) + drops
                + FoldFunction(LAMBDA n, m : n + m, 0, internal)
                + (IF wpc = "forward" THEN request ELSE 0)

\* A shutdown that reports no error has written every durable event that was
\* accepted, or the report of its drop: nothing is queued or uncounted
\* (RunningDiagnosticWriter::shutdown against producers holding permits).
CleanShutdownLosesNothing ==
  spc = "stopped" /\ clean =>
    offered = settled /\ ingress = <<>> /\ permits = 0 /\ durable = <<>> /\ drops = 0

\* No durable event is lost silently: each is counted once while the writer
\* runs, and written or reported when a shutdown ends without an error.
NoSilentLoss == DropsAreCountedOnce /\ CleanShutdownLosesNothing

\* Without an I/O error, a missed deadline or the end of the numbers the writer
\* thread does not return an error: its work is there when it looks again
\* (wait_process_next_batched), its summaries are admitted unless an earlier
\* step of the shutdown already failed, and no accepted event is without a
\* number.
WriterFailsForAReason ==
  /\ failure # "idle"
  /\ (failure = "shutdown" => ~clean)
  /\ EveryEventGetsItsNumber

\* Whatever crash, failed append, rotation or removal the files were left by,
\* the recovery of the next start accepts them (SegmentWriter::recover and the
\* first scan of retention return no InvalidData); their numbers increase; and
\* the complete lines of the active file survive every step, a crash in the
\* middle of an append, the recovery after it and every retention.
FilesSurvive ==
  /\ [](phase # "refused" /\ NumbersIncrease)
  /\ [][files # <<>> =>
          \E i \in DOMAIN files' : IsPrefix(Last(files).events, files'[i].events)]_vars

\* A shutdown that has begun ends (or the process does), whatever is queued;
\* and counted drops do not stay in memory: a summary takes them unless the
\* writer ends, also when an earlier summary was itself dropped.
ShutdownCompletes ==
  /\ spc = "closing" ~> (spc = "stopped" \/ phase = "down")
  /\ drops > 0 ~> (drops = 0 \/ ~WriterAlive)
-----------------------------------------------------------------------------
(* Proofs: that the files survive, for every capacity, batch, segment and   *)
(* budget.                                                                  *)

\* The events of a sequence are in the order of their numbers; all of one come
\* before all of another; their numbers are above, or below, a number.
Sorted(s) == \A a, b \in DOMAIN s : a < b => s[a].seq < s[b].seq
Before(s, t) == \A a \in DOMAIN s, b \in DOMAIN t : s[a].seq < t[b].seq
Above(n, s) == \A a \in DOMAIN s : n < s[a].seq
Below(s, n) == n = 0 \/ \A a \in DOMAIN s : s[a].seq < n

Segments == [there : BOOLEAN, events : Seq(Event), torn : BOOLEAN]
Places == {"idle", "parked", "collect", "process", "append", "retain", "forward", "admit",
           "barrier", "ended", "failed"}

Types ==
  /\ phase \in {"down", "up"} /\ wpc \in Places
  /\ next \in 0..MaxSeq /\ last \in 0..MaxSeq
  /\ durable \in Seq(Event) /\ pending \in Seq(Event) /\ batch \in Seq(Event)
  /\ files \in Seq(Segments)
  /\ internal \in Seq(Nat) /\ drops \in Nat /\ request \in Nat /\ attempted \in Nat

\* The files as every crash, failed append, rotation and removal leaves them.
Chained(fs) ==
  /\ fs # <<>> => Last(fs).there
  /\ \A i \in DOMAIN fs :
       /\ Sorted(fs[i].events)
       /\ ~fs[i].there => fs[i].events = <<>>
       /\ i < Len(fs) /\ fs[i].there => ~fs[i].torn /\ fs[i].events # <<>>
       /\ \A j \in DOMAIN fs : i < j => Before(fs[i].events, fs[j].events)

\* What the writer has before it, in its order.
Work == (batch \o pending) \o durable

\* The work is in order and above what is written, and the numbers to come are
\* above all of it.
InOrder(work, n, number, fs) ==
  /\ Sorted(work) /\ Above(number, work) /\ Below(work, n)
  /\ \A i \in DOMAIN fs : Before(fs[i].events, work)

OrderInv ==
  phase = "up" =>
    /\ files # <<>> /\ (next = 0 \/ last < next)
    /\ \A i \in DOMAIN files : Below(files[i].events, next)
    /\ WriterAlive =>
         /\ ~Last(files).torn
         /\ wpc = "append" <=> batch # <<>>
         /\ InOrder(Work, next, last, files)

IInv ==
  /\ Types /\ Chained(files) /\ OrderInv
  /\ phase = "down" => wpc = "ended"
  /\ failure # "order"
LEMMA SameSequence ==
  ASSUME NEW S, NEW s \in Seq(S), NEW t \in Seq(S), Len(s) = Len(t),
         \A a \in 1..Len(s) : s[a] = t[a]
  PROVE  s = t
OBVIOUS

-----------------------------------------------------------------------------
(* Facts about sets of numbers and about sequences.                        *)

\* A set of numbers has a smallest member.
LEMMA MinIsIn ==
  ASSUME NEW T, T \subseteq Nat, T # {}
  PROVE  Min(T) \in T /\ \A y \in T : Min(T) <= y
<1>1. PICK x \in T : \A y \in T : ~(<<y, x>> \in OpToRel(<, Nat))
  BY Zenon, WFMin, NatLessThanWellFounded
<1>2. ASSUME NEW y \in T PROVE x <= y
  <2>1. y < x => <<y, x>> \in Nat \X Nat
    OBVIOUS
  <2>2. y < x => <<y, x>> \in OpToRel(<, Nat)
    BY <2>1 DEF OpToRel
  <2>3. ~(y < x)
    BY Zenon, <1>1, <2>2
  <2>4. x \in Nat /\ y \in Nat
    OBVIOUS
  <2> QED
    BY <2>3, <2>4
<1> QED
  BY Zenon, <1>2 DEF Min

\* A bounded set of numbers has a largest member.
LEMMA MaxIsIn ==
  ASSUME NEW n \in Nat, NEW T, T \subseteq 0..n, T # {}
  PROVE  Max(T) \in T /\ \A y \in T : y <= Max(T)
<1> DEFINE R == {n - y : y \in T}
<1>1. R \subseteq Nat
  OBVIOUS
<1>2. PICK z \in T : TRUE
  BY Zenon
<1>3. n - z \in R
  OBVIOUS
<1>4. Min(R) \in R /\ \A y \in R : Min(R) <= y
  BY Zenon, <1>1, <1>3, MinIsIn
<1>5. PICK x \in T : Min(R) = n - x
  BY Zenon, <1>4
<1>6. \A y \in T : n - y \in R /\ n - x <= n - y
  BY Zenon, <1>4, <1>5
<1>7. \A y \in T : y <= x
  BY <1>6
<1> QED
  BY Zenon, <1>7 DEF Max

\* The events of a part of a sequence are events of it, in the same order.
LEMMA PartOf ==
  ASSUME NEW s \in Seq(Event), NEW m \in 1..(Len(s) + 1), NEW n \in 0..Len(s), m <= n + 1
  PROVE  /\ SubSeq(s, m, n) \in Seq(Event) /\ Len(SubSeq(s, m, n)) = n - m + 1
         /\ \A a \in 1..(n - m + 1) :
              m + a - 1 \in DOMAIN s /\ m + a - 1 <= n /\ SubSeq(s, m, n)[a] = s[m + a - 1]
         /\ \A a \in m..n : a - m + 1 \in 1..(n - m + 1) /\ SubSeq(s, m, n)[a - m + 1] = s[a]
<1>1. CASE m <= n
  <2>1. SubSeq(s, m, n) \in Seq(Event) /\ Len(SubSeq(s, m, n)) = n - m + 1
    BY <1>1
  <2>2. ASSUME NEW a \in 1..(n - m + 1) PROVE SubSeq(s, m, n)[a] = s[m + a - 1]
    BY <1>1
  <2>3. \A a \in 1..(n - m + 1) : m + a - 1 \in DOMAIN s /\ m + a - 1 <= n
    BY <1>1
  <2>4. \A a \in m..n : a - m + 1 \in 1..(n - m + 1) /\ m + (a - m + 1) - 1 = a
    BY <1>1
  <2>5. \A a \in m..n : SubSeq(s, m, n)[a - m + 1] = s[a]
    BY <2>2, <2>4
  <2> QED
    BY Zenon, <2>1, <2>2, <2>3, <2>4, <2>5
<1>2. CASE m > n
  BY <1>2
<1> QED
  BY <1>1, <1>2

\* A part of a sequence in order is in order, and keeps every bound of it.
LEMMA SortedPart ==
  ASSUME NEW s \in Seq(Event), NEW m \in 1..(Len(s) + 1), NEW n \in 0..Len(s), m <= n + 1
  PROVE  /\ Sorted(s) => Sorted(SubSeq(s, m, n))
         /\ \A k : Above(k, s) => Above(k, SubSeq(s, m, n))
         /\ \A k : Below(s, k) => Below(SubSeq(s, m, n), k)
         /\ \A t : Before(t, s) => Before(t, SubSeq(s, m, n))
         /\ \A t : Before(s, t) => Before(SubSeq(s, m, n), t)
<1> DEFINE p == SubSeq(s, m, n)
<1>1. /\ DOMAIN p = 1..(n - m + 1)
      /\ \A a \in DOMAIN p : m + a - 1 \in DOMAIN s /\ p[a] = s[m + a - 1]
  BY PartOf
<1>2. \A a, b \in DOMAIN p : a < b => m + a - 1 < m + b - 1
  BY <1>1
<1> HIDE DEF p
<1>3. Sorted(s) => Sorted(p)
  BY <1>1, <1>2 DEF Sorted
<1>4. \A k : Above(k, s) => Above(k, p)
  BY <1>1 DEF Above
<1>5. \A k : Below(s, k) => Below(p, k)
  BY <1>1 DEF Below
<1>6. \A t : Before(t, s) => Before(t, p)
  BY <1>1 DEF Before
<1>7. \A t : Before(s, t) => Before(p, t)
  BY <1>1 DEF Before
<1> QED
  BY <1>3, <1>4, <1>5, <1>6, <1>7 DEF p

\* One event more, behind all others.
LEMMA SortedAppend ==
  ASSUME NEW s \in Seq(Event), NEW e \in Event
  PROVE  /\ Append(s, e) \in Seq(Event)
         /\ Sorted(s) /\ (\A a \in DOMAIN s : s[a].seq < e.seq) => Sorted(Append(s, e))
         /\ \A k : Above(k, s) /\ k < e.seq => Above(k, Append(s, e))
         /\ \A k : Below(s, k) /\ (k = 0 \/ e.seq < k) => Below(Append(s, e), k)
         /\ \A t : Before(t, s) /\ (\A a \in DOMAIN t : t[a].seq < e.seq) => Before(t, Append(s, e))
         /\ \A t : Before(s, t) /\ (\A a \in DOMAIN t : e.seq < t[a].seq) => Before(Append(s, e), t)
<1> DEFINE p == Append(s, e)
<1>1. /\ p \in Seq(Event) /\ DOMAIN p = 1..(Len(s) + 1) /\ DOMAIN s = 1..Len(s)
      /\ \A a \in DOMAIN s : p[a] = s[a]
      /\ p[Len(s) + 1] = e
  OBVIOUS
<1>2. Len(s) \in Nat /\ \A a \in DOMAIN p : a \in DOMAIN s \/ a = Len(s) + 1
  BY <1>1
<1> HIDE DEF p
<1>3. Sorted(s) /\ (\A a \in DOMAIN s : s[a].seq < e.seq) => Sorted(p)
  BY <1>1, <1>2 DEF Sorted
<1>4. \A k : Above(k, s) /\ k < e.seq => Above(k, p)
  BY <1>1, <1>2 DEF Above
<1>5. \A k : Below(s, k) /\ (k = 0 \/ e.seq < k) => Below(p, k)
  BY <1>1, <1>2 DEF Below
<1>6. \A t : Before(t, s) /\ (\A a \in DOMAIN t : t[a].seq < e.seq) => Before(t, p)
  BY <1>1, <1>2 DEF Before
<1>7. \A t : Before(s, t) /\ (\A a \in DOMAIN t : e.seq < t[a].seq) => Before(p, t)
  BY <1>1, <1>2 DEF Before
<1> QED
  BY <1>1, <1>3, <1>4, <1>5, <1>6, <1>7 DEF p

\* Two sequences after one another.
LEMMA SortedConcat ==
  ASSUME NEW s \in Seq(Event), NEW t \in Seq(Event)
  PROVE  /\ s \o t \in Seq(Event) /\ Len(s \o t) = Len(s) + Len(t)
         /\ \A a \in 1..Len(s) : (s \o t)[a] = s[a]
         /\ \A a \in 1..Len(t) : (s \o t)[Len(s) + a] = t[a]
         /\ Sorted(s) /\ Sorted(t) /\ Before(s, t) => Sorted(s \o t)
         /\ \A k : Above(k, s) /\ Above(k, t) => Above(k, s \o t)
         /\ \A k : Below(s, k) /\ Below(t, k) => Below(s \o t, k)
         /\ \A r : Before(r, s) /\ Before(r, t) => Before(r, s \o t)
         /\ \A r : Before(s, r) /\ Before(t, r) => Before(s \o t, r)
<1> DEFINE p == s \o t
<1>1. /\ p \in Seq(Event) /\ Len(p) = Len(s) + Len(t)
      /\ DOMAIN p = 1..(Len(s) + Len(t)) /\ DOMAIN s = 1..Len(s) /\ DOMAIN t = 1..Len(t)
      /\ Len(s) \in Nat /\ Len(t) \in Nat
      /\ \A a \in DOMAIN s : p[a] = s[a]
      /\ \A a \in DOMAIN t : p[Len(s) + a] = t[a]
  OBVIOUS
<1>2. \A a \in DOMAIN p : a \in DOMAIN s \/ (a - Len(s) \in DOMAIN t /\ p[a] = t[a - Len(s)])
  <2> TAKE a \in DOMAIN p
  <2>1. CASE a <= Len(s)
    BY <1>1, <2>1
  <2>2. CASE a > Len(s)
    <3>1. a - Len(s) \in DOMAIN t /\ Len(s) + (a - Len(s)) = a
      BY <1>1, <2>2
    <3> QED
      BY <1>1, <3>1
  <2> QED
    BY <1>1, <2>1, <2>2
<1> HIDE DEF p
<1>3. Sorted(s) /\ Sorted(t) /\ Before(s, t) => Sorted(p)
  <2> SUFFICES ASSUME Sorted(s), Sorted(t), Before(s, t),
                      NEW a \in DOMAIN p, NEW b \in DOMAIN p, a < b
               PROVE  p[a].seq < p[b].seq
    BY DEF Sorted
  <2>1. CASE a \in DOMAIN s /\ b \in DOMAIN s
    BY <1>1, <2>1 DEF Sorted
  <2>2. CASE a \in DOMAIN s /\ b \notin DOMAIN s
    BY <1>1, <1>2, <2>2 DEF Before
  <2>3. CASE a \notin DOMAIN s /\ b \notin DOMAIN s
    <3>1. a - Len(s) < b - Len(s)
      BY <1>1
    <3> QED
      BY <1>2, <2>3, <3>1 DEF Sorted
  <2>4. ~(a \notin DOMAIN s /\ b \in DOMAIN s)
    BY <1>1
  <2> QED
    BY <2>1, <2>2, <2>3, <2>4
<1>4. \A k : Above(k, s) /\ Above(k, t) => Above(k, p)
  BY <1>1, <1>2 DEF Above
<1>5. \A k : Below(s, k) /\ Below(t, k) => Below(p, k)
  BY <1>1, <1>2 DEF Below
<1>6. \A r : Before(r, s) /\ Before(r, t) => Before(r, p)
  BY <1>1, <1>2 DEF Before
<1>7. \A r : Before(s, r) /\ Before(t, r) => Before(p, r)
  BY <1>1, <1>2 DEF Before
<1> QED
  BY <1>1, <1>3, <1>4, <1>5, <1>6, <1>7 DEF p

-----------------------------------------------------------------------------
(* Facts about the operations on the files.                                *)

\* What recover() and retention insist on holds for files in their order.
LEMMA ChainedIsWellFormed ==
  ASSUME NEW fs \in Seq(Segments), Chained(fs)
  PROVE  WellFormed(fs)
<1> SUFFICES ASSUME NEW i \in Closed(fs)
             PROVE  /\ Complete(fs[i])
                    /\ \A j \in (i + 1)..Len(fs) : Follows(fs[i], fs[j])
  BY DEF WellFormed
<1>1. i \in DOMAIN fs /\ i < Len(fs) /\ fs[i].there /\ fs[i] \in Segments
  BY DEF Closed
<1>2. fs[i].events \in Seq(Event) /\ ~fs[i].torn /\ fs[i].events # <<>> /\ Sorted(fs[i].events)
  BY <1>1 DEF Chained, Segments
<1>3. Complete(fs[i])
  BY <1>2 DEF Complete, Sorted
<1>4. ASSUME NEW j \in (i + 1)..Len(fs) PROVE Follows(fs[i], fs[j])
  <2>1. j \in DOMAIN fs /\ i < j /\ fs[j] \in Segments
    BY <1>1
  <2>2. Before(fs[i].events, fs[j].events) /\ fs[j].events \in Seq(Event)
    BY <1>1, <2>1 DEF Chained, Segments
  <2>3. Len(fs[i].events) \in DOMAIN fs[i].events
    BY <1>2
  <2>4. fs[j].events # <<>> => 1 \in DOMAIN fs[j].events
    BY <2>2
  <2> QED
    BY <2>2, <2>3, <2>4 DEF Follows, Last, Before
<1> QED
  BY <1>3, <1>4

\* Another active file in the place of the last one.
LEMMA ReplacedLast ==
  ASSUME NEW fs \in Seq(Segments), fs # <<>>, Chained(fs),
         NEW g \in Segments, g.there, Sorted(g.events),
         \A i \in DOMAIN fs : i < Len(fs) => Before(fs[i].events, g.events)
  PROVE  /\ [fs EXCEPT ![Len(fs)] = g] \in Seq(Segments)
         /\ Len([fs EXCEPT ![Len(fs)] = g]) = Len(fs)
         /\ Chained([fs EXCEPT ![Len(fs)] = g])
         /\ Last([fs EXCEPT ![Len(fs)] = g]) = g
         /\ \A i \in DOMAIN fs : i < Len(fs) => [fs EXCEPT ![Len(fs)] = g][i] = fs[i]
<1> DEFINE w == [fs EXCEPT ![Len(fs)] = g]
<1>1. Len(fs) \in DOMAIN fs /\ DOMAIN fs = 1..Len(fs) /\ Len(fs) \in Nat
  OBVIOUS
<1>2. /\ w \in Seq(Segments) /\ Len(w) = Len(fs) /\ DOMAIN w = DOMAIN fs
      /\ w[Len(fs)] = g
      /\ \A i \in DOMAIN fs : i < Len(fs) => w[i] = fs[i]
  BY <1>1
<1> HIDE DEF w
<1>3. Last(w) = g /\ w # <<>>
  BY <1>1, <1>2 DEF Last
<1>4. ASSUME NEW i \in DOMAIN w
      PROVE  /\ Sorted(w[i].events)
             /\ ~w[i].there => w[i].events = <<>>
             /\ i < Len(w) /\ w[i].there => ~w[i].torn /\ w[i].events # <<>>
  BY <1>1, <1>2 DEF Chained
<1>5. ASSUME NEW i \in DOMAIN w, NEW j \in DOMAIN w, i < j
      PROVE  Before(w[i].events, w[j].events)
  <2>1. i < Len(fs) /\ w[i] = fs[i]
    BY <1>1, <1>2, <1>5
  <2>2. CASE j = Len(fs)
    BY <1>2, <2>1, <2>2
  <2>3. CASE j < Len(fs)
    BY <1>2, <1>5, <2>1, <2>3 DEF Chained
  <2> QED
    BY <1>1, <1>2, <2>2, <2>3
<1>6. Chained(w)
  BY <1>3, <1>4, <1>5 DEF Chained
<1> QED
  BY <1>2, <1>3, <1>6 DEF w

\* An append leaves the files in order, whatever part of a batch reached them.
LEMMA AppendedIsChained ==
  ASSUME NEW fs \in Seq(Segments), fs # <<>>, Chained(fs),
         NEW events \in Seq(Event), Sorted(events),
         \A i \in DOMAIN fs : Before(fs[i].events, events),
         NEW n \in 0..Len(events), NEW torn \in BOOLEAN
  PROVE  LET w == Appended(fs, events, n, torn)
         IN /\ w \in Seq(Segments) /\ w # <<>> /\ Len(w) = Len(fs) /\ Chained(w)
            /\ Last(w).events = Last(fs).events \o SubSeq(events, 1, n)
            /\ Last(w).torn <=> (Last(fs).torn \/ torn)
            /\ \A i \in DOMAIN fs : i < Len(fs) => w[i] = fs[i]
<1> DEFINE part == SubSeq(events, 1, n)
           g == Segment(Last(fs).events \o part, Last(fs).torn \/ torn)
<1>1. part \in Seq(Event) /\ Sorted(part) /\ \A i \in DOMAIN fs : Before(fs[i].events, part)
  BY PartOf, SortedPart
<1>2. Len(fs) \in DOMAIN fs /\ Last(fs) \in Segments /\ Last(fs) = fs[Len(fs)]
  BY DEF Last
<1>3. Last(fs).events \in Seq(Event) /\ Last(fs).torn \in BOOLEAN /\ Sorted(Last(fs).events)
  BY <1>2 DEF Segments, Chained
<1>4. Before(Last(fs).events, part)
  BY <1>1, <1>2
<1> HIDE DEF part
<1>5. Last(fs).events \o part \in Seq(Event) /\ Sorted(Last(fs).events \o part)
  BY <1>1, <1>3, <1>4, SortedConcat
<1>6. ASSUME NEW i \in DOMAIN fs, i < Len(fs)
      PROVE  Before(fs[i].events, Last(fs).events \o part)
  <2>1. Before(fs[i].events, Last(fs).events) /\ Before(fs[i].events, part)
    BY <1>1, <1>2, <1>6 DEF Chained
  <2> QED
    BY <1>1, <1>3, <2>1, SortedConcat
<1>7. /\ g \in Segments /\ g.there /\ g.events = Last(fs).events \o part
      /\ g.torn <=> (Last(fs).torn \/ torn)
  BY Zenon, <1>3, <1>5 DEF Segment, Segments
<1>8. Appended(fs, events, n, torn) = [fs EXCEPT ![Len(fs)] = g]
  BY DEF Appended, part
<1> HIDE DEF g
<1>9. \A i \in DOMAIN fs : i < Len(fs) => Before(fs[i].events, g.events)
  BY <1>6, <1>7
<1>10. Sorted(g.events)
  BY <1>5, <1>7
<1>11. /\ [fs EXCEPT ![Len(fs)] = g] \in Seq(Segments)
       /\ Len([fs EXCEPT ![Len(fs)] = g]) = Len(fs)
       /\ Chained([fs EXCEPT ![Len(fs)] = g])
       /\ Last([fs EXCEPT ![Len(fs)] = g]) = g
       /\ \A i \in DOMAIN fs : i < Len(fs) => [fs EXCEPT ![Len(fs)] = g][i] = fs[i]
  BY Zenon, <1>7, <1>9, <1>10, ReplacedLast
<1>12. [fs EXCEPT ![Len(fs)] = g] # <<>>
  BY <1>2, <1>11
<1> QED
  BY Zenon, <1>7, <1>8, <1>11, <1>12 DEF part

\* A recovery leaves the files in order, with an active file that is whole.
LEMMA RepairedIsChained ==
  ASSUME NEW fs \in Seq(Segments), Chained(fs)
  PROVE  LET w == Repair(fs)
         IN /\ w \in Seq(Segments) /\ w # <<>> /\ Chained(w) /\ ~Last(w).torn
            /\ fs # <<>> => Len(w) = Len(fs) /\ \A i \in DOMAIN fs : w[i].events = fs[i].events
            /\ fs = <<>> => w = <<EmptySegment>>
<1>1. CASE fs = <<>>
  <2>1. Repair(fs) = <<EmptySegment>> /\ EmptySegment \in Segments /\ <<>> \in Seq(Event)
    BY <1>1 DEF Repair, EmptySegment, Segment, Segments
  <2>2. EmptySegment.there /\ EmptySegment.events = <<>> /\ ~EmptySegment.torn
    BY DEF EmptySegment, Segment
  <2>3. Sorted(<<>>) /\ DOMAIN <<EmptySegment>> = {1} /\ Len(<<EmptySegment>>) = 1
    BY DEF Sorted
  <2>4. Last(<<EmptySegment>>) = EmptySegment
    BY DEF Last
  <2>5. Chained(<<EmptySegment>>)
    BY <2>2, <2>3, <2>4 DEF Chained
  <2>6. <<EmptySegment>> \in Seq(Segments) /\ <<EmptySegment>> # <<>>
    BY <2>1
  <2> HIDE DEF EmptySegment
  <2> QED
    BY Zenon, <1>1, <2>1, <2>2, <2>4, <2>5, <2>6
<1>2. CASE fs # <<>>
  <2> DEFINE g == Segment(Last(fs).events, FALSE)
  <2>1. Len(fs) \in DOMAIN fs /\ Last(fs) \in Segments /\ Last(fs) = fs[Len(fs)]
    BY <1>2 DEF Last
  <2>2. g \in Segments /\ g.there /\ g.events = fs[Len(fs)].events /\ ~g.torn
    BY <2>1 DEF Segment, Segments
  <2>3. Repair(fs) = [fs EXCEPT ![Len(fs)] = g]
    BY <1>2 DEF Repair
  <2> HIDE DEF g
  <2>4. Sorted(g.events) /\ \A i \in DOMAIN fs : i < Len(fs) => Before(fs[i].events, g.events)
    BY <2>1, <2>2 DEF Chained
  <2>5. /\ [fs EXCEPT ![Len(fs)] = g] \in Seq(Segments)
        /\ Len([fs EXCEPT ![Len(fs)] = g]) = Len(fs)
        /\ Chained([fs EXCEPT ![Len(fs)] = g])
        /\ Last([fs EXCEPT ![Len(fs)] = g]) = g
        /\ \A i \in DOMAIN fs : i < Len(fs) => [fs EXCEPT ![Len(fs)] = g][i] = fs[i]
    BY <1>2, <2>2, <2>4, ReplacedLast
  <2>6. \A i \in DOMAIN fs : i < Len(fs) \/ i = Len(fs)
    OBVIOUS
  <2>7. Repair(fs)[Len(fs)] = g
    BY <2>3, <2>5 DEF Last
  <2> QED
    BY <1>2, <2>1, <2>2, <2>3, <2>5, <2>6, <2>7
<1> QED
  BY <1>1, <1>2

\* A removal of closed files leaves the others, in order.
LEMMA WithoutIsChained ==
  ASSUME NEW fs \in Seq(Segments), fs # <<>>, Chained(fs), NEW removed \in SUBSET Closed(fs)
  PROVE  LET w == Without(fs, removed)
         IN /\ w \in Seq(Segments) /\ w # <<>> /\ Chained(w) /\ Last(w) = Last(fs)
            /\ \A i \in DOMAIN w : w[i].events = <<>>
                                     \/ \E j \in DOMAIN fs : w[i].events = fs[j].events
<1> DEFINE left == [i \in DOMAIN fs |-> IF i \in removed THEN Gone ELSE fs[i]]
           T == {i \in DOMAIN fs : left[i].there}
           m == Min(T)
           w == SubSeq(left, m, Len(fs))
<1>1. DOMAIN fs = 1..Len(fs) /\ Len(fs) \in DOMAIN fs /\ Len(fs) \in Nat \ {0}
  OBVIOUS
<1>2. Len(fs) \notin removed /\ Last(fs) = fs[Len(fs)] /\ fs[Len(fs)].there
  BY <1>1 DEF Closed, Chained, Last
<1>3. Gone \in Segments /\ Gone.events = <<>> /\ ~Gone.there
  BY DEF Gone, Segments
<1>4. /\ left \in Seq(Segments) /\ Len(left) = Len(fs) /\ DOMAIN left = DOMAIN fs
      /\ left[Len(fs)] = fs[Len(fs)]
      /\ \A i \in DOMAIN fs : left[i] = fs[i] \/ left[i] = Gone
  BY <1>1, <1>2, <1>3
<1> HIDE DEF left
<1>5. T \subseteq Nat /\ Len(fs) \in T
  BY <1>1, <1>2, <1>4
<1>6. m \in T /\ \A y \in T : m <= y
  BY Zenon, <1>5, MinIsIn
<1>7. m \in 1..Len(fs)
  BY <1>1, <1>6
<1> HIDE DEF m, T
<1>8. /\ w \in Seq(Segments) /\ Len(w) = Len(fs) - m + 1
      /\ \A a \in 1..(Len(fs) - m + 1) : w[a] = left[m + a - 1]
  BY <1>1, <1>4, <1>7
<1>9. /\ DOMAIN w = 1..(Len(fs) - m + 1) /\ Len(w) \in Nat \ {0}
      /\ \A a \in DOMAIN w : m + a - 1 \in DOMAIN fs
      /\ \A a, b \in DOMAIN w : a < b => m + a - 1 < m + b - 1
      /\ \A a \in DOMAIN w : a < Len(w) => m + a - 1 < Len(fs)
      /\ m + Len(w) - 1 = Len(fs)
  BY <1>1, <1>7, <1>8
<1> HIDE DEF w
<1>10. w # <<>> /\ Len(w) \in DOMAIN w
  BY <1>8, <1>9
<1>11. Last(w) = Last(fs)
  BY <1>2, <1>4, <1>8, <1>9, <1>10 DEF Last
<1>12. ASSUME NEW a \in DOMAIN w
       PROVE  \/ w[a] = Gone
              \/ w[a] = fs[m + a - 1] /\ m + a - 1 \in DOMAIN fs
  BY <1>4, <1>8, <1>9
<1>13. Sorted(<<>>) /\ \A t : Before(<<>>, t) /\ Before(t, <<>>)
  BY DEF Sorted, Before
<1>14. ASSUME NEW a \in DOMAIN w
       PROVE  /\ Sorted(w[a].events)
              /\ ~w[a].there => w[a].events = <<>>
              /\ a < Len(w) /\ w[a].there => ~w[a].torn /\ w[a].events # <<>>
  <2>1. CASE w[a] = Gone
    BY <1>3, <1>13, <2>1
  <2>2. CASE w[a] = fs[m + a - 1] /\ m + a - 1 \in DOMAIN fs
    BY <1>9, <2>2 DEF Chained
  <2> QED
    BY <1>12, <2>1, <2>2
<1>15. ASSUME NEW a \in DOMAIN w, NEW b \in DOMAIN w, a < b
       PROVE  Before(w[a].events, w[b].events)
  <2>1. CASE w[a] = Gone \/ w[b] = Gone
    BY <1>3, <1>13, <2>1
  <2>2. CASE w[a] = fs[m + a - 1] /\ w[b] = fs[m + b - 1]
    <3>1. m + a - 1 \in DOMAIN fs /\ m + b - 1 \in DOMAIN fs /\ m + a - 1 < m + b - 1
      BY <1>9, <1>15
    <3> QED
      BY <2>2, <3>1 DEF Chained
  <2> QED
    BY <1>12, <2>1, <2>2
<1>16. Chained(w)
  BY <1>2, <1>11, <1>14, <1>15 DEF Chained
<1>17. \A a \in DOMAIN w : w[a].events = <<>> \/ \E j \in DOMAIN fs : w[a].events = fs[j].events
  BY <1>3, <1>12
<1>18. Without(fs, removed) = w
  BY DEF Without, w, m, T, left
<1> QED
  BY <1>8, <1>10, <1>11, <1>16, <1>17, <1>18

\* A new file behind one that is whole and has lines.
LEMMA RotatedIsChained ==
  ASSUME NEW fs \in Seq(Segments), fs # <<>>, Chained(fs),
         ~Last(fs).torn, Last(fs).events # <<>>
  PROVE  LET w == Append(fs, EmptySegment)
         IN /\ w \in Seq(Segments) /\ w # <<>> /\ Chained(w) /\ ~Last(w).torn
            /\ Len(w) = Len(fs) + 1 /\ Last(w).events = <<>>
            /\ \A i \in DOMAIN fs : i \in DOMAIN w /\ w[i] = fs[i]
<1> DEFINE w == Append(fs, EmptySegment)
<1>1. EmptySegment \in Segments /\ EmptySegment.there
        /\ EmptySegment.events = <<>> /\ ~EmptySegment.torn
  BY DEF EmptySegment, Segment, Segments
<1>2. Len(fs) \in Nat \ {0} /\ DOMAIN fs = 1..Len(fs) /\ Last(fs) = fs[Len(fs)]
  BY DEF Last
<1> HIDE DEF EmptySegment
<1>3. /\ w \in Seq(Segments) /\ Len(w) = Len(fs) + 1 /\ DOMAIN w = 1..(Len(fs) + 1) /\ w # <<>>
      /\ w[Len(fs) + 1] = EmptySegment
      /\ \A i \in DOMAIN fs : w[i] = fs[i]
  BY <1>1, <1>2
<1> HIDE DEF w
<1>4. Last(w) = EmptySegment
  BY <1>3 DEF Last
<1>5. \A i \in DOMAIN w : i \in DOMAIN fs \/ i = Len(fs) + 1
  BY <1>2, <1>3
<1>6. Sorted(<<>>) /\ \A t : Before(t, <<>>)
  BY DEF Sorted, Before
<1>7. ASSUME NEW i \in DOMAIN w
      PROVE  /\ Sorted(w[i].events)
             /\ ~w[i].there => w[i].events = <<>>
             /\ i < Len(w) /\ w[i].there => ~w[i].torn /\ w[i].events # <<>>
  <2>1. CASE i \in DOMAIN fs /\ i < Len(fs)
    BY <1>3, <2>1 DEF Chained
  <2>2. CASE i = Len(fs)
    BY <1>2, <1>3, <2>2 DEF Chained
  <2>3. CASE i = Len(fs) + 1
    BY <1>1, <1>2, <1>3, <1>6, <2>3
  <2> QED
    BY <1>2, <1>5, <2>1, <2>2, <2>3
<1>8. ASSUME NEW i \in DOMAIN w, NEW j \in DOMAIN w, i < j
      PROVE  Before(w[i].events, w[j].events)
  <2>1. CASE j \in DOMAIN fs
    <3>1. i \in DOMAIN fs
      BY <1>2, <1>3, <1>8, <2>1
    <3> QED
      BY <1>3, <1>8, <2>1, <3>1 DEF Chained
  <2>2. CASE j = Len(fs) + 1
    BY <1>1, <1>3, <1>6, <2>2
  <2> QED
    BY <1>5, <2>1, <2>2
<1>9. Chained(w)
  BY <1>1, <1>4, <1>7, <1>8 DEF Chained
<1>10. \A i \in DOMAIN fs : i \in DOMAIN w
  BY <1>2, <1>3
<1> QED
  BY Zenon, <1>1, <1>3, <1>4, <1>9, <1>10 DEF w

\* The last number is one of 0..MaxSeq and no event of the files is above it.
LEMMA LastSequenceIsLast ==
  ASSUME NEW fs \in Seq(Segments), Chained(fs)
  PROVE  /\ LastSequence(fs) \in 0..MaxSeq
         /\ \A i \in DOMAIN fs : \A a \in DOMAIN fs[i].events :
              fs[i].events[a].seq <= LastSequence(fs)
<1> DEFINE used == {i \in DOMAIN fs : fs[i].events # <<>>}
<1> USE DiagnosticsAssumption
<1>1. CASE used = {}
  <2>1. LastSequence(fs) = 0
    BY <1>1 DEF LastSequence
  <2>2. \A i \in DOMAIN fs : DOMAIN fs[i].events = {}
    BY <1>1
  <2> QED
    BY <2>1, <2>2
<1>2. CASE used # {}
  <2>1. used \subseteq 0..Len(fs) /\ Len(fs) \in Nat
    OBVIOUS
  <2>2. Max(used) \in used /\ \A y \in used : y <= Max(used)
    BY Zenon, <1>2, <2>1, MaxIsIn
  <2> DEFINE k == Max(used)
             top == fs[k].events
  <2>3. k \in DOMAIN fs /\ top # <<>> /\ top \in Seq(Event) /\ Sorted(top)
    <3>1. k \in DOMAIN fs /\ top # <<>>
      BY <2>2
    <3>2. fs[k] \in Segments
      BY <3>1
    <3> QED
      BY <3>1, <3>2 DEF Chained, Segments
  <2>4. LastSequence(fs) = top[Len(top)].seq
    BY <1>2 DEF LastSequence, Last
  <2>5. \A i \in DOMAIN fs : fs[i].events # <<>> => i <= k
    BY <2>2
  <2> HIDE DEF k, used
  <2>6. Len(top) \in DOMAIN top /\ \A a \in DOMAIN top : a < Len(top) \/ a = Len(top)
    BY <2>3
  <2>7. top[Len(top)] \in Event /\ top[Len(top)].seq \in 1..MaxSeq
    <3>1. top[Len(top)] \in Event
      BY <2>3, <2>6
    <3> HIDE DEF top
    <3> QED
      BY <3>1 DEF Event
  <2>8. ASSUME NEW i \in DOMAIN fs, NEW a \in DOMAIN fs[i].events
        PROVE  fs[i].events[a].seq <= LastSequence(fs)
    <3>1. fs[i].events \in Seq(Event) /\ fs[i].events # <<>>
      <4>1. fs[i] \in Segments
        OBVIOUS
      <4> QED
        BY <4>1, <2>8 DEF Segments
    <3>2. fs[i].events[a] \in Event /\ fs[i].events[a].seq \in 1..MaxSeq
      <4>1. fs[i].events[a] \in Event
        BY <3>1
      <4> QED
        BY <4>1 DEF Event
    <3>3. CASE i = k
      <4>1. a \in DOMAIN top /\ fs[i].events[a] = top[a]
        BY <3>3
      <4>2. a = Len(top) \/ top[a].seq < top[Len(top)].seq
        BY Zenon, <2>3, <2>6, <4>1 DEF Sorted
      <4> HIDE DEF top
      <4> QED
        BY <2>4, <2>7, <3>2, <4>1, <4>2
    <3>4. CASE i < k
      <4>1. Before(fs[i].events, top)
        BY <2>3, <3>4 DEF Chained
      <4>2. fs[i].events[a].seq < top[Len(top)].seq
        BY Zenon, <4>1, <2>6 DEF Before
      <4> HIDE DEF top
      <4> QED
        BY <2>4, <2>7, <3>2, <4>2
    <3> QED
      BY <2>3, <2>5, <3>1, <3>3, <3>4
  <2>9. LastSequence(fs) \in 0..MaxSeq
    BY <2>4, <2>7
  <2> QED
    BY <2>8, <2>9
<1> QED
  BY <1>1, <1>2

\* try_process_next_at takes a front part of what there is, of at least one
\* event.
LEMMA BatchIsAFront ==
  ASSUME NEW q \in Seq(Event), q # <<>>
  PROVE  LET size == Len(BatchOf(q))
         IN /\ size \in 1..Len(q) /\ BatchOf(q) = SubSeq(q, 1, size)
            /\ Received(q, size) \in size..Len(q)
<1> USE DiagnosticsAssumption
<1>1. Len(q) \in Nat \ {0} /\ DOMAIN q = 1..Len(q)
  OBVIOUS
<1>2. CASE IsSummary(q[1])
  <2>1. BatchOf(q) = <<q[1]>> /\ Len(<<q[1]>>) = 1
    BY <1>2 DEF BatchOf
  <2>2. SubSeq(q, 1, 1) = <<q[1]>>
    <3>1. SubSeq(q, 1, 1) \in Seq(Event) /\ Len(SubSeq(q, 1, 1)) = 1 /\ SubSeq(q, 1, 1)[1] = q[1]
      BY <1>1
    <3>2. <<q[1]>> \in Seq(Event) /\ Len(<<q[1]>>) = 1 /\ <<q[1]>>[1] = q[1]
      BY <1>1
    <3>3. \A i \in 1..1 : i = 1
      OBVIOUS
    <3> QED
      BY Zenon, <3>1, <3>2, <3>3, SameSequence
  <2> QED
    BY <1>1, <1>2, <2>1, <2>2 DEF Received
<1>3. CASE ~IsSummary(q[1])
  <2> DEFINE stop == {i \in DOMAIN q : i > BatchMax \/ IsSummary(q[i])}
             k == IF stop = {} THEN Len(q) ELSE Min(stop) - 1
  <2>1. BatchOf(q) = SubSeq(q, 1, k)
    BY Zenon, <1>3 DEF BatchOf
  <2>2. k \in 1..Len(q) /\ \A i \in 1..k : i \notin stop
    <3>1. CASE stop = {}
      BY <1>1, <3>1
    <3>2. CASE stop # {}
      <4>1. stop \subseteq Nat /\ 1 \notin stop
        BY <1>1, <1>3
      <4>2. Min(stop) \in stop /\ \A y \in stop : Min(stop) <= y
        BY Zenon, <3>2, <4>1, MinIsIn
      <4>3. Min(stop) \in 2..Len(q)
        BY <1>1, <4>1, <4>2
      <4> HIDE DEF stop
      <4> QED
        BY <1>1, <3>2, <4>2, <4>3
    <3> QED
      BY Zenon, <3>1, <3>2
  <2> HIDE DEF k
  <2>3. Len(SubSeq(q, 1, k)) = k /\ \A a \in 1..k : SubSeq(q, 1, k)[a] = q[a]
    BY <1>1, <2>2
  <2>4. Received(q, k) \in k..Len(q)
    BY <1>1, <2>2 DEF Received
  <2> QED
    BY <2>1, <2>2, <2>3, <2>4
<1> QED
  BY <1>2, <1>3

\* What a step of the process does to the queues of events when it takes a
\* batch: it splits them in order.
LEMMA Splits ==
  ASSUME pending \in Seq(Event), durable \in Seq(Event), ProcessEvents
  PROVE  LET queue == pending \o durable
             size == Len(BatchOf(queue))
             received == Max({Received(queue, size), Len(pending)})
         IN /\ queue \in Seq(Event) /\ queue # <<>>
            /\ size \in 1..Len(queue) /\ received \in size..Len(queue)
            /\ BatchOf(queue) = SubSeq(queue, 1, size)
            /\ pending' = SubSeq(queue, size + 1, received)
            /\ durable' = SubSeq(queue, received + 1, Len(queue))
<1> DEFINE queue == pending \o durable
           size == Len(BatchOf(queue))
           R == {Received(queue, size), Len(pending)}
<1>1. queue \in Seq(Event) /\ queue # <<>> /\ Len(queue) = Len(pending) + Len(durable)
  BY DEF ProcessEvents
<1>2. /\ pending' = SubSeq(queue, size + 1, Max(R))
      /\ durable' = SubSeq(queue, Max(R) + 1, Len(queue))
  BY DEF ProcessEvents
<1>3. Len(pending) \in 0..Len(queue) /\ Len(queue) \in Nat
  BY <1>1
<1> HIDE DEF queue
<1>4. /\ size \in 1..Len(queue) /\ BatchOf(queue) = SubSeq(queue, 1, size)
      /\ Received(queue, size) \in size..Len(queue)
  BY <1>1, BatchIsAFront
<1> HIDE DEF size
<1>5. R \subseteq 0..Len(queue) /\ R # {}
  BY <1>3, <1>4
<1>6. Max(R) \in R /\ \A y \in R : y <= Max(R)
  BY Zenon, <1>3, <1>5, MaxIsIn
<1>7. Max(R) \in size..Len(queue)
  BY <1>3, <1>4, <1>6
<1> QED
  BY Zenon, <1>1, <1>2, <1>4, <1>7 DEF queue, size

LEMMA NumberOf ==
  ASSUME NEW s \in Seq(Event), NEW a \in DOMAIN s
  PROVE  s[a] \in Event /\ s[a].seq \in 1..MaxSeq /\ s[a].seq \in Nat
<1>1. s[a] \in Event
  OBVIOUS
<1>2. s[a].seq \in 1..MaxSeq
  BY <1>1 DEF Event
<1> QED
  BY <1>1, <1>2, DiagnosticsAssumption

LEMMA EventsOf ==
  ASSUME NEW fs \in Seq(Segments), NEW i \in DOMAIN fs
  PROVE  fs[i] \in Segments /\ fs[i].events \in Seq(Event)
<1>1. fs[i] \in Segments
  OBVIOUS
<1> QED
  BY <1>1 DEF Segments

LEMMA FrontOf ==
  ASSUME NEW s \in Seq(Event), NEW n \in 0..Len(s)
  PROVE  /\ SubSeq(s, 1, n) \in Seq(Event) /\ Len(SubSeq(s, 1, n)) = n
         /\ \A a \in 1..n : SubSeq(s, 1, n)[a] = s[a] /\ a \in DOMAIN s
BY PartOf

LEMMA RestOf ==
  ASSUME NEW s \in Seq(Event), NEW n \in 0..Len(s)
  PROVE  /\ SubSeq(s, n + 1, Len(s)) \in Seq(Event) /\ Len(SubSeq(s, n + 1, Len(s))) = Len(s) - n
         /\ \A a \in 1..(Len(s) - n) :
              SubSeq(s, n + 1, Len(s))[a] = s[n + a] /\ n + a \in DOMAIN s
<1>1. /\ Len(s) \in Nat /\ n \in Nat /\ n + 1 \in 1..(Len(s) + 1) /\ Len(s) \in 0..Len(s)
      /\ n + 1 <= Len(s) + 1 /\ Len(s) - (n + 1) + 1 = Len(s) - n
  OBVIOUS
<1>2. SubSeq(s, n + 1, Len(s)) \in Seq(Event) /\ Len(SubSeq(s, n + 1, Len(s))) = Len(s) - n
  BY Zenon, <1>1, PartOf
<1>3. ASSUME NEW a \in 1..(Len(s) - n)
      PROVE  SubSeq(s, n + 1, Len(s))[a] = s[n + a] /\ n + a \in DOMAIN s
  <2>1. a \in 1..(Len(s) - (n + 1) + 1) /\ n + 1 + a - 1 = n + a
    BY <1>1
  <2>2. SubSeq(s, n + 1, Len(s))[a] = s[n + 1 + a - 1] /\ n + 1 + a - 1 \in DOMAIN s
    BY <1>1, <2>1, PartOf
  <2> QED
    BY <2>1, <2>2
<1> QED
  BY <1>2, <1>3

\* The sequence w is b, then p, then d.
InThree(w, b, p, d) ==
  /\ w \in Seq(Event) /\ Len(w) = Len(b) + Len(p) + Len(d)
  /\ \A a \in 1..Len(b) : w[a] = b[a]
  /\ \A a \in 1..Len(p) : w[Len(b) + a] = p[a]
  /\ \A a \in 1..Len(d) : w[Len(b) + Len(p) + a] = d[a]

\* The work is the batch, then what is pending, then what is queued.
LEMMA WorkParts ==
  ASSUME NEW b \in Seq(Event), NEW p \in Seq(Event), NEW d \in Seq(Event)
  PROVE  InThree((b \o p) \o d, b, p, d)
<1> DEFINE u == b \o p
           w == u \o d
<1>1. /\ u \in Seq(Event) /\ Len(u) = Len(b) + Len(p)
      /\ \A a \in 1..Len(b) : u[a] = b[a]
      /\ \A a \in 1..Len(p) : u[Len(b) + a] = p[a]
  BY SortedConcat
<1> HIDE DEF u
<1>2. /\ w \in Seq(Event) /\ Len(w) = Len(u) + Len(d)
      /\ \A a \in 1..Len(u) : w[a] = u[a]
      /\ \A a \in 1..Len(d) : w[Len(u) + a] = d[a]
  BY Zenon, <1>1, SortedConcat
<1> HIDE DEF w
<1>3. Len(b) \in Nat /\ Len(p) \in Nat /\ Len(d) \in Nat
  OBVIOUS
<1>4. \A a \in 1..Len(b) : a \in 1..Len(u)
  BY <1>1, <1>3
<1>5. \A a \in 1..Len(p) : Len(b) + a \in 1..Len(u)
  BY <1>1, <1>3
<1> QED
  BY <1>1, <1>2, <1>3, <1>4, <1>5 DEF InThree, w, u

\* Any way to cut a sequence in three gives the sequence.
LEMMA CutInThree ==
  ASSUME NEW q \in Seq(Event), NEW k \in 0..Len(q), NEW m \in k..Len(q)
  PROVE  (SubSeq(q, 1, k) \o SubSeq(q, k + 1, m)) \o SubSeq(q, m + 1, Len(q)) = q
<1> DEFINE b == SubSeq(q, 1, k)
           p == SubSeq(q, k + 1, m)
           d == SubSeq(q, m + 1, Len(q))
           w == (b \o p) \o d
<1>0. Len(q) \in Nat /\ k \in Nat /\ m \in Nat /\ k <= m /\ m <= Len(q) /\ DOMAIN q = 1..Len(q)
  OBVIOUS
<1>01. /\ k \in 0..Len(q) /\ m \in 0..Len(q) /\ k + 1 \in 1..(Len(q) + 1) /\ k + 1 <= m + 1
  BY <1>0
<1>1. b \in Seq(Event) /\ Len(b) = k /\ \A a \in 1..k : b[a] = q[a]
  BY Zenon, <1>01, FrontOf
<1>2. p \in Seq(Event) /\ Len(p) = m - k /\ \A a \in 1..(m - k) : p[a] = q[k + a]
  <2>1. p \in Seq(Event) /\ Len(p) = m - (k + 1) + 1
    BY Zenon, <1>01, PartOf
  <2>2. ASSUME NEW a \in 1..(m - (k + 1) + 1) PROVE p[a] = q[(k + 1) + a - 1]
    BY Zenon, <1>01, PartOf
  <2>3. \A a \in 1..(m - k) : a \in 1..(m - (k + 1) + 1) /\ (k + 1) + a - 1 = k + a
    BY <1>0
  <2> HIDE DEF p
  <2>4. Len(p) = m - k
    BY <1>0, <2>1
  <2>5. ASSUME NEW a \in 1..(m - k) PROVE p[a] = q[k + a]
    <3>1. a \in 1..(m - (k + 1) + 1) /\ (k + 1) + a - 1 = k + a
      BY Zenon, <2>3
    <3>2. p[a] = q[(k + 1) + a - 1]
      BY Zenon, <2>2, <3>1
    <3> QED
      BY Zenon, <3>1, <3>2
  <2> QED
    BY Zenon, <2>1, <2>4, <2>5
<1>3. d \in Seq(Event) /\ Len(d) = Len(q) - m /\ \A a \in 1..(Len(q) - m) : d[a] = q[m + a]
  BY Zenon, <1>01, RestOf
<1> HIDE DEF b, p, d
<1>4. /\ w \in Seq(Event) /\ Len(w) = Len(b) + Len(p) + Len(d)
      /\ \A a \in 1..Len(b) : w[a] = b[a]
      /\ \A a \in 1..Len(p) : w[Len(b) + a] = p[a]
      /\ \A a \in 1..Len(d) : w[Len(b) + Len(p) + a] = d[a]
  <2>1. InThree(w, b, p, d)
    BY Zenon, <1>1, <1>2, <1>3, WorkParts
  <2> QED
    BY Zenon, <2>1 DEF InThree
<1> HIDE DEF w
<1>5. Len(w) = Len(q)
  BY <1>0, <1>1, <1>2, <1>3, <1>4
<1>6. ASSUME NEW a \in 1..Len(q) PROVE w[a] = q[a]
  <2>1. CASE a <= k
    BY <1>0, <1>1, <1>4, <2>1
  <2>2. CASE k < a /\ a <= m
    <3> DEFINE c == a - k
    <3>1. c \in 1..(m - k) /\ k + c = a
      BY <1>0, <2>2
    <3> HIDE DEF c
    <3>2. w[Len(b) + c] = p[c] /\ p[c] = q[k + c]
      BY Zenon, <3>1, <1>1, <1>2, <1>4
    <3> QED
      BY <3>1, <3>2, <1>1
  <2>3. CASE m < a
    <3> DEFINE c == a - m
    <3>1. c \in 1..(Len(q) - m) /\ m + c = a /\ Len(b) + Len(p) + c = a
      BY <1>0, <1>1, <1>2, <2>3
    <3> HIDE DEF c
    <3>2. w[Len(b) + Len(p) + c] = d[c] /\ d[c] = q[m + c]
      BY Zenon, <3>1, <1>3, <1>4
    <3> QED
      BY <3>1, <3>2
  <2> QED
    BY <1>0, <2>1, <2>2, <2>3
<1> QED
  BY Zenon, <1>4, <1>5, <1>6, SameSequence DEF w, b, p, d

\* Receiving an event moves it within the work.
LEMMA MovedInWork ==
  ASSUME NEW b \in Seq(Event), NEW p \in Seq(Event), NEW d \in Seq(Event), d # <<>>
  PROVE  /\ Append(p, Head(d)) \in Seq(Event) /\ Tail(d) \in Seq(Event)
         /\ (b \o Append(p, Head(d))) \o Tail(d) = (b \o p) \o d
<1> DEFINE q == Append(p, Head(d))
           t == Tail(d)
           v == (b \o q) \o t
           w == (b \o p) \o d
<1>1. Len(b) \in Nat /\ Len(p) \in Nat /\ Len(d) \in Nat \ {0}
  OBVIOUS
<1>2. /\ q \in Seq(Event) /\ Len(q) = Len(p) + 1
      /\ \A a \in 1..Len(p) : q[a] = p[a]
      /\ q[Len(p) + 1] = d[1]
  BY <1>1
<1>3. t \in Seq(Event) /\ Len(t) = Len(d) - 1 /\ \A a \in 1..(Len(d) - 1) : t[a] = d[a + 1]
  BY <1>1
<1> HIDE DEF q, t
<1>4. /\ v \in Seq(Event) /\ Len(v) = Len(b) + Len(q) + Len(t)
      /\ \A a \in 1..Len(b) : v[a] = b[a]
      /\ \A a \in 1..Len(q) : v[Len(b) + a] = q[a]
      /\ \A a \in 1..Len(t) : v[Len(b) + Len(q) + a] = t[a]
  <2>1. q \in Seq(Event) /\ t \in Seq(Event)
    BY <1>2, <1>3
  <2>2. InThree(v, b, q, t)
    BY Zenon, <2>1, WorkParts
  <2> QED
    BY Zenon, <2>2 DEF InThree
<1>5. /\ w \in Seq(Event) /\ Len(w) = Len(b) + Len(p) + Len(d)
      /\ \A a \in 1..Len(b) : w[a] = b[a]
      /\ \A a \in 1..Len(p) : w[Len(b) + a] = p[a]
      /\ \A a \in 1..Len(d) : w[Len(b) + Len(p) + a] = d[a]
  <2>1. InThree(w, b, p, d)
    BY Zenon, WorkParts
  <2> QED
    BY Zenon, <2>1 DEF InThree
<1> HIDE DEF v, w
<1>6. Len(v) = Len(w)
  BY <1>1, <1>2, <1>3, <1>4, <1>5
<1>7. ASSUME NEW a \in 1..Len(w) PROVE v[a] = w[a]
  <2>0. a \in Nat /\ a >= 1 /\ a <= Len(b) + Len(p) + Len(d)
    BY <1>1, <1>5
  <2>1. CASE a <= Len(b)
    BY <2>0, <2>1, <1>1, <1>4, <1>5
  <2>2. CASE Len(b) < a /\ a <= Len(b) + Len(p)
    <3> DEFINE c == a - Len(b)
    <3>1. c \in 1..Len(p) /\ c \in 1..Len(q) /\ Len(b) + c = a
      BY <2>0, <2>2, <1>1, <1>2
    <3> HIDE DEF c
    <3>2. v[Len(b) + c] = q[c] /\ q[c] = p[c] /\ w[Len(b) + c] = p[c]
      BY Zenon, <3>1, <1>2, <1>4, <1>5
    <3> QED
      BY <3>1, <3>2
  <2>3. CASE a = Len(b) + Len(p) + 1
    <3>1. Len(p) + 1 \in 1..Len(q) /\ Len(b) + (Len(p) + 1) = a /\ 1 \in 1..Len(d)
      BY <2>3, <1>1, <1>2
    <3> QED
      BY <3>1, <2>3, <1>2, <1>4, <1>5
  <2>4. CASE Len(b) + Len(p) + 1 < a
    <3> DEFINE c == a - Len(b) - Len(p) - 1
    <3>1. /\ c \in 1..(Len(d) - 1) /\ c + 1 \in 1..Len(d) /\ c \in 1..Len(t)
          /\ Len(b) + Len(q) + c = a /\ Len(b) + Len(p) + (c + 1) = a
      BY <2>0, <2>4, <1>1, <1>2, <1>3
    <3> HIDE DEF c
    <3>2. v[Len(b) + Len(q) + c] = t[c] /\ t[c] = d[c + 1] /\ w[Len(b) + Len(p) + (c + 1)] = d[c + 1]
      BY Zenon, <3>1, <1>3, <1>4, <1>5
    <3> QED
      BY <3>1, <3>2
  <2> QED
    BY <2>0, <1>1, <2>1, <2>2, <2>3, <2>4
<1> QED
  BY Zenon, <1>2, <1>3, <1>4, <1>5, <1>6, <1>7, SameSequence DEF v, w, q, t

\* An event recorded comes behind the work.
LEMMA AddedToWork ==
  ASSUME NEW b \in Seq(Event), NEW p \in Seq(Event), NEW d \in Seq(Event), NEW e \in Event
  PROVE  (b \o p) \o Append(d, e) = Append((b \o p) \o d, e)
<1>1. b \o p \in Seq(Event)
  OBVIOUS
<1> DEFINE u == b \o p
<1> HIDE DEF u
<1>2. u \o Append(d, e) = Append(u \o d, e)
  BY <1>1 DEF u
<1> QED
  BY <1>2 DEF u

\* Lines written leave the work from its front.
LEMMA RestOfWork ==
  ASSUME NEW b \in Seq(Event), NEW p \in Seq(Event), NEW d \in Seq(Event),
         NEW n \in 0..Len(b)
  PROVE  (SubSeq(b, n + 1, Len(b)) \o p) \o d
           = SubSeq((b \o p) \o d, n + 1, Len((b \o p) \o d))
<1> DEFINE r == SubSeq(b, n + 1, Len(b))
           v == (r \o p) \o d
           w == (b \o p) \o d
           z == SubSeq(w, n + 1, Len(w))
<1>1. Len(b) \in Nat /\ Len(p) \in Nat /\ Len(d) \in Nat /\ n \in Nat /\ n <= Len(b)
  OBVIOUS
<1>2. r \in Seq(Event) /\ Len(r) = Len(b) - n /\ \A a \in 1..(Len(b) - n) : r[a] = b[n + a]
  BY Zenon, RestOf
<1> HIDE DEF r
<1>3. /\ v \in Seq(Event) /\ Len(v) = Len(r) + Len(p) + Len(d)
      /\ \A a \in 1..Len(r) : v[a] = r[a]
      /\ \A a \in 1..Len(p) : v[Len(r) + a] = p[a]
      /\ \A a \in 1..Len(d) : v[Len(r) + Len(p) + a] = d[a]
  <2>1. InThree(v, r, p, d)
    BY Zenon, <1>2, WorkParts
  <2> QED
    BY Zenon, <2>1 DEF InThree
<1>4. /\ w \in Seq(Event) /\ Len(w) = Len(b) + Len(p) + Len(d)
      /\ \A a \in 1..Len(b) : w[a] = b[a]
      /\ \A a \in 1..Len(p) : w[Len(b) + a] = p[a]
      /\ \A a \in 1..Len(d) : w[Len(b) + Len(p) + a] = d[a]
  <2>1. InThree(w, b, p, d)
    BY Zenon, WorkParts
  <2> QED
    BY Zenon, <2>1 DEF InThree
<1> HIDE DEF v, w
<1>5. z \in Seq(Event) /\ Len(z) = Len(w) - n /\ \A a \in 1..(Len(w) - n) : z[a] = w[n + a]
  <2>1. n \in 0..Len(w)
    BY <1>1, <1>4
  <2> QED
    BY Zenon, <1>4, <2>1, RestOf
<1> HIDE DEF z
<1>6. Len(v) = Len(z)
  BY <1>1, <1>2, <1>3, <1>4, <1>5
<1>7. ASSUME NEW a \in 1..Len(v) PROVE v[a] = z[a]
  <2>0. a \in Nat /\ a >= 1 /\ a <= Len(r) + Len(p) + Len(d) /\ a \in 1..(Len(w) - n)
    BY <1>1, <1>2, <1>3, <1>4
  <2>1. CASE a <= Len(r)
    <3>1. a \in 1..Len(r) /\ a \in 1..(Len(b) - n) /\ n + a \in 1..Len(b)
      BY <2>0, <2>1, <1>1, <1>2
    <3> QED
      BY <3>1, <2>0, <1>2, <1>3, <1>4, <1>5
  <2>2. CASE Len(r) < a /\ a <= Len(r) + Len(p)
    <3> DEFINE c == a - Len(r)
    <3>1. c \in 1..Len(p) /\ Len(r) + c = a /\ Len(b) + c = n + a
      BY <2>0, <2>2, <1>1, <1>2
    <3> HIDE DEF c
    <3>2. v[Len(r) + c] = p[c] /\ w[Len(b) + c] = p[c]
      BY Zenon, <3>1, <1>3, <1>4
    <3> QED
      BY Zenon, <2>0, <3>1, <3>2, <1>5
  <2>3. CASE Len(r) + Len(p) < a
    <3> DEFINE c == a - Len(r) - Len(p)
    <3>1. c \in 1..Len(d) /\ Len(r) + Len(p) + c = a /\ Len(b) + Len(p) + c = n + a
      BY <2>0, <2>3, <1>1, <1>2
    <3> HIDE DEF c
    <3>2. v[Len(r) + Len(p) + c] = d[c] /\ w[Len(b) + Len(p) + c] = d[c]
      BY Zenon, <3>1, <1>3, <1>4
    <3> QED
      BY Zenon, <2>0, <3>1, <3>2, <1>5
  <2> QED
    BY <2>0, <1>1, <1>2, <2>1, <2>2, <2>3
<1> QED
  BY Zenon, <1>3, <1>5, <1>6, <1>7, SameSequence DEF z, v, w, r

Counts == internal \in Seq(Nat) /\ drops \in Nat /\ request \in Nat /\ attempted \in Nat

\* Files a process can go on from, or be started on, when n is the next number.
Sound(fs, n) ==
  /\ fs \in Seq(Segments) /\ fs # <<>> /\ Chained(fs)
  /\ \A i \in DOMAIN fs : Below(fs[i].events, n)

\* The complete lines of the active file are at the head of a file.
LinesStay == files # <<>> => \E i \in DOMAIN files' : IsPrefix(Last(files).events, files'[i].events)

LEMMA PrefixOfConcat ==
  ASSUME NEW s \in Seq(Event), NEW t \in Seq(Event)
  PROVE  IsPrefix(s, s \o t) /\ IsPrefix(s, s)
<1> DEFINE u == s \o t
<1>1. Len(s) \in Nat /\ u \in Seq(Event) /\ Len(u) = Len(s) + Len(t) /\ \A a \in 1..Len(s) : u[a] = s[a]
  BY SortedConcat
<1>2. Len(s) <= Len(u) /\ Len(t) \in Nat
  BY <1>1
<1> HIDE DEF u
<1>3. /\ SubSeq(s, 1, Len(s)) \in Seq(Event) /\ Len(SubSeq(s, 1, Len(s))) = Len(s)
      /\ \A a \in 1..Len(s) : SubSeq(s, 1, Len(s))[a] = s[a]
  BY <1>1
<1>4. /\ SubSeq(u, 1, Len(s)) \in Seq(Event) /\ Len(SubSeq(u, 1, Len(s))) = Len(s)
      /\ \A a \in 1..Len(s) : SubSeq(u, 1, Len(s))[a] = u[a]
  BY <1>1, <1>2
<1>5. SubSeq(s, 1, Len(s)) = SubSeq(u, 1, Len(s))
  BY <1>1, <1>3, <1>4, SameSequence
<1> QED
  BY <1>1, <1>2, <1>5 DEF IsPrefix, u

LEMMA LastOfFiles ==
  ASSUME NEW fs \in Seq(Segments), fs # <<>>
  PROVE  /\ Len(fs) \in DOMAIN fs /\ Len(fs) \in Nat \ {0}
         /\ Last(fs) = fs[Len(fs)] /\ Last(fs) \in Segments /\ Last(fs).events \in Seq(Event)
<1>1. Len(fs) \in DOMAIN fs /\ Len(fs) \in Nat \ {0}
  OBVIOUS
<1>2. fs[Len(fs)] \in Segments
  BY <1>1
<1> QED
  BY <1>1, <1>2 DEF Last, Segments

\* A file list whose last file begins with the lines of the active one keeps them.
LEMMA LinesOfLast ==
  ASSUME files \in Seq(Segments), files' \in Seq(Segments), files' # <<>>,
         NEW t \in Seq(Event),
         files # <<>> => \/ Last(files').events = Last(files).events
                         \/ Last(files').events = Last(files).events \o t
  PROVE  LinesStay
<1> SUFFICES ASSUME files # <<>>
             PROVE  \E i \in DOMAIN files' : IsPrefix(Last(files).events, files'[i].events)
  BY DEF LinesStay
<1>1. Last(files).events \in Seq(Event)
  BY LastOfFiles
<1>2. Len(files') \in DOMAIN files' /\ Last(files') = files'[Len(files')]
  BY LastOfFiles
<1>3. IsPrefix(Last(files).events, Last(files').events)
  BY Zenon, <1>1, PrefixOfConcat
<1> QED
  BY <1>2, <1>3

LEMMA LinesOfSame ==
  ASSUME files \in Seq(Segments), UNCHANGED files
  PROVE  LinesStay
<1>1. CASE files = <<>>
  BY <1>1 DEF LinesStay
<1>2. CASE files # <<>>
  <2>1. << >> \in Seq(Event)
    OBVIOUS
  <2> QED
    BY Zenon, <1>2, <2>1, LinesOfLast
<1> QED
  BY <1>1, <1>2

\* What follows from the invariant while the writer runs.
LEMMA AtWork ==
  ASSUME IInv, WriterAlive
  PROVE  /\ phase = "up" /\ Sound(files, next) /\ ~Last(files).torn
         /\ (wpc = "append" <=> batch # <<>>)
         /\ Work \in Seq(Event) /\ InOrder(Work, next, last, files)
         /\ next = 0 \/ last < next
<1>1. phase = "up"
  BY DEF IInv, Types, WriterAlive
<1>2. Sound(files, next)
  BY <1>1 DEF IInv, Types, OrderInv, Sound
<1>3. Work \in Seq(Event)
  BY WorkParts DEF IInv, Types, Work
<1> QED
  BY <1>1, <1>2, <1>3 DEF IInv, OrderInv
-----------------------------------------------------------------------------
\* Steps that leave the files, the numbers and the work alone.
LEMMA IdleKeeps ==
  ASSUME IInv, Counts', UNCHANGED <<phase, next, durable, pending, batch, last, files>>,
         failure' # "order",
         \/ wpc' = wpc
         \/ wpc \notin {"append", "ended", "failed"} /\ wpc' \in Places \ {"append"}
  PROVE  IInv'
<1>1. Types'
  BY DEF IInv, Types, Counts, Places
<1>2. Chained(files)'
  BY DEF IInv, Chained
<1>3. phase' = "down" => wpc' = "ended"
  BY DEF IInv, Types
<1>4. OrderInv'
  <2> SUFFICES ASSUME phase = "up" PROVE OrderInv'
    BY DEF OrderInv
  <2>1. files # <<>> /\ (next = 0 \/ last < next) /\ \A i \in DOMAIN files : Below(files[i].events, next)
    BY DEF IInv, OrderInv
  <2>2. ASSUME WriterAlive' PROVE WriterAlive /\ (wpc' = "append" <=> wpc = "append")
    BY <2>2 DEF WriterAlive
  <2>3. Work' = Work
    BY DEF Work
  <2>4. ASSUME WriterAlive
        PROVE  ~Last(files).torn /\ (wpc = "append" <=> batch # <<>>) /\ InOrder(Work, next, last, files)
    BY <2>4, AtWork
  <2>5. ASSUME WriterAlive'
        PROVE  ~Last(files').torn /\ (wpc' = "append" <=> batch' # <<>>) /\ InOrder(Work', next', last', files')
    BY <2>2, <2>3, <2>4, <2>5
  <2> QED
    BY <2>1, <2>5 DEF OrderInv
<1> QED
  BY <1>1, <1>2, <1>3, <1>4 DEF IInv

\* Steps that move events within the work.
LEMMA MoveKeeps ==
  ASSUME IInv, WriterAlive, Counts', UNCHANGED <<phase, next, last, files, failure>>,
         durable' \in Seq(Event), pending' \in Seq(Event), batch' \in Seq(Event),
         Work' = Work, wpc' \in Places \ {"ended", "failed"}, wpc' = "append" <=> batch' # <<>>
  PROVE  IInv'
<1>1. Types'
  BY DEF IInv, Types, Counts, Places
<1>2. Chained(files)'
  BY Zenon DEF IInv, Chained
<1>3. phase' = "up" /\ phase = "up"
  BY AtWork
<1>4. OrderInv'
  <2>1. files # <<>> /\ (next = 0 \/ last < next) /\ \A i \in DOMAIN files : Below(files[i].events, next)
    BY <1>3 DEF IInv, OrderInv
  <2>2. ~Last(files).torn /\ InOrder(Work, next, last, files)
    BY AtWork
  <2>3. ~Last(files').torn /\ InOrder(Work', next', last', files')
    BY <2>2
  <2> QED
    BY <2>1, <2>3 DEF OrderInv
<1> QED
  BY <1>1, <1>2, <1>3, <1>4 DEF IInv

\* Numbering an event, and queueing it unless it is dropped or not to be kept.
LEMMA RecordKeeps ==
  ASSUME IInv, phase = "up", Counts', UNCHANGED <<phase, pending, batch, last, files, wpc,
         failure>>,
         next' = (IF next \in {0, MaxSeq} THEN 0 ELSE next + 1),
         \/ durable' = durable
         \/ next # 0 /\ WriterAlive /\ \E e \in Event : e.seq = next /\ durable' = Append(durable, e)
  PROVE  IInv'
<1>1. next \in 0..MaxSeq /\ MaxSeq \in Nat \ {0}
  BY DiagnosticsAssumption DEF IInv, Types
<1>2. next' \in 0..MaxSeq /\ (next' = 0 \/ (next # 0 /\ next' = next + 1))
  BY <1>1
<1>3. durable' \in Seq(Event)
  BY Zenon, SortedAppend DEF IInv, Types
<1>4. Types'
  BY <1>2, <1>3 DEF IInv, Types, Counts
<1>5. Chained(files)'
  BY Zenon DEF IInv, Chained
<1>6. last \in 0..MaxSeq
  BY DEF IInv, Types
<1>7. files # <<>> /\ (next = 0 \/ last < next) /\ \A i \in DOMAIN files : Below(files[i].events, next)
  BY DEF IInv, OrderInv
<1>8. next' = 0 \/ last' < next'
  BY <1>1, <1>2, <1>6, <1>7
<1>9. ASSUME NEW s \in Seq(Event), Below(s, next) PROVE Below(s, next')
  <2>1. \A a \in DOMAIN s : s[a].seq \in Nat
    BY Zenon, NumberOf
  <2> QED
    BY <2>1, <1>9, <1>1, <1>2 DEF Below
<1>10. \A i \in DOMAIN files' : Below(files'[i].events, next')
  <2>1. \A i \in DOMAIN files : files[i].events \in Seq(Event)
    BY Zenon, EventsOf DEF IInv, Types
  <2> QED
    BY <2>1, <1>7, <1>9
<1>11. ASSUME WriterAlive' PROVE InOrder(Work', next', last', files')
  <2>1. WriterAlive /\ Work \in Seq(Event) /\ InOrder(Work, next, last, files)
    BY <1>11, AtWork DEF WriterAlive
  <2>2. CASE durable' = durable
    <3>1. Work' = Work
      BY <2>2 DEF Work
    <3> QED
      BY Zenon, <2>1, <3>1, <1>9 DEF InOrder
  <2>3. ASSUME next # 0, NEW e \in Event, e.seq = next, durable' = Append(durable, e)
        PROVE  InOrder(Work', next', last', files')
    <3>1. Work' = Append(Work, e)
      BY Zenon, <2>3, AddedToWork DEF IInv, Types, Work
    <3>2. \A a \in DOMAIN Work : Work[a].seq < e.seq
      BY Zenon, <2>1, <2>3 DEF InOrder, Below
    <3>3. last < e.seq
      BY <1>7, <2>3
    <3>4. next' = 0 \/ e.seq < next'
      BY <1>1, <1>2, <2>3
    <3>5. ASSUME NEW i \in DOMAIN files PROVE Before(files[i].events, Append(Work, e))
      <4>1. \A a \in DOMAIN files[i].events : files[i].events[a].seq < e.seq
        BY <1>7, <2>3 DEF Below
      <4> QED
        BY Zenon, <4>1, <2>1, SortedAppend DEF InOrder
    <3>6. Sorted(Append(Work, e)) /\ Above(last, Append(Work, e))
      BY Zenon, <2>1, <3>2, <3>3, SortedAppend DEF InOrder
    <3>7. Below(Append(Work, e), next')
      <4>1. Below(Work, next')
        BY <2>1, <1>9 DEF InOrder
      <4> QED
        BY Zenon, <4>1, <2>1, <3>4, SortedAppend
    <3> QED
      BY <3>1, <3>5, <3>6, <3>7 DEF InOrder
  <2> QED
    BY <2>2, <2>3
<1>12. OrderInv'
  <2>1. ASSUME WriterAlive' PROVE ~Last(files').torn /\ (wpc' = "append" <=> batch' # <<>>)
    <3>1. WriterAlive
      BY <2>1 DEF WriterAlive
    <3> QED
      BY <3>1, AtWork
  <2> QED
    BY <1>7, <1>8, <1>10, <1>11, <2>1 DEF OrderInv
<1> QED
  BY <1>4, <1>5, <1>12 DEF IInv

\* The first n lines of a batch, whole or torn, leave sound files.
LEMMA AppendedIsSound ==
  ASSUME IInv, wpc = "append", NEW n \in 0..Len(batch), NEW torn \in BOOLEAN
  PROVE  LET w == Appended(files, batch, n, torn)
         IN /\ Sound(w, next) /\ Len(w) = Len(files)
            /\ Last(w).events = Last(files).events \o SubSeq(batch, 1, n)
            /\ Last(w).torn <=> (Last(files).torn \/ torn)
            /\ \A i \in DOMAIN files : i < Len(files) => w[i] = files[i]
            /\ SubSeq(batch, 1, n) \in Seq(Event)
            /\ Before(SubSeq(batch, 1, n), SubSeq(Work, n + 1, Len(Work)))
            /\ Before(Last(files).events, SubSeq(Work, n + 1, Len(Work)))
<1> DEFINE w == Appended(files, batch, n, torn)
           part == SubSeq(batch, 1, n)
           rest == SubSeq(Work, n + 1, Len(Work))
<1>0. WriterAlive
  BY DEF WriterAlive
<1>1. /\ Sound(files, next) /\ batch # <<>> /\ Work \in Seq(Event) /\ InOrder(Work, next, last, files)
      /\ batch \in Seq(Event) /\ pending \in Seq(Event) /\ durable \in Seq(Event)
  BY Zenon, <1>0, AtWork DEF IInv, Types
<1>2. files \in Seq(Segments) /\ files # <<>> /\ Chained(files)
  BY <1>1 DEF Sound
<1>3. Len(Work) \in Nat /\ Len(batch) \in Nat /\ Len(batch) <= Len(Work)
      /\ \A a \in 1..Len(batch) : Work[a] = batch[a]
  <2>1. /\ Len(Work) = Len(batch) + Len(pending) + Len(durable)
        /\ \A a \in 1..Len(batch) : Work[a] = batch[a]
    BY Zenon, <1>1, WorkParts DEF Work, InThree
  <2>2. Len(batch) \in Nat /\ Len(pending) \in Nat /\ Len(durable) \in Nat
    BY <1>1
  <2> HIDE DEF Work
  <2> QED
    BY <2>1, <2>2
<1>4. /\ batch = SubSeq(Work, 1, Len(batch)) /\ Sorted(batch) /\ Below(batch, next)
      /\ \A i \in DOMAIN files : Before(files[i].events, batch)
  <2>1. /\ SubSeq(Work, 1, Len(batch)) \in Seq(Event) /\ Len(SubSeq(Work, 1, Len(batch))) = Len(batch)
        /\ \A a \in 1..Len(batch) : SubSeq(Work, 1, Len(batch))[a] = Work[a]
    BY <1>1, <1>3
  <2>2. batch = SubSeq(Work, 1, Len(batch))
    BY Zenon, <1>1, <1>3, <2>1, SameSequence
  <2>3. 1 \in 1..(Len(Work) + 1) /\ Len(batch) \in 0..Len(Work) /\ 1 <= Len(batch) + 1
    BY <1>3
  <2> QED
    BY Zenon, <1>1, <2>2, <2>3, SortedPart DEF InOrder
<1>5. /\ w \in Seq(Segments) /\ w # <<>> /\ Len(w) = Len(files) /\ Chained(w)
      /\ Last(w).events = Last(files).events \o part
      /\ Last(w).torn <=> (Last(files).torn \/ torn)
      /\ \A i \in DOMAIN files : i < Len(files) => w[i] = files[i]
  BY Zenon, <1>1, <1>2, <1>4, AppendedIsChained
<1>6. n \in Nat /\ n <= Len(batch) /\ 1 \in 1..(Len(batch) + 1) /\ n \in 0..Len(batch) /\ 1 <= n + 1
  BY <1>3
<1>7. part \in Seq(Event) /\ Below(part, next) /\ Len(part) = n /\ \A a \in 1..n : part[a] = batch[a]
  <2>1. part \in Seq(Event) /\ Len(part) = n /\ \A a \in 1..n : part[a] = batch[a]
    BY Zenon, <1>1, <1>6, FrontOf
  <2>2. Below(part, next)
    BY Zenon, <1>1, <1>4, <1>6, SortedPart
  <2> QED
    BY <2>1, <2>2
<1>8. /\ n + 1 \in 1..(Len(Work) + 1) /\ Len(Work) \in 0..Len(Work) /\ n + 1 <= Len(Work) + 1
  BY <1>3, <1>6
<1>9. /\ rest \in Seq(Event) /\ Len(rest) = Len(Work) - n
      /\ \A a \in 1..(Len(Work) - n) : rest[a] = Work[n + a] /\ n + a \in DOMAIN Work
  <2>1. n \in 0..Len(Work)
    BY <1>3, <1>6
  <2> QED
    BY Zenon, <1>1, <2>1, RestOf
<1> HIDE DEF part, rest
<1>10. Before(part, rest)
  <2> SUFFICES ASSUME NEW a \in DOMAIN part, NEW b \in DOMAIN rest PROVE part[a].seq < rest[b].seq
    BY Zenon DEF Before
  <2>1. a \in 1..n /\ part[a] = Work[a] /\ a \in DOMAIN Work
    BY <1>1, <1>3, <1>6, <1>7
  <2>2. b \in 1..(Len(Work) - n)
    BY <1>9
  <2>3. rest[b] = Work[n + b] /\ n + b \in DOMAIN Work
    BY Zenon, <1>9, <2>2
  <2>4. a < n + b
    BY <1>3, <1>6, <2>1, <2>2
  <2> QED
    BY Zenon, <1>1, <2>1, <2>3, <2>4 DEF InOrder, Sorted
<1>11. Len(files) \in DOMAIN files /\ Last(files) = files[Len(files)] /\ Last(files).events \in Seq(Event)
  BY <1>2, LastOfFiles
<1>12. Before(Last(files).events, rest)
  BY Zenon, <1>1, <1>8, <1>11, SortedPart DEF InOrder, rest
<1>13. ASSUME NEW i \in DOMAIN w PROVE Below(w[i].events, next)
  <2>1. CASE i < Len(files)
    <3>1. i \in DOMAIN files /\ w[i] = files[i]
      BY <1>2, <1>5, <2>1
    <3> QED
      BY <3>1, <1>1 DEF Sound
  <2>2. CASE ~(i < Len(files))
    <3>1. w[i] = Last(w)
      BY <1>5, <2>2, <1>11, LastOfFiles
    <3>2. w[i].events = Last(files).events \o part
      BY <3>1, <1>5
    <3>3. Below(Last(files).events, next)
      BY Zenon, <1>1, <1>11 DEF Sound
    <3>4. Below(Last(files).events \o part, next)
      BY Zenon, <3>3, <1>7, <1>11, SortedConcat
    <3> HIDE DEF w
    <3> QED
      BY Zenon, <3>2, <3>4
  <2> QED
    BY <2>1, <2>2
<1>14. Sound(w, next)
  BY Zenon, <1>5, <1>13 DEF Sound
<1> QED
  BY Zenon, <1>5, <1>7, <1>10, <1>12, <1>14 DEF part, rest

\* An append of what the active file has room for.
LEMMA AppendKeeps ==
  ASSUME IInv, wpc = "append", NEW n \in 1..Len(batch), Counts',
         files' = Appended(files, batch, n, FALSE), batch' = SubSeq(batch, n + 1, Len(batch)),
         UNCHANGED <<phase, next, durable, pending, failure>>,
         batch' # <<>> => wpc' = wpc /\ last' = last,
         batch' = <<>> => /\ last' = Last(batch).seq
                          /\ wpc' \in Places \ {"append", "ended", "failed"}
  PROVE  IInv' /\ LinesStay
<1> DEFINE w == Appended(files, batch, n, FALSE)
           part == SubSeq(batch, 1, n)
           rest == SubSeq(Work, n + 1, Len(Work))
<1>0. WriterAlive
  BY DEF WriterAlive
<1>1. /\ phase = "up" /\ Sound(files, next) /\ ~Last(files).torn /\ batch # <<>>
      /\ Work \in Seq(Event) /\ InOrder(Work, next, last, files)
      /\ batch \in Seq(Event) /\ pending \in Seq(Event) /\ durable \in Seq(Event)
      /\ next = 0 \/ last < next
  BY Zenon, <1>0, AtWork DEF IInv, Types
<1>2. files \in Seq(Segments) /\ files # <<>>
  BY <1>1 DEF Sound
<1>3. Len(batch) \in Nat /\ n \in Nat /\ 1 <= n /\ n <= Len(batch) /\ n \in 0..Len(batch) /\ FALSE \in BOOLEAN
  BY <1>1
<1>4. /\ Sound(w, next) /\ Len(w) = Len(files)
      /\ Last(w).events = Last(files).events \o part
      /\ Last(w).torn <=> (Last(files).torn \/ FALSE)
      /\ \A i \in DOMAIN files : i < Len(files) => w[i] = files[i]
      /\ part \in Seq(Event) /\ Before(part, rest) /\ Before(Last(files).events, rest)
  BY Zenon, <1>3, AppendedIsSound
<1>5. Work' = rest
  <2>0. batch \in Seq(Event) /\ pending \in Seq(Event) /\ durable \in Seq(Event) /\ n \in 0..Len(batch)
    BY <1>1, <1>3
  <2>1. (SubSeq(batch, n + 1, Len(batch)) \o pending) \o durable
          = SubSeq((batch \o pending) \o durable, n + 1, Len((batch \o pending) \o durable))
    BY <2>0, RestOfWork, ZenonT(30)
  <2>2. Work' = (SubSeq(batch, n + 1, Len(batch)) \o pending) \o durable
    BY DEF Work
  <2> QED
    BY Zenon, <2>1, <2>2 DEF Work
<1>6. /\ Len(Work) = Len(batch) + Len(pending) + Len(durable) /\ Len(pending) \in Nat /\ Len(durable) \in Nat
      /\ \A a \in 1..Len(batch) : Work[a] = batch[a]
  <2>1. InThree(Work, batch, pending, durable)
    BY Zenon, <1>1, WorkParts DEF Work
  <2>2. Len(pending) \in Nat /\ Len(durable) \in Nat
    BY <1>1
  <2> QED
    BY Zenon, <2>1, <2>2 DEF InThree
<1>7. /\ n + 1 \in 1..(Len(Work) + 1) /\ Len(Work) \in 0..Len(Work) /\ n + 1 <= Len(Work) + 1
      /\ Len(Work) \in Nat
  BY <1>3, <1>6
<1>8. /\ rest \in Seq(Event) /\ Sorted(rest) /\ Above(last, rest) /\ Below(rest, next)
      /\ \A i \in DOMAIN files : Before(files[i].events, rest)
  BY Zenon, <1>1, <1>7, SortedPart, PartOf DEF InOrder
<1>9. batch' \in Seq(Event) /\ Len(batch') = Len(batch) - n
  BY <1>1, <1>3, PartOf
<1>10. ASSUME batch' = <<>>
       PROVE  Above(last', rest) /\ (next = 0 \/ last' < next) /\ last' \in 1..MaxSeq
  <2>1. n = Len(batch)
    <3>1. Len(<< >>) = 0
      OBVIOUS
    <3>2. Len(batch') = Len(<< >>)
      BY <1>10, Zenon
    <3> QED
      BY <3>1, <3>2, <1>3, <1>9
  <2>2. Last(batch) = Work[n] /\ n \in DOMAIN Work /\ Last(batch) \in Event
    BY <1>1, <1>3, <1>6, <1>7, <2>1 DEF Last
  <2>3. last' = Work[n].seq /\ last' \in 1..MaxSeq
    BY Zenon, <1>10, <2>2 DEF Event
  <2>4. Above(last', rest)
    <3> SUFFICES ASSUME NEW a \in DOMAIN rest PROVE Work[n].seq < rest[a].seq
      BY Zenon, <2>3 DEF Above
    <3>1. a \in 1..(Len(Work) - n)
      BY <1>1, <1>3, <1>7, PartOf
    <3>2. n + 1 + a - 1 = n + a /\ Len(Work) - (n + 1) + 1 = Len(Work) - n /\ n < n + a
      BY <1>3, <1>7, <3>1
    <3>3. rest[a] = Work[n + 1 + a - 1] /\ n + 1 + a - 1 \in DOMAIN Work
      BY Zenon, <1>1, <1>7, <3>1, <3>2, PartOf
    <3> QED
      BY Zenon, <1>1, <2>2, <3>2, <3>3 DEF InOrder, Sorted
  <2>5. next = 0 \/ last' < next
    BY Zenon, <1>1, <2>2, <2>3 DEF InOrder, Below
  <2> QED
    BY Zenon, <2>3, <2>4, <2>5
<1>12. /\ Above(last', rest) /\ (next = 0 \/ last' < next) /\ last' \in 0..MaxSeq
       /\ wpc' \in Places \ {"ended", "failed"} /\ (wpc' = "append" <=> batch' # <<>>)
  <2>1. CASE batch' = <<>>
    <3>1. Above(last', rest) /\ (next = 0 \/ last' < next) /\ last' \in 1..MaxSeq
      BY <2>1, <1>10
    <3>2. last' \in 0..MaxSeq
      BY <3>1, DiagnosticsAssumption
    <3> QED
      BY Zenon, <2>1, <3>1, <3>2
  <2>2. CASE batch' # <<>>
    BY Zenon, <1>1, <1>8, <2>2 DEF IInv, Types, Places
  <2> QED
    BY Zenon, <2>1, <2>2
<1> HIDE DEF rest, part, w
<1>13. files' = w
  BY DEF w
<1>14. w \in Seq(Segments) /\ w # <<>> /\ Chained(w) /\ \A i \in DOMAIN w : Below(w[i].events, next)
  BY Zenon, <1>4 DEF Sound
<1>15. ~Last(w).torn /\ Last(w).events = Last(files).events \o part
  BY Zenon, <1>1, <1>4
<1>16. ASSUME NEW i \in DOMAIN w PROVE Before(w[i].events, rest)
  <2>1. CASE i < Len(files)
    <3>1. i \in DOMAIN files /\ w[i] = files[i]
      BY <1>2, <1>4, <1>14, <2>1
    <3> QED
      BY Zenon, <3>1, <1>8
  <2>2. CASE ~(i < Len(files))
    <3>1. w[i] = Last(w)
      BY <1>4, <1>14, <2>2, <1>2, LastOfFiles
    <3>2. Last(files).events \in Seq(Event)
      BY Zenon, <1>2, LastOfFiles
    <3>3. Before(Last(files).events \o part, rest)
      BY Zenon, <3>2, <1>4, SortedConcat
    <3> QED
      BY <3>1, <3>3, <1>15
  <2> QED
    BY <2>1, <2>2
<1>17. InOrder(Work', next', last', files')
  BY Zenon, <1>5, <1>8, <1>12, <1>13, <1>16 DEF InOrder
<1>18. Types'
  BY Zenon, <1>9, <1>12, <1>13, <1>14 DEF IInv, Types, Counts
<1>19. OrderInv'
  BY Zenon, <1>12, <1>13, <1>14, <1>15, <1>17 DEF OrderInv
<1>20. Chained(files)'
  BY Zenon, <1>13, <1>14 DEF Chained
<1>21. phase' = "up" /\ failure' # "order"
  BY <1>1 DEF IInv
<1>22. LinesStay
  BY Zenon, <1>2, <1>4, <1>13, <1>14, <1>15, LinesOfLast
<1> QED
  BY Zenon, <1>18, <1>19, <1>20, <1>21, <1>22 DEF IInv

\* A rotation: the active file is full, so it has a line.
LEMMA RotateKeeps ==
  ASSUME IInv, Rotate
  PROVE  IInv' /\ LinesStay
<1> DEFINE w == Append(files, EmptySegment)
<1>0. WriterAlive /\ wpc = "append" /\ files' = w /\ Room(files, batch) = 0
  BY DEF Rotate, WriterAlive
<1>1. /\ phase = "up" /\ Sound(files, next) /\ ~Last(files).torn /\ batch # <<>>
      /\ Work \in Seq(Event) /\ InOrder(Work, next, last, files)
      /\ batch \in Seq(Event) /\ (next = 0 \/ last < next)
  BY Zenon, <1>0, AtWork DEF IInv, Types
<1>2. files \in Seq(Segments) /\ files # <<>> /\ Chained(files)
  BY <1>1 DEF Sound
<1>3. Last(files).events # <<>>
  <2>1. Len(Last(files).events) \in Nat
    BY <1>2, LastOfFiles
  <2>2. Len(batch) \in Nat \ {0}
    BY <1>1
  <2>3. MaxSegment \in Nat \ {0}
    BY DiagnosticsAssumption
  <2>4. Len(Last(files).events) >= MaxSegment
    BY <1>0, <2>1, <2>2, <2>3 DEF Room
  <2> QED
    BY <2>1, <2>3, <2>4
<1>4. /\ w \in Seq(Segments) /\ w # <<>> /\ Chained(w) /\ ~Last(w).torn
      /\ Len(w) = Len(files) + 1 /\ Last(w).events = <<>>
      /\ \A i \in DOMAIN files : i \in DOMAIN w /\ w[i] = files[i]
  BY Zenon, <1>1, <1>2, <1>3, RotatedIsChained
<1> HIDE DEF w
<1>5. ASSUME NEW i \in DOMAIN w
      PROVE  Below(w[i].events, next) /\ Before(w[i].events, Work)
  <2>1. CASE i \in DOMAIN files
    BY Zenon, <2>1, <1>1, <1>4 DEF Sound, InOrder
  <2>2. CASE i \notin DOMAIN files
    <3>1. w[i] = Last(w)
      BY <2>2, <1>2, <1>4, LastOfFiles
    <3> QED
      BY <3>1, <1>4 DEF Below, Before
  <2> QED
    BY Zenon, <2>1, <2>2
<1>6. /\ phase' = phase /\ next' = next /\ last' = last /\ Work' = Work /\ wpc' = wpc
      /\ batch' = batch /\ pending' = pending /\ durable' = durable /\ failure' = failure
      /\ internal' = internal /\ drops' = drops /\ request' = request /\ attempted' = attempted
  BY DEF Rotate, WriterKeeps, dropVars, Work
<1>7. Types'
  BY Zenon, <1>0, <1>4, <1>6 DEF IInv, Types
<1>8. InOrder(Work', next', last', files')
  BY Zenon, <1>0, <1>1, <1>5, <1>6 DEF InOrder
<1>9. OrderInv'
  BY Zenon, <1>0, <1>1, <1>4, <1>5, <1>6, <1>8 DEF OrderInv
<1>10. Chained(files)'
  BY Zenon, <1>0, <1>4 DEF Chained
<1>11. phase' = "up" /\ failure' # "order"
  BY Zenon, <1>1, <1>6 DEF IInv
<1>12. LinesStay
  <2>1. Len(files) \in DOMAIN files /\ Last(files) = files[Len(files)] /\ Last(files).events \in Seq(Event)
    BY <1>2, LastOfFiles
  <2>2. Len(files) \in DOMAIN w /\ w[Len(files)].events = Last(files).events
    BY Zenon, <2>1, <1>4
  <2>3. IsPrefix(Last(files).events, Last(files).events)
    BY <2>1, PrefixOfConcat
  <2> QED
    BY Zenon, <1>0, <2>2, <2>3 DEF LinesStay
<1> QED
  BY <1>7, <1>9, <1>10, <1>11, <1>12 DEF IInv

\* Closed files that are removed leave sound files, and the active one.
LEMMA RemovalIsSound ==
  ASSUME NEW fs, NEW n \in Nat, Sound(fs, n), NEW removed \in SUBSET Closed(fs)
  PROVE  LET w == Without(fs, removed)
         IN Sound(w, n) /\ Last(w) = Last(fs)
<1> DEFINE w == Without(fs, removed)
<1>1. fs \in Seq(Segments) /\ fs # <<>> /\ Chained(fs) /\ \A i \in DOMAIN fs : Below(fs[i].events, n)
  BY DEF Sound
<1>2. /\ w \in Seq(Segments) /\ w # <<>> /\ Chained(w) /\ Last(w) = Last(fs)
      /\ \A i \in DOMAIN w : w[i].events = <<>> \/ \E j \in DOMAIN fs : w[i].events = fs[j].events
  BY Zenon, <1>1, WithoutIsChained
<1> HIDE DEF w
<1>3. ASSUME NEW i \in DOMAIN w PROVE Below(w[i].events, n)
  <2>1. CASE w[i].events = <<>>
    BY <2>1 DEF Below
  <2>2. CASE \E j \in DOMAIN fs : w[i].events = fs[j].events
    BY Zenon, <2>2, <1>1
  <2> QED
    BY Zenon, <2>1, <2>2, <1>2
<1>4. Sound(w, n)
  BY Zenon, <1>2, <1>3 DEF Sound
<1> QED
  BY Zenon, <1>2, <1>4 DEF w

\* The work comes after the files that a removal leaves.
LEMMA RemovalKeepsOrder ==
  ASSUME NEW fs \in Seq(Segments), fs # <<>>, Chained(fs),
         NEW removed \in SUBSET Closed(fs),
         NEW work, NEW n, NEW number, InOrder(work, n, number, fs)
  PROVE  InOrder(work, n, number, Without(fs, removed))
<1> DEFINE w == Without(fs, removed)
<1>1. \A i \in DOMAIN w : w[i].events = <<>> \/ \E j \in DOMAIN fs : w[i].events = fs[j].events
  BY Zenon, WithoutIsChained
<1> HIDE DEF w
<1>2. ASSUME NEW i \in DOMAIN w PROVE Before(w[i].events, work)
  <2>1. CASE w[i].events = <<>>
    BY <2>1 DEF Before
  <2>2. CASE \E j \in DOMAIN fs : w[i].events = fs[j].events
    BY Zenon, <2>2 DEF InOrder
  <2> QED
    BY Zenon, <2>1, <2>2, <1>1
<1> QED
  BY Zenon, <1>2 DEF InOrder, w

\* Retention removes closed files only.
LEMMA RetentionRemoves ==
  ASSUME NEW fs, NEW expired \in Expirable(fs)
  PROVE  \E removed \in SUBSET Closed(fs) : Retained(fs, expired) = Without(fs, removed)
<1> DEFINE kept == {i \in Closed(fs) \ expired :
                      Cardinality({j \in Closed(fs) \ expired : j > i}) < MaxClosed}
<1>1. Retained(fs, expired) = Without(fs, Closed(fs) \ kept)
  BY DEF Retained
<1>2. Closed(fs) \ kept \in SUBSET Closed(fs)
  OBVIOUS
<1> QED
  BY Zenon, <1>1, <1>2

\* The retention after a rotation.
LEMMA RetainKeeps ==
  ASSUME IInv, WriterAlive, wpc # "append", Counts', NEW removed \in SUBSET Closed(files),
         files' = Without(files, removed),
         UNCHANGED <<phase, next, durable, pending, batch, last, failure>>,
         wpc' \in Places \ {"append", "ended", "failed"}
  PROVE  IInv' /\ LinesStay
<1> DEFINE w == Without(files, removed)
<1>1. /\ phase = "up" /\ Sound(files, next) /\ ~Last(files).torn /\ batch = <<>>
      /\ InOrder(Work, next, last, files) /\ (next = 0 \/ last < next) /\ next \in Nat
  BY AtWork DEF IInv, Types
<1>2. files \in Seq(Segments) /\ files # <<>> /\ Chained(files)
  BY Zenon, <1>1 DEF Sound
<1>3. Sound(w, next) /\ Last(w) = Last(files)
  BY Zenon, <1>1, RemovalIsSound
<1>4. InOrder(Work, next, last, w)
  BY Zenon, <1>1, <1>2, RemovalKeepsOrder
<1> HIDE DEF w
<1>5. files' = w /\ Work' = Work
  BY DEF w, Work
<1>6. w \in Seq(Segments) /\ w # <<>> /\ Chained(w) /\ \A i \in DOMAIN w : Below(w[i].events, next)
  BY Zenon, <1>3 DEF Sound
<1>7. Types'
  BY Zenon, <1>5, <1>6 DEF IInv, Types, Counts
<1>8. InOrder(Work', next', last', files')
  BY Zenon, <1>4, <1>5
<1>9. OrderInv'
  BY Zenon, <1>1, <1>3, <1>5, <1>6, <1>8 DEF OrderInv
<1>10. Chained(files)'
  BY Zenon, <1>5, <1>6 DEF Chained
<1>11. phase' = "up" /\ failure' # "order"
  BY Zenon, <1>1 DEF IInv
<1>12. LinesStay
  <2>1. << >> \in Seq(Event)
    OBVIOUS
  <2> QED
    BY Zenon, <2>1, <1>2, <1>3, <1>5, <1>6, LinesOfLast
<1> QED
  BY Zenon, <1>7, <1>9, <1>10, <1>11, <1>12 DEF IInv

\* Whatever an interrupted append or removal leaves is sound and has the lines
\* of the active file.
LEMMA InterruptedIsSound ==
  ASSUME IInv, phase = "up", files' \in Interrupted
  PROVE  Sound(files', next) /\ LinesStay
<1>0. next \in Nat /\ files \in Seq(Segments) /\ batch \in Seq(Event) /\ files # <<>> /\ Sound(files, next)
  BY DEF IInv, Types, OrderInv, Sound
<1>1. CASE wpc = "append"
  <2>1. files' \in PartialAppends(files, batch)
    BY <1>1 DEF Interrupted
  <2>2. PICK n \in 0..Room(files, batch), torn \in BOOLEAN : files' = Appended(files, batch, n, torn)
    BY <2>1 DEF PartialAppends
  <2>3. n \in 0..Len(batch)
    <3>1. Len(batch) \in Nat /\ Len(Last(files).events) \in Nat /\ MaxSegment \in Nat
      BY <1>0, LastOfFiles, DiagnosticsAssumption
    <3> QED
      BY <3>1, <2>2 DEF Room
  <2>4. /\ Sound(files', next) /\ SubSeq(batch, 1, n) \in Seq(Event)
        /\ Last(files').events = Last(files).events \o SubSeq(batch, 1, n)
    BY Zenon, <1>1, <2>2, <2>3, AppendedIsSound
  <2>6. files' \in Seq(Segments) /\ files' # <<>>
    BY <2>4 DEF Sound
  <2> QED
    BY Zenon, <1>0, <2>4, <2>6, LinesOfLast
<1>2. CASE wpc = "retain"
  <2>1. files' \in PartialRemovals(files)
    BY <1>2 DEF Interrupted
  <2>2. PICK removed \in SUBSET Closed(files) : files' = Without(files, removed)
    BY <2>1 DEF PartialRemovals
  <2>3. Sound(files', next) /\ Last(files') = Last(files)
    BY <1>0, <2>2, RemovalIsSound
  <2>4. files' \in Seq(Segments) /\ files' # <<>> /\ << >> \in Seq(Event)
    BY <2>3 DEF Sound
  <2> QED
    BY Zenon, <1>0, <2>3, <2>4, LinesOfLast
<1>3. CASE wpc \notin {"append", "retain"}
  <2>1. files' = files
    BY <1>3 DEF Interrupted
  <2> QED
    BY <1>0, <2>1, LinesOfSame
<1> QED
  BY <1>1, <1>2, <1>3

\* An I/O error ends the writer thread.
LEMMA FailKeeps ==
  ASSUME IInv, phase = "up", Counts', Sound(files', next),
         UNCHANGED <<phase, next, durable, pending, batch, last>>,
         wpc' = "failed", failure' # "order"
  PROVE  IInv'
<1>1. files' \in Seq(Segments) /\ files' # <<>> /\ Chained(files')
      /\ \A i \in DOMAIN files' : Below(files'[i].events, next')
  BY Zenon DEF Sound
<1>2. Types'
  BY Zenon, <1>1 DEF IInv, Types, Counts, Places
<1>3. next' = 0 \/ last' < next'
  BY Zenon DEF IInv, OrderInv
<1>4. OrderInv'
  BY Zenon, <1>1, <1>3 DEF OrderInv, WriterAlive
<1>5. Chained(files)'
  BY Zenon, <1>1 DEF Chained
<1> QED
  BY <1>2, <1>4, <1>5 DEF IInv

\* A crash or an exit.
LEMMA DeathKeeps ==
  ASSUME IInv, phase' = "down", Cleared, Stopped, files' \in Seq(Segments), Chained(files')
  PROVE  IInv'
<1>1. << >> \in Seq(Event) /\ << >> \in Seq(Nat) /\ 0 \in 0..MaxSeq /\ 0 \in Nat
  BY DiagnosticsAssumption
<1>2. Types'
  BY Zenon, <1>1 DEF Types, Cleared, Stopped, Places
<1>3. OrderInv'
  BY DEF OrderInv
<1>4. Chained(files)'
  BY Zenon DEF Chained
<1>5. wpc' = "ended" /\ failure' # "order"
  BY Zenon DEF Cleared, Stopped
<1> QED
  BY <1>2, <1>3, <1>4, <1>5 DEF IInv

\* The start of a process on the files that are there: they are accepted, and
\* the numbers go on above what they hold.
LEMMA StartKeeps ==
  ASSUME IInv, Start
  PROVE  IInv' /\ LinesStay
<1> DEFINE r == Repair(files)
           n == LastSequence(files)
           m == NextAfter(n)
<1>1. phase = "down" /\ files \in Seq(Segments) /\ Chained(files) /\ MaxSeq \in Nat \ {0}
  BY Zenon, DiagnosticsAssumption DEF Start, IInv, Types
<1>2. WellFormed(files)
  BY <1>1, ChainedIsWellFormed
<1>3. /\ phase' = "up" /\ \E expired \in Expirable(r) : files' = Retained(r, expired)
      /\ next' = m /\ last' = n /\ wpc' = "idle" /\ Cleared
  BY Zenon, <1>2 DEF Start
<1>4. /\ r \in Seq(Segments) /\ r # <<>> /\ Chained(r) /\ ~Last(r).torn
      /\ files # <<>> => Len(r) = Len(files) /\ \A i \in DOMAIN files : r[i].events = files[i].events
      /\ files = <<>> => r = <<EmptySegment>>
  BY Zenon, <1>1, RepairedIsChained
<1>5. /\ n \in 0..MaxSeq
      /\ \A i \in DOMAIN files : \A a \in DOMAIN files[i].events : files[i].events[a].seq <= n
  BY Zenon, <1>1, LastSequenceIsLast
<1> HIDE DEF r, n
<1>6. m \in 0..MaxSeq /\ (m = 0 \/ m = n + 1) /\ m \in Nat
  BY <1>1, <1>5 DEF NextAfter
<1> HIDE DEF m
<1>7. ASSUME NEW i \in DOMAIN r PROVE Below(r[i].events, m)
  <2>1. CASE files = <<>>
    <3>1. r[i].events = <<>>
      BY <2>1, <1>4 DEF EmptySegment, Segment
    <3> QED
      BY <3>1 DEF Below
  <2>2. CASE files # <<>>
    <3>1. i \in DOMAIN files /\ r[i].events = files[i].events /\ files[i].events \in Seq(Event)
      <4>1. i \in DOMAIN files
        BY <2>2, <1>1, <1>4
      <4> QED
        BY Zenon, <4>1, <2>2, <1>1, <1>4, EventsOf
    <3>2. \A a \in DOMAIN r[i].events : r[i].events[a].seq <= n /\ r[i].events[a].seq \in Nat
      BY Zenon, <3>1, <1>5, NumberOf
    <3> QED
      BY <3>2, <1>5, <1>6 DEF Below
  <2> QED
    BY Zenon, <2>1, <2>2
<1>8. Sound(r, m)
  BY Zenon, <1>4, <1>7 DEF Sound
<1>9. PICK expired \in Expirable(r) : files' = Retained(r, expired)
  BY <1>3
<1>10. PICK removed \in SUBSET Closed(r) : files' = Without(r, removed)
  BY <1>9, RetentionRemoves
<1>11. Sound(files', m) /\ Last(files') = Last(r)
  BY Zenon, <1>6, <1>8, <1>10, RemovalIsSound
<1>12. files' \in Seq(Segments) /\ files' # <<>> /\ Chained(files') /\ \A i \in DOMAIN files' : Below(files'[i].events, m)
  BY Zenon, <1>11 DEF Sound
<1>13. << >> \in Seq(Event) /\ << >> \in Seq(Nat) /\ DOMAIN << >> = {}
  OBVIOUS
<1>14. Types'
  BY Zenon, <1>3, <1>5, <1>6, <1>12, <1>13 DEF Types, Cleared, Places
<1>15. Work' = << >>
  <2>1. (<< >> \o << >>) \o << >> = << >>
    OBVIOUS
  <2>2. batch' = << >> /\ pending' = << >> /\ durable' = << >>
    BY Zenon, <1>3 DEF Cleared
  <2> QED
    BY <2>1, <2>2 DEF Work
<1>16. InOrder(Work', next', last', files')
  BY Zenon, <1>13, <1>15 DEF InOrder, Sorted, Above, Below, Before
<1>17. OrderInv'
  <2>1. next' = 0 \/ last' < next'
    BY <1>3, <1>5, <1>6
  <2>2. wpc' # "append" /\ batch' = << >> /\ ~Last(files').torn
    BY Zenon, <1>3, <1>4, <1>11 DEF Cleared
  <2> QED
    BY Zenon, <1>3, <1>12, <1>16, <2>1, <2>2 DEF OrderInv
<1>18. Chained(files)'
  BY Zenon, <1>12 DEF Chained
<1>19. failure' # "order"
  BY Zenon, <1>3 DEF Cleared
<1>20. LinesStay
  <2>1. ASSUME files # <<>> PROVE Last(files').events = Last(files).events
    <3>1. Len(r) = Len(files) /\ Len(files) \in DOMAIN files /\ Last(files) = files[Len(files)] /\ Last(r) = r[Len(r)]
      BY Zenon, <2>1, <1>1, <1>4, LastOfFiles
    <3> QED
      BY Zenon, <3>1, <2>1, <1>4, <1>11
  <2> QED
    BY Zenon, <2>1, <1>1, <1>12, <1>13, LinesOfLast
<1> QED
  BY Zenon, <1>3, <1>14, <1>17, <1>18, <1>19, <1>20 DEF IInv

\* finalize_and_insert numbers the event and queues or drops it.
LEMMA FinalizeRecords ==
  ASSUME IInv, NEW persists \in BOOLEAN, NEW summary \in Nat, Finalize(persists, summary)
  PROVE  /\ next' = (IF next \in {0, MaxSeq} THEN 0 ELSE next + 1)
         /\ \/ durable' = durable
            \/ next # 0 /\ WriterAlive /\ \E e \in Event : e.seq = next /\ durable' = Append(durable, e)
         /\ drops' \in Nat
<1> DEFINE e == [seq |-> next, summary |-> summary]
<1>1. next' = (IF next \in {0, MaxSeq} THEN 0 ELSE next + 1)
  BY Zenon DEF Finalize
<1>2. drops \in Nat /\ next \in 0..MaxSeq /\ MaxSeq \in Nat
  BY Zenon, DiagnosticsAssumption DEF IInv, Types
<1>3. e.summary = summary /\ e.seq = next
  BY Zenon
<1>4. next # 0 => e \in Event
  BY <1>2 DEF Event
<1> HIDE DEF e
<1>5. CASE persists /\ next # 0
  <2>1. TryRecord(e)
    BY Zenon, <1>5 DEF Finalize, e
  <2>2. CASE WriterAlive /\ Len(durable) < DurableCap
    <3>1. durable' = Append(durable, e) /\ drops' = drops
      BY <2>1, <2>2 DEF TryRecord, dropVars
    <3> QED
      BY Zenon, <3>1, <2>2, <1>1, <1>2, <1>3, <1>4, <1>5
  <2>3. CASE ~(WriterAlive /\ Len(durable) < DurableCap)
    <3>1. durable' = durable /\ drops' = drops + e.summary + 1
      BY Zenon, <2>1, <2>3 DEF TryRecord
    <3> QED
      BY <3>1, <1>1, <1>2, <1>3
  <2> QED
    BY Zenon, <2>2, <2>3
<1>6. CASE ~(persists /\ next # 0)
  <2>1. durable' = durable /\ drops' = drops
    BY Zenon, <1>6 DEF Finalize, dropVars
  <2> QED
    BY Zenon, <2>1, <1>1, <1>2
<1> QED
  BY Zenon, <1>5, <1>6

coreVars == <<phase, next, durable, pending, batch, last, files, wpc, failure,
              internal, drops, request, attempted>>

LEMMA RestKeeps ==
  ASSUME IInv, UNCHANGED coreVars
  PROVE  IInv' /\ LinesStay
<1>1. Counts' /\ files \in Seq(Segments)
  BY Zenon DEF coreVars, Counts, IInv, Types
<1>2. UNCHANGED <<phase, next, durable, pending, batch, last, files>> /\ wpc' = wpc /\ failure' # "order"
  BY Zenon DEF coreVars, IInv
<1> QED
  BY Zenon, <1>1, <1>2, IdleKeeps, LinesOfSame

\* Steps of the producers, of the recorder without an event, and of the shutdown.
LEMMA OthersRest ==
  ASSUME \/ CheckFlags \/ ReservePermit \/ SendEvent
         \/ EndIngress \/ EndInternal \/ TakeQuery \/ EndQueries \/ Wake
         \/ Shutdown \/ CloseDeadline
  PROVE  UNCHANGED coreVars
<1>1. CASE CheckFlags
  BY Zenon, <1>1 DEF CheckFlags, channelVars, recorderVars, dropVars, writerVars, coreVars
<1>2. CASE ReservePermit
  BY Zenon, <1>2 DEF ReservePermit, channelVars, recorderVars, dropVars, writerVars,
     coreVars
<1>3. CASE SendEvent
  BY Zenon, <1>3 DEF SendEvent, recorderVars, dropVars, writerVars, coreVars
<1>4. CASE EndIngress
  BY Zenon, <1>4 DEF EndIngress, channelVars, dropVars, writerVars, coreVars
<1>5. CASE EndInternal
  BY Zenon, <1>5 DEF EndInternal, channelVars, dropVars, writerVars, coreVars
<1>6. CASE TakeQuery
  BY Zenon, <1>6 DEF TakeQuery, dropVars, writerVars, coreVars
<1>7. CASE EndQueries
  BY Zenon, <1>7 DEF EndQueries, channelVars, dropVars, writerVars, coreVars
<1>8. CASE Wake
  BY Zenon, <1>8 DEF Wake, channelVars, dropVars, writerVars, coreVars
<1>9. CASE CloseIngress
  BY Zenon, <1>9 DEF CloseIngress, ShutdownKeeps, recorderVars, dropVars, writerVars,
     coreVars
<1>10. CASE IngressClosed
  BY Zenon, <1>10 DEF IngressClosed, ShutdownKeeps, recorderVars, dropVars, writerVars,
     coreVars
<1>11. CASE SendFlush
  BY Zenon, <1>11 DEF SendFlush, ShutdownKeeps, recorderVars, dropVars, writerVars, coreVars
<1>12. CASE Flushed
  BY Zenon, <1>12 DEF Flushed, ShutdownKeeps, recorderVars, dropVars, writerVars, coreVars
<1>13. CASE RequestShutdown
  BY Zenon, <1>13 DEF RequestShutdown, ShutdownKeeps, recorderVars, dropVars, writerVars,
     coreVars
<1>14. CASE Joined
  BY Zenon, <1>14 DEF Joined, ShutdownKeeps, recorderVars, dropVars, writerVars, coreVars
<1>15. CASE CloseDeadline
  BY Zenon, <1>15 DEF CloseDeadline, ShutdownKeeps, recorderVars, dropVars, writerVars,
     coreVars
<1> QED
  BY <1>1, <1>2, <1>3, <1>4, <1>5, <1>6, <1>7, <1>8, <1>9, <1>10, <1>11, <1>12, <1>13,
     <1>14, <1>15 DEF Shutdown

\* Steps of the writer that touch neither its work nor the files.
LEMMA WriterRests ==
  ASSUME IInv, \/ TakeFlush \/ Poll \/ StopCollecting \/ ReceiveNone \/ RequestSummary
               \/ ProcessNothing \/ Forward \/ AdmitBarrier \/ Acknowledge \/ BarrierDeadline
  PROVE  IInv' /\ LinesStay
<1>0. /\ internal \in Seq(Nat) /\ drops \in Nat /\ request \in Nat /\ attempted \in Nat
      /\ files \in Seq(Segments) /\ failure # "order" /\ drops + request + 0 \in Nat
  BY DEF IInv, Types
<1> SUFFICES /\ UNCHANGED <<phase, next, durable, pending, batch, last, files>> /\ failure' # "order"
             /\ wpc \notin {"append", "ended", "failed"} /\ wpc' \in Places \ {"append"}
             /\ internal' \in Seq(Nat) /\ drops' \in Nat /\ request' \in Nat /\ attempted' \in Nat
  BY Zenon, <1>0, IdleKeeps, LinesOfSame DEF Counts
<1>1. CASE TakeFlush
  BY Zenon, <1>0, <1>1 DEF TakeFlush, channelVars, recorderVars, dropVars, Places
<1>2. CASE Poll
  BY <1>0, <1>2 DEF Poll, WriterKeeps, dropVars, Places
<1>3. CASE StopCollecting
  BY Zenon, <1>0, <1>3 DEF StopCollecting, WriterKeeps, dropVars, Places
<1>4. CASE ReceiveNone
  BY Zenon, <1>0, <1>4 DEF ReceiveNone, WriterKeeps, dropVars, Places
<1>5. CASE RequestSummary
  BY Zenon, <1>0, <1>5 DEF RequestSummary, WriterKeeps, Places
<1>6. CASE ProcessNothing
  BY <1>0, <1>6 DEF ProcessNothing, channelVars, recorderVars, dropVars, Fail, Places
<1>7. CASE Forward
  <2>1. /\ wpc = "forward" /\ attempted' = attempted
        /\ UNCHANGED <<phase, next, durable, pending, batch, last, files>>
    BY Zenon, <1>7 DEF Forward, WriterKeeps, dropVars, Fail
  <2>2. CASE ~requested /\ recv["internal"] = "open" /\ Len(internal) < InternalCap /\ remaining > 0
    <3>1. internal' = Append(internal, request) /\ wpc' = "admit" /\ UNCHANGED <<drops, request, failure>>
      BY Zenon, <1>7, <2>2 DEF Forward, dropVars
    <3> QED
      BY <1>0, <2>1, <3>1 DEF Places
  <2>3. CASE ~(~requested /\ recv["internal"] = "open" /\ Len(internal) < InternalCap /\ remaining > 0)
    <3>1. Fail(IF requested THEN "shutdown" ELSE "exhausted", 0) /\ internal' = internal
      BY Zenon, <1>7, <2>3 DEF Forward
    <3>2. /\ wpc' = "failed" /\ failure' = (IF requested THEN "shutdown" ELSE "exhausted")
          /\ drops' = drops + request + 0 /\ request' = 0
      BY <3>1 DEF Fail
    <3> QED
      BY Zenon, <1>0, <2>1, <3>1, <3>2 DEF Places
  <2> QED
    BY Zenon, <2>2, <2>3
<1>8. CASE AdmitBarrier
  <2>1. CASE requested
    BY <1>0, <1>8, <2>1 DEF AdmitBarrier, Fail, Places
  <2>2. CASE ~requested
    BY Zenon, <1>0, <1>8, <2>2 DEF AdmitBarrier, dropVars, Places
  <2> QED
    BY <2>1, <2>2
<1>9. CASE Acknowledge
  BY Zenon, <1>0, <1>9 DEF Acknowledge, WriterKeeps, dropVars, Resume, Places
<1>10. CASE BarrierDeadline
  BY Zenon, <1>0, <1>10 DEF BarrierDeadline, WriterKeeps, Fail, Places
<1> QED
  BY Zenon, <1>1, <1>2, <1>3, <1>4, <1>5, <1>6, <1>7, <1>8, <1>9, <1>10

LEMMA TakeKeeps ==
  ASSUME IInv, TakeIngress \/ TakeInternal
  PROVE  IInv' /\ LinesStay
<1>0. /\ internal \in Seq(Nat) /\ request \in Nat /\ attempted \in Nat /\ files \in Seq(Segments)
  BY Zenon DEF IInv, Types
<1>1. phase = "up" /\ UNCHANGED <<phase, pending, batch, last, files, wpc, failure, request, attempted>>
  BY Zenon DEF TakeIngress, TakeInternal, Selects, writerVars
<1>2. CASE TakeIngress
  <2>1. Finalize(Head(ingress) = "durable", 0) /\ internal' = internal
    BY Zenon, <1>2 DEF TakeIngress
  <2>2. (Head(ingress) = "durable") \in BOOLEAN /\ 0 \in Nat
    OBVIOUS
  <2>3. /\ next' = (IF next \in {0, MaxSeq} THEN 0 ELSE next + 1)
        /\ \/ durable' = durable
           \/ next # 0 /\ WriterAlive /\ \E e \in Event : e.seq = next /\ durable' = Append(durable, e)
        /\ drops' \in Nat
    BY Zenon, <2>1, <2>2, FinalizeRecords
  <2>4. Counts'
    BY Zenon, <1>0, <1>1, <2>1, <2>3 DEF Counts
  <2> QED
    BY Zenon, <1>0, <1>1, <2>3, <2>4, RecordKeeps, LinesOfSame
<1>3. CASE TakeInternal
  <2>1. Finalize(TRUE, Head(internal)) /\ internal' = Tail(internal) /\ internal # <<>>
    BY Zenon, <1>3 DEF TakeInternal
  <2>2. Head(internal) \in Nat /\ Tail(internal) \in Seq(Nat) /\ TRUE \in BOOLEAN
    BY <1>0, <2>1
  <2>3. /\ next' = (IF next \in {0, MaxSeq} THEN 0 ELSE next + 1)
        /\ \/ durable' = durable
           \/ next # 0 /\ WriterAlive /\ \E e \in Event : e.seq = next /\ durable' = Append(durable, e)
        /\ drops' \in Nat
    BY Zenon, <2>1, <2>2, FinalizeRecords
  <2>4. Counts'
    BY Zenon, <1>0, <1>1, <2>1, <2>2, <2>3 DEF Counts
  <2> QED
    BY <1>0, <1>1, <2>3, <2>4, RecordKeeps, LinesOfSame
<1> QED
  BY <1>2, <1>3

LEMMA ReceiveKeeps ==
  ASSUME IInv, Receive
  PROVE  IInv' /\ LinesStay
<1>0. /\ durable \in Seq(Event) /\ pending \in Seq(Event) /\ batch \in Seq(Event)
      /\ files \in Seq(Segments) /\ Counts
  BY Zenon DEF IInv, Types, Counts
<1>1. /\ wpc \in {"parked", "collect"} /\ durable # <<>>
      /\ pending' = Append(pending, Head(durable)) /\ durable' = Tail(durable)
      /\ UNCHANGED <<phase, next, last, files, failure, batch, internal, drops, request, attempted>>
  BY Zenon DEF Receive, WriterKeeps, dropVars
<1>2. wpc' \in {"process", "collect"}
  BY Zenon DEF Receive, AfterReceiving
<1>3. WriterAlive /\ batch = <<>>
  BY Zenon, <1>1, AtWork DEF WriterAlive
<1>4. pending' \in Seq(Event) /\ durable' \in Seq(Event) /\ Work' = Work
  BY Zenon, <1>0, <1>1, MovedInWork DEF Work
<1>5. Counts'
  BY Zenon, <1>0, <1>1 DEF Counts
<1>6. wpc' \in Places \ {"ended", "failed"} /\ (wpc' = "append" <=> batch' # <<>>) /\ batch' \in Seq(Event)
  BY Zenon, <1>0, <1>1, <1>2, <1>3 DEF Places
<1> QED
  BY Zenon, <1>0, <1>1, <1>3, <1>4, <1>5, <1>6, MoveKeeps, LinesOfSame

\* A batch is taken from the front of the work, which is in order: it is never
\* refused for its numbers.
LEMMA ProcessKeeps ==
  ASSUME IInv, ProcessEvents
  PROVE  IInv' /\ LinesStay
<1> DEFINE queue == pending \o durable
           size == Len(BatchOf(queue))
           received == Max({Received(queue, size), Len(pending)})
<1>0. /\ durable \in Seq(Event) /\ pending \in Seq(Event) /\ batch \in Seq(Event)
      /\ files \in Seq(Segments) /\ Counts
  BY DEF IInv, Types, Counts
<1>1. wpc = "process"
  BY Zenon DEF ProcessEvents
<1>2. WriterAlive
  BY <1>1 DEF WriterAlive
<1>3. batch = <<>> /\ InOrder(Work, next, last, files)
  BY Zenon, <1>1, <1>2, AtWork
<1>4. /\ queue \in Seq(Event) /\ queue # <<>>
      /\ size \in 1..Len(queue) /\ received \in size..Len(queue)
      /\ BatchOf(queue) = SubSeq(queue, 1, size)
      /\ pending' = SubSeq(queue, size + 1, received)
      /\ durable' = SubSeq(queue, received + 1, Len(queue))
  BY Zenon, <1>0, Splits
<1>5. Work = queue
  <2>1. << >> \o pending = pending
    BY <1>0
  <2> QED
    BY <1>3, <2>1 DEF Work
<1>6. /\ attempted' = size
      /\ IF Increasing(last, BatchOf(queue))
         THEN /\ batch' = BatchOf(queue) /\ wpc' = "append"
              /\ UNCHANGED <<dropVars, mode, progress, request, last, failure>>
         ELSE Fail("order", size) /\ UNCHANGED batch
      /\ UNCHANGED <<WriterKeeps, internal, files>>
  BY Zenon DEF ProcessEvents
<1> HIDE DEF queue
<1> HIDE DEF size
<1> HIDE DEF received
<1>7. /\ size \in Nat \ {0} /\ received \in Nat /\ Len(queue) \in Nat
      /\ size <= received /\ received <= Len(queue)
  BY <1>4
<1>8. /\ BatchOf(queue) \in Seq(Event) /\ Len(BatchOf(queue)) = size
      /\ \A a \in 1..size : BatchOf(queue)[a] = queue[a]
  <2>1. 1 \in 1..(Len(queue) + 1) /\ size \in 0..Len(queue) /\ 1 <= size + 1
    BY <1>7
  <2>2. SubSeq(queue, 1, size) \in Seq(Event) /\ Len(SubSeq(queue, 1, size)) = size
        /\ \A a \in 1..size : SubSeq(queue, 1, size)[a] = queue[a]
    BY <1>4, <1>7
  <2> QED
    BY <2>2, <1>4
<1>9. Increasing(last, BatchOf(queue))
  <2> SUFFICES ASSUME NEW i \in DOMAIN BatchOf(queue)
               PROVE  BatchOf(queue)[i].seq > (IF i = 1 THEN last ELSE BatchOf(queue)[i - 1].seq)
    BY Zenon DEF Increasing
  <2>1. i \in 1..size /\ i \in DOMAIN queue /\ BatchOf(queue)[i] = queue[i]
    BY <1>4, <1>7, <1>8
  <2>2. last < queue[i].seq
    BY Zenon, <1>3, <1>5, <2>1 DEF InOrder, Above
  <2>3. last \in Nat /\ queue[i].seq \in Nat
    <3>1. last \in 0..MaxSeq /\ MaxSeq \in Nat
      BY Zenon, DiagnosticsAssumption DEF IInv, Types
    <3>2. queue[i].seq \in Nat
      BY Zenon, <1>4, <2>1, NumberOf
    <3> QED
      BY <3>1, <3>2
  <2>4. CASE i = 1
    BY Zenon, <2>1, <2>2, <2>3, <2>4
  <2>5. CASE i # 1
    <3>1. i - 1 \in 1..size /\ i - 1 \in DOMAIN queue /\ i - 1 < i /\ BatchOf(queue)[i - 1] = queue[i - 1]
      BY <1>4, <1>7, <1>8, <2>1, <2>5
    <3>2. queue[i - 1].seq < queue[i].seq
      BY Zenon, <1>3, <1>5, <2>1, <3>1 DEF InOrder, Sorted
    <3>3. queue[i - 1].seq \in Nat
      BY Zenon, <1>4, <3>1, NumberOf
    <3> QED
      BY Zenon, <2>1, <2>3, <2>5, <3>1, <3>2, <3>3
  <2> QED
    BY Zenon, <2>4, <2>5
<1>10. /\ batch' = SubSeq(queue, 1, size) /\ batch' = BatchOf(queue) /\ wpc' = "append"
       /\ UNCHANGED <<phase, next, last, files, failure, internal, drops, request>>
  BY Zenon, <1>4, <1>6, <1>9 DEF WriterKeeps, dropVars
<1>11. Work' = Work
  <2>1. (SubSeq(queue, 1, size) \o SubSeq(queue, size + 1, received)) \o SubSeq(queue, received + 1, Len(queue)) = queue
    <3>1. size \in 0..Len(queue) /\ received \in size..Len(queue)
      BY <1>7
    <3> QED
      BY Zenon, <1>4, <3>1, CutInThree
  <2> QED
    BY Zenon, <2>1, <1>4, <1>5, <1>10 DEF Work
<1>12. batch' \in Seq(Event) /\ batch' # <<>>
  BY <1>7, <1>8, <1>10
<1>13. pending' \in Seq(Event) /\ durable' \in Seq(Event)
  <2>1. /\ size + 1 \in 1..(Len(queue) + 1) /\ received \in 0..Len(queue) /\ size + 1 <= received + 1
        /\ received + 1 \in 1..(Len(queue) + 1) /\ Len(queue) \in 0..Len(queue) /\ received + 1 <= Len(queue) + 1
    BY <1>7
  <2> QED
    BY Zenon, <2>1, <1>4, PartOf
<1>14. Counts'
  BY Zenon, <1>0, <1>6, <1>7, <1>10 DEF Counts
<1>15. wpc' \in Places \ {"ended", "failed"}
  BY <1>10 DEF Places
<1> QED
  BY Zenon, <1>0, <1>2, <1>10, <1>11, <1>12, <1>13, <1>14, <1>15, MoveKeeps, LinesOfSame

LEMMA AppendLinesKeeps ==
  ASSUME IInv, AppendLines
  PROVE  IInv' /\ LinesStay
<1> DEFINE n == Room(files, batch)
           rest == SubSeq(batch, n + 1, Len(batch))
<1>1. /\ wpc = "append" /\ n > 0 /\ files' = Appended(files, batch, n, FALSE) /\ batch' = rest
      /\ UNCHANGED <<phase, next, durable, pending, failure, internal, drops, request, attempted>>
  BY DEF AppendLines, WriterKeeps
<1>2. rest # <<>> => UNCHANGED <<wpc, last>>
  BY DEF AppendLines
<1>3. rest = <<>> => last' = Last(batch).seq /\ wpc' \in {"retain", "process", "idle"}
  BY DEF AppendLines, Resume
<1>4. WriterAlive
  BY <1>1 DEF WriterAlive
<1>5. files \in Seq(Segments) /\ files # <<>> /\ batch \in Seq(Event) /\ Counts
  BY Zenon, <1>4, AtWork DEF Sound, IInv, Types, Counts
<1>6. Len(batch) \in Nat /\ Len(Last(files).events) \in Nat /\ MaxSegment \in Nat
  BY <1>5, LastOfFiles, DiagnosticsAssumption
<1>7. n \in 1..Len(batch)
  BY <1>1, <1>6 DEF Room
<1> HIDE DEF n
<1> HIDE DEF rest
<1>8. Counts'
  BY <1>1, <1>5 DEF Counts
<1>9. batch' = SubSeq(batch, n + 1, Len(batch))
  BY <1>1 DEF rest
<1>10. batch' = <<>> => last' = Last(batch).seq /\ wpc' \in Places \ {"append", "ended", "failed"}
  BY <1>1, <1>3 DEF Places
<1>11. batch' # <<>> => wpc' = wpc /\ last' = last
  BY <1>1, <1>2
<1> QED
  BY Zenon, <1>1, <1>7, <1>8, <1>9, <1>10, <1>11, AppendKeeps

LEMMA RetainStepKeeps ==
  ASSUME IInv, Retain
  PROVE  IInv' /\ LinesStay
<1>1. wpc = "retain" /\ WriterAlive
  BY DEF Retain, WriterAlive
<1>2. WellFormed(files)
  BY ChainedIsWellFormed DEF IInv, Types
<1>3. /\ \E expired \in Expirable(files) : files' = Retained(files, expired)
      /\ UNCHANGED <<phase, next, durable, pending, batch, last, failure, internal, drops, request, attempted>>
      /\ wpc' \in {"process", "idle"}
  BY Zenon, <1>2 DEF Retain, Resume, WriterKeeps, dropVars
<1>4. PICK expired \in Expirable(files) : files' = Retained(files, expired)
  BY <1>3
<1>5. PICK removed \in SUBSET Closed(files) : files' = Without(files, removed)
  BY <1>4, RetentionRemoves
<1>6. Counts'
  BY Zenon, <1>3 DEF IInv, Types, Counts
<1>7. wpc' \in Places \ {"append", "ended", "failed"} /\ wpc # "append"
  BY <1>1, <1>3 DEF Places
<1> QED
  BY Zenon, <1>1, <1>3, <1>5, <1>6, <1>7, RetainKeeps

LEMMA FaultKeeps ==
  ASSUME IInv, IoError \/ Crash \/ Exit
  PROVE  IInv' /\ LinesStay
<1>0. /\ internal \in Seq(Nat) /\ drops \in Nat /\ request \in Nat /\ attempted \in Nat
      /\ files \in Seq(Segments) /\ Chained(files)
  BY DEF IInv, Types
<1>1. CASE IoError
  <2>1. /\ wpc \in {"append", "retain", "forward"} /\ files' \in Interrupted /\ wpc' = "failed"
        /\ failure' = "io" /\ request' = 0
        /\ drops' = drops + request + (IF wpc = "append" THEN attempted ELSE 0)
        /\ UNCHANGED <<phase, next, durable, pending, batch, last, internal, attempted>>
    BY Zenon, <1>1 DEF IoError, Fail, WriterKeeps
  <2>2. Counts'
    BY <1>0, <2>1 DEF Counts
  <2>3. WriterAlive
    BY <2>1 DEF WriterAlive
  <2>4. phase = "up"
    BY <2>3, AtWork
  <2>5. Sound(files', next) /\ LinesStay
    BY <2>1, <2>4, InterruptedIsSound
  <2> QED
    BY <2>1, <2>2, <2>4, <2>5, FailKeeps
<1>2. CASE Crash
  <2>1. phase = "up" /\ phase' = "down" /\ files' \in Interrupted /\ Cleared /\ Stopped
    BY <1>2 DEF Crash
  <2>2. Sound(files', next) /\ LinesStay
    BY <2>1, InterruptedIsSound
  <2> QED
    BY <2>1, <2>2, DeathKeeps DEF Sound
<1>3. CASE Exit
  <2>1. phase' = "down" /\ files' = files /\ Cleared /\ Stopped
    BY <1>3 DEF Exit
  <2> QED
    BY <1>0, <2>1, DeathKeeps, LinesOfSame
<1> QED
  BY <1>1, <1>2, <1>3
-----------------------------------------------------------------------------
LEMMA InitIsIn ==
  ASSUME Init
  PROVE  IInv
<1>1. << >> \in Seq(Event) /\ << >> \in Seq(Nat) /\ << >> \in Seq(Segments) /\ 0 \in 0..MaxSeq /\ 0 \in Nat
  BY DiagnosticsAssumption
<1>2. Types
  BY Zenon, <1>1 DEF Init, Blank, Halted, Types, Places
<1>3. Chained(files)
  BY DEF Init, Chained
<1>4. OrderInv
  BY DEF Init, OrderInv
<1>5. wpc = "ended" /\ failure # "order"
  BY DEF Init, Blank, Halted
<1> QED
  BY <1>2, <1>3, <1>4, <1>5 DEF IInv

LEMMA StepKeeps ==
  ASSUME IInv, [Next]_vars
  PROVE  IInv' /\ [LinesStay]_vars
<1>1. CASE Start
  BY <1>1, StartKeeps
<1>2. CASE CheckFlags \/ Producer \/ Shutdown \/ CloseDeadline
  BY <1>2, OthersRest, RestKeeps DEF Producer
<1>3. CASE Recorder
  BY <1>3, OthersRest, RestKeeps, TakeKeeps DEF Recorder
<1>4. CASE Writer
  BY <1>4, WriterRests, ReceiveKeeps, ProcessKeeps, AppendLinesKeeps, RotateKeeps,
     RetainStepKeeps
     DEF Writer
<1>5. CASE BarrierDeadline
  BY <1>5, WriterRests
<1>6. CASE IoError \/ Crash \/ Exit
  BY <1>6, FaultKeeps
<1>7. CASE UNCHANGED vars
  <2>1. UNCHANGED coreVars
    BY Zenon, <1>7 DEF vars, coreVars, recorderVars, writerVars, channelVars, dropVars
  <2> QED
    BY <2>1, RestKeeps
<1> QED
  BY <1>1, <1>2, <1>3, <1>4, <1>5, <1>6, <1>7 DEF Next

LEMMA ChainedIncreases ==
  ASSUME IInv
  PROVE  phase # "refused" /\ NumbersIncrease
<1>1. Chained(files) /\ failure # "order" /\ phase # "refused"
  BY DEF IInv, Types
<1>2. ASSUME NEW i \in DOMAIN files, NEW j \in DOMAIN files,
             NEW a \in DOMAIN files[i].events, NEW b \in DOMAIN files[j].events,
             i < j \/ (i = j /\ a < b)
      PROVE  files[i].events[a].seq < files[j].events[b].seq
  <2>1. CASE i < j
    BY Zenon, <2>1, <1>1 DEF Chained, Before
  <2>2. CASE i = j /\ a < b
    BY Zenon, <2>2, <1>1 DEF Chained, Sorted
  <2> QED
    BY Zenon, <1>2, <2>1, <2>2
<1> QED
  BY Zenon, <1>1, <1>2 DEF NumbersIncrease

\* For every capacity, batch size, segment size, budget and set of faults:
\* recovery never refuses the files that a crash, a failed append, a rotation
\* or a removal has left, their numbers increase over all restarts, no batch is
\* refused for its numbers, and no step loses a complete line of the active
\* file (SegmentWriter::flush, recover, enforce_with_active).
THEOREM DiagnosticFilesSurvive == Spec => FilesSurvive
<1>1. Init => IInv
  BY InitIsIn
<1>2. IInv /\ [Next]_vars => IInv'
  BY StepKeeps
<1>3. IInv => phase # "refused" /\ NumbersIncrease
  BY ChainedIncreases
<1>4. IInv /\ [Next]_vars
        => [files # <<>> => \E i \in DOMAIN files' : IsPrefix(Last(files).events, files'[i].events)]_vars
  BY StepKeeps DEF LinesStay
<1> QED
  BY <1>1, <1>2, <1>3, <1>4, PTL DEF Spec, FilesSurvive
-----------------------------------------------------------------------------
(* Why the writer fails.                                                    *)

Fields ==
  /\ ingress \in Seq(Levels) /\ queries \in Seq({"barrier", "close"})
  /\ remaining \in Nat /\ permits \in Nat
  /\ recv \in [Channels -> {"open", "closed", "ended"}]
  /\ mode \in {"work", "flush", "last"}
  /\ inflight \in BOOLEAN /\ progress \in BOOLEAN /\ requested \in BOOLEAN /\ clean \in BOOLEAN

\* A number is left for every event that was accepted.
NumbersLeft ==
  phase = "up" =>
    Len(ingress) + Len(internal) + remaining = (IF next = 0 THEN 0 ELSE MaxSeq - next + 1)

\* A receiver that has ended has nothing left to receive.
EndedIsEmpty ==
  /\ recv["ingress"] = "ended" => ingress = <<>> /\ permits = 0
  /\ recv["internal"] = "ended" => internal = <<>>
  /\ closed = "replied" => recv["ingress"] = "ended"

Reportable == progress /\ ~inflight /\ drops > 0

\* The batched work has seen something to do, and a summary is in the internal
\* channel only while the writer waits for its barrier.
WriterLooks ==
  WriterAlive =>
    /\ wpc = "collect" => pending # <<>>
    /\ wpc = "process" /\ mode = "work" => pending # <<>> \/ Reportable
    /\ internal # <<>> => wpc = "admit" \/ (wpc = "barrier" /\ barrier # "replied")

\* Nothing is left to write, and nothing can come.
Quiet ==
  /\ flush = "done" /\ internal = <<>> /\ durable = <<>> /\ pending = <<>> /\ batch = <<>>
  /\ ~Reportable /\ mode # "flush"
  /\ wpc \in {"idle", "parked", "ended"} \/ (wpc = "process" /\ mode = "last")

\* The order of the shutdown, as long as it met no error.
InShutdown ==
  /\ requested => spc \in {"joining", "stopped"}
  /\ mode = "flush" => flush = "taken"
  /\ spc \in {"idle", "running", "closing", "flush"} => flush = "none"
  /\ clean =>
       /\ flush \in {"sent", "taken"} => spc = "flushing"
       /\ spc \in {"flush", "flushing", "request", "joining", "stopped"} => recv["ingress"] = "ended"
       /\ flush = "done" => spc \in {"flushing", "request", "joining", "stopped"}
       /\ flush = "done" \/ spc \in {"request", "joining", "stopped"} => Quiet
       /\ failure # "shutdown"

RInv ==
  Fields /\ NumbersLeft /\ EndedIsEmpty /\ WriterLooks /\ InShutdown /\ failure # "idle"

\* A channel when something is sent and received.
LEMMA ChannelOf ==
  ASSUME NEW S, NEW s \in Seq(S)
  PROVE  /\ Len(s) \in Nat /\ (s = <<>> <=> Len(s) = 0)
         /\ s # <<>> => Tail(s) \in Seq(S) /\ Len(Tail(s)) = Len(s) - 1
         /\ \A e \in S : Append(s, e) \in Seq(S) /\ Len(Append(s, e)) = Len(s) + 1
OBVIOUS

LEMMA StartHasAReason ==
  ASSUME IInv, IInv', Start
  PROVE  RInv'
<1>1. /\ phase' = "up" /\ Cleared
      /\ next' = NextAfter(LastSequence(files)) /\ remaining' = RemainingAfter(LastSequence(files))
      /\ recv' = [c \in Channels |-> "open"] /\ wpc' = "idle" /\ spc' = "running"
  BY Zenon DEF Start, IInv, Types
<1>2. LastSequence(files) \in 0..MaxSeq
  BY Zenon, LastSequenceIsLast DEF IInv, Types
<1>3. << >> \in Seq(Levels) /\ << >> \in Seq({"barrier", "close"})
  OBVIOUS
<1>4. remaining' \in Nat
  BY <1>1, <1>2, DiagnosticsAssumption DEF RemainingAfter
<1>5. Fields'
  BY Zenon, <1>1, <1>3, <1>4 DEF Fields, Cleared, Channels
<1>6. NumbersLeft'
  BY <1>1, <1>2, DiagnosticsAssumption DEF NumbersLeft, Cleared, NextAfter, RemainingAfter
<1>7. EndedIsEmpty' /\ WriterLooks' /\ InShutdown' /\ failure' # "idle"
  BY <1>1 DEF EndedIsEmpty, WriterLooks, WriterAlive, InShutdown, Cleared, Channels
<1> QED
  BY <1>5, <1>6, <1>7 DEF RInv

LEMMA ProducersHaveAReason ==
  ASSUME IInv, RInv, CheckFlags \/ Producer
  PROVE  RInv'
<1> USE DEF RInv
<1>1. CASE CheckFlags
  <2> USE <1>1 DEF CheckFlags, producerVars, channelVars, recorderVars, dropVars,
      writerVars, shutdownVars
  <2>1. Fields' /\ NumbersLeft'
    BY Zenon DEF Fields, NumbersLeft
  <2>2. EndedIsEmpty' /\ WriterLooks'
    BY Zenon DEF EndedIsEmpty, WriterLooks, WriterAlive, Reportable
  <2>3. InShutdown' /\ failure' # "idle"
    BY Zenon DEF InShutdown, Quiet, Reportable
  <2> QED
    BY Zenon, <2>1, <2>2, <2>3
<1>2. CASE ReservePermit
  <2> USE <1>2 DEF ReservePermit, channelVars, recorderVars, dropVars, writerVars,
      shutdownVars
  <2>1. Fields' /\ NumbersLeft'
    BY DEF Fields, NumbersLeft
  <2>2. EndedIsEmpty' /\ WriterLooks'
    BY Zenon DEF EndedIsEmpty, WriterLooks, WriterAlive, Reportable
  <2>3. InShutdown' /\ failure' # "idle"
    BY Zenon DEF InShutdown, Quiet, Reportable
  <2> QED
    BY Zenon, <2>1, <2>2, <2>3
<1>3. CASE SendEvent
  <2>1. /\ permits' = permits - 1 /\ permits > 0
        /\ UNCHANGED <<phase, internal, queries, recorderVars, durable, dropVars, writerVars, shutdownVars>>
    BY Zenon, <1>3 DEF SendEvent
  <2>2. \/ UNCHANGED <<ingress, remaining>>
        \/ /\ remaining > 0 /\ remaining' = remaining - 1
           /\ ingress' \in Seq(Levels) /\ Len(ingress') = Len(ingress) + 1
    BY <1>3, ChannelOf DEF SendEvent, Fields
  <2>3. /\ remaining \in Nat /\ permits \in Nat /\ Len(ingress) \in Nat /\ Len(internal) \in Nat
    BY ChannelOf DEF IInv, Types, Fields
  <2>4. remaining' \in Nat /\ permits' \in Nat /\ ingress' \in Seq(Levels)
    BY <2>1, <2>2, <2>3 DEF Fields
  <2>5. Fields'
    BY Zenon, <2>1, <2>4 DEF Fields, recorderVars, dropVars, writerVars, shutdownVars
  <2>6. Len(ingress') + Len(internal) + remaining' = Len(ingress) + Len(internal) + remaining
    BY <2>2, <2>3
  <2>7. NumbersLeft'
    BY Zenon, <2>1, <2>6 DEF NumbersLeft, recorderVars
  <2>8. EndedIsEmpty' /\ WriterLooks'
    BY <2>1, <2>2 DEF EndedIsEmpty, WriterLooks, WriterAlive, Reportable, Fields,
       recorderVars, dropVars, writerVars, shutdownVars
  <2>9. InShutdown' /\ failure' # "idle"
    BY Zenon, <2>1 DEF InShutdown, Quiet, Reportable, recorderVars, dropVars, writerVars,
       shutdownVars
  <2> QED
    BY Zenon, <2>5, <2>7, <2>8, <2>9
<1> QED
  BY Zenon, <1>1, <1>2, <1>3 DEF Producer

\* An event takes its number, and drops may be added to.
LEMMA FinalizeCounts ==
  ASSUME IInv, Fields, NEW persists \in BOOLEAN, NEW summary \in Nat, Finalize(persists,
         summary),
         next # 0
  PROVE  /\ next' = (IF next = MaxSeq THEN 0 ELSE next + 1)
         /\ inflight' \in BOOLEAN
         /\ Reportable /\ UNCHANGED progress => Reportable'
<1>1. next \in 1..MaxSeq /\ drops \in Nat /\ progress \in BOOLEAN /\ inflight \in BOOLEAN
  BY DEF IInv, Types, Fields
<1>2. next' = (IF next = MaxSeq THEN 0 ELSE next + 1)
  BY <1>1 DEF Finalize
<1>3. UNCHANGED dropVars \/ (drops' = drops + summary + 1 /\ inflight' = (inflight /\ ~(summary # 0)))
  BY DEF Finalize, TryRecord, IsSummary
<1>4. drops' >= drops /\ drops' \in Nat
  BY <1>1, <1>3 DEF dropVars
<1>5. inflight' \in BOOLEAN /\ (~inflight => ~inflight')
  <2>1. CASE UNCHANGED dropVars
    BY <1>1, <2>1 DEF dropVars
  <2>2. CASE inflight' = (inflight /\ ~(summary # 0))
    <3>1. CASE inflight /\ ~(summary # 0)
      BY <2>2, <3>1
    <3>2. CASE ~(inflight /\ ~(summary # 0))
      BY Zenon, <2>2, <3>2
    <3> QED
      BY <3>1, <3>2
  <2> QED
    BY <1>3, <2>1, <2>2
<1>6. Reportable /\ UNCHANGED progress => Reportable'
  BY <1>1, <1>4, <1>5 DEF Reportable
<1> QED
  BY <1>2, <1>5, <1>6

LEMMA RecorderHasAReason ==
  ASSUME IInv, RInv, Recorder
  PROVE  RInv'
<1> USE DEF RInv
<1>0. /\ Len(ingress) \in Nat /\ Len(internal) \in Nat /\ next \in 0..MaxSeq /\ remaining \in Nat
      /\ internal \in Seq(Nat) /\ ingress \in Seq(Levels) /\ MaxSeq \in Nat
  BY ChannelOf, DiagnosticsAssumption DEF IInv, Types, Fields
<1>1. CASE TakeIngress
  <2>1. /\ phase = "up" /\ recv["ingress"] # "ended" /\ ingress # <<>> /\ ingress' = Tail(ingress)
        /\ recv' = Top(recv) /\ Finalize(Head(ingress) = "durable", 0)
        /\ UNCHANGED <<phase, permits, internal, queries, closed, barrier, remaining, writerVars,
                       shutdownVars>>
    BY Zenon, <1>1 DEF TakeIngress, Selects, Ready, producerVars
  <2>2. ingress' \in Seq(Levels) /\ Len(ingress') = Len(ingress) - 1 /\ Len(ingress) > 0
    BY <1>0, <2>1, ChannelOf
  <2>3. next # 0
    BY <1>0, <2>1, <2>2 DEF NumbersLeft
  <2>4. next' = (IF next = MaxSeq THEN 0 ELSE next + 1) /\ inflight' \in BOOLEAN
        /\ (Reportable /\ UNCHANGED progress => Reportable')
    BY Zenon, <2>1, <2>3, FinalizeCounts
  <2>5. /\ recv' \in [Channels -> {"open", "closed", "ended"}]
        /\ \A c \in Channels : recv'[c] = "ended" <=> recv[c] = "ended"
    BY <2>1 DEF Top, Fields
  <2>6. Fields'
    BY Zenon, <2>1, <2>2, <2>4, <2>5 DEF Fields, writerVars, shutdownVars
  <2>7. NumbersLeft'
    BY <1>0, <2>1, <2>2, <2>3, <2>4 DEF NumbersLeft
  <2>8. EndedIsEmpty'
    BY <2>1, <2>5 DEF EndedIsEmpty, Channels
  <2>9. WriterLooks'
    BY <2>1, <2>4 DEF WriterLooks, WriterAlive, writerVars
  <2>10. InShutdown' /\ failure' # "idle"
    BY Zenon, <2>1 DEF InShutdown, Quiet, writerVars, shutdownVars
  <2> QED
    BY Zenon, <2>6, <2>7, <2>8, <2>9, <2>10
<1>2. CASE TakeInternal
  <2>1. /\ phase = "up" /\ internal # <<>> /\ internal' = Tail(internal)
        /\ recv' = Top(recv) /\ Finalize(TRUE, Head(internal))
        /\ UNCHANGED <<phase, permits, ingress, queries, closed, barrier, remaining, writerVars,
                       shutdownVars>>
    BY Zenon, <1>2 DEF TakeInternal, Selects, producerVars
  <2>2. /\ internal' \in Seq(Nat) /\ Len(internal') = Len(internal) - 1 /\ Len(internal) > 0
        /\ Head(internal) \in Nat
    BY <1>0, <2>1, ChannelOf
  <2>3. next # 0
    BY <1>0, <2>1, <2>2 DEF NumbersLeft
  <2>4. next' = (IF next = MaxSeq THEN 0 ELSE next + 1) /\ inflight' \in BOOLEAN
        /\ (Reportable /\ UNCHANGED progress => Reportable')
    BY Zenon, <2>1, <2>2, <2>3, FinalizeCounts
  <2>5. /\ recv' \in [Channels -> {"open", "closed", "ended"}]
        /\ \A c \in Channels : recv'[c] = "ended" <=> recv[c] = "ended"
    BY <2>1 DEF Top, Fields
  <2>6. Fields'
    BY Zenon, <2>1, <2>4, <2>5 DEF Fields, writerVars, shutdownVars
  <2>7. NumbersLeft'
    BY <1>0, <2>1, <2>2, <2>3, <2>4 DEF NumbersLeft
  <2>8. EndedIsEmpty'
    BY <2>1, <2>5 DEF EndedIsEmpty, Channels
  <2>9. WriterLooks'
    BY <2>1, <2>4 DEF WriterLooks, WriterAlive, writerVars
  <2>10. InShutdown' /\ failure' # "idle"
    BY <2>1, <2>5 DEF InShutdown, Quiet, Channels, writerVars, shutdownVars
  <2> QED
    BY Zenon, <2>6, <2>7, <2>8, <2>9, <2>10
<1>3. CASE EndIngress
  <2> USE <1>3 DEF EndIngress, Selects, Ready, Waiting, Drained, Top, producerVars,
      channelVars, dropVars, writerVars, shutdownVars
  <2>1. Fields' /\ NumbersLeft'
    BY Zenon DEF Fields, NumbersLeft
  <2>2. EndedIsEmpty' /\ WriterLooks'
    BY DEF EndedIsEmpty, WriterLooks, WriterAlive, Reportable, Fields, Channels
  <2>3. InShutdown' /\ failure' # "idle"
    BY DEF InShutdown, Quiet, Reportable, Fields, Channels
  <2> QED
    BY Zenon, <2>1, <2>2, <2>3
<1>4. CASE EndInternal
  <2> USE <1>4 DEF EndInternal, Selects, Ready, Waiting, Drained, Top, producerVars,
      channelVars, dropVars, writerVars, shutdownVars
  <2>1. Fields' /\ NumbersLeft'
    BY Zenon DEF Fields, NumbersLeft
  <2>2. EndedIsEmpty' /\ WriterLooks'
    BY DEF EndedIsEmpty, WriterLooks, WriterAlive, Reportable, Fields, Channels
  <2>3. InShutdown' /\ failure' # "idle"
    BY DEF InShutdown, Quiet, Reportable, Fields, Channels
  <2> QED
    BY Zenon, <2>1, <2>2, <2>3
<1>5. CASE TakeQuery
  <2>1. /\ queries # <<>> /\ queries' = Tail(queries)
        /\ UNCHANGED <<phase, permits, ingress, internal, next, remaining, durable, dropVars,
                       writerVars, shutdownVars>>
    BY Zenon, <1>5 DEF TakeQuery, producerVars
  <2>2. internal = <<>>
    BY <1>5 DEF TakeQuery, Selects, Ready, Waiting, EndedIsEmpty
  <2>3. \/ barrier' = "replied" /\ recv' = Top(recv) /\ UNCHANGED closed
        \/ /\ recv' = Top([recv EXCEPT !["ingress"] = IF @ = "open" THEN "closed" ELSE @])
           /\ closed' = (IF recv["ingress"] = "ended" THEN "replied" ELSE "held") /\ UNCHANGED barrier
    BY Zenon, <1>5 DEF TakeQuery
  <2>4. /\ recv' \in [Channels -> {"open", "closed", "ended"}]
        /\ recv'["ingress"] = "ended" <=> recv["ingress"] = "ended"
        /\ recv'["internal"] = "ended" <=> recv["internal"] = "ended"
    BY <2>3 DEF Top, Fields, Channels
  <2>5. Fields'
    <3>1. queries' \in Seq({"barrier", "close"})
      BY <2>1, ChannelOf DEF Fields
    <3> QED
      BY Zenon, <2>1, <2>4, <3>1 DEF Fields, dropVars, writerVars, shutdownVars
  <2>6. NumbersLeft'
    BY Zenon, <2>1 DEF NumbersLeft
  <2>7. EndedIsEmpty'
    BY <2>1, <2>3, <2>4 DEF EndedIsEmpty
  <2>8. WriterLooks'
    BY Zenon, <2>1, <2>2 DEF WriterLooks, WriterAlive, Reportable, dropVars, writerVars
  <2>9. InShutdown' /\ failure' # "idle"
    BY Zenon, <2>1, <2>4 DEF InShutdown, Quiet, Reportable, dropVars, writerVars,
       shutdownVars
  <2> QED
    BY Zenon, <2>5, <2>6, <2>7, <2>8, <2>9
<1>6. CASE EndQueries
  <2> USE <1>6 DEF EndQueries, Top, producerVars, channelVars, dropVars, writerVars,
      shutdownVars
  <2>1. Fields' /\ NumbersLeft'
    BY Zenon DEF Fields, NumbersLeft
  <2>2. EndedIsEmpty' /\ WriterLooks'
    BY DEF EndedIsEmpty, WriterLooks, WriterAlive, Reportable, Fields, Channels
  <2>3. InShutdown' /\ failure' # "idle"
    BY DEF InShutdown, Quiet, Reportable, Fields, Channels
  <2> QED
    BY Zenon, <2>1, <2>2, <2>3
<1>7. CASE Wake
  <2> USE <1>7 DEF Wake, Top, producerVars, channelVars, dropVars, writerVars, shutdownVars
  <2>1. Fields' /\ NumbersLeft'
    BY Zenon DEF Fields, NumbersLeft
  <2>2. EndedIsEmpty' /\ WriterLooks'
    BY DEF EndedIsEmpty, WriterLooks, WriterAlive, Reportable, Fields, Channels
  <2>3. InShutdown' /\ failure' # "idle"
    BY DEF InShutdown, Quiet, Reportable, Fields, Channels
  <2> QED
    BY Zenon, <2>1, <2>2, <2>3
<1> QED
  BY Zenon, <1>1, <1>2, <1>3, <1>4, <1>5, <1>6, <1>7 DEF Recorder

\* What is received or in the channel is what waits to be written.
LEMMA NothingWaits ==
  ASSUME IInv
  PROVE  pending \o durable = <<>> <=> pending = <<>> /\ durable = <<>>
BY DEF IInv, Types

LEMMA WriterHasAReason ==
  ASSUME IInv, RInv, IInv', Writer
  PROVE  RInv'
<1> USE DEF RInv
<1>1. CASE TakeFlush
  <2> USE <1>1 DEF TakeFlush, producerVars, channelVars, recorderVars, dropVars
  <2>1. Fields' /\ NumbersLeft'
    BY Zenon DEF Fields, NumbersLeft
  <2>2. EndedIsEmpty' /\ WriterLooks'
    BY Zenon DEF EndedIsEmpty, WriterLooks, WriterAlive, Reportable
  <2>3. InShutdown' /\ failure' # "idle"
    BY Zenon DEF InShutdown, Quiet, Reportable
  <2> QED
    BY Zenon, <2>1, <2>2, <2>3
<1>2. CASE Poll
  <2> USE <1>2 DEF Poll, WriterKeeps, producerVars, dropVars, shutdownVars
  <2>1. Fields' /\ NumbersLeft'
    BY Zenon DEF Fields, NumbersLeft
  <2>2. EndedIsEmpty' /\ WriterLooks'
    BY Zenon DEF EndedIsEmpty, WriterLooks, WriterAlive, Reportable
  <2>3. InShutdown' /\ failure' # "idle"
    BY Zenon DEF InShutdown, Quiet, Reportable
  <2> QED
    BY Zenon, <2>1, <2>2, <2>3
<1>3. CASE Receive
  <2>1. pending' # <<>>
    <3>1. pending \in Seq(Event) /\ durable \in Seq(Event) /\ durable # <<>>
      BY Zenon, <1>3 DEF Receive, IInv, Types
    <3>2. \A e \in Event : Append(pending, e) # <<>>
      BY <3>1
    <3>3. Head(durable) \in Event
      BY <3>1
    <3> QED
      BY Zenon, <1>3, <3>2, <3>3 DEF Receive
  <2>2. wpc' \in {"process", "collect"} /\ wpc \in {"parked", "collect"} /\ durable # <<>>
    BY <1>3 DEF Receive, AfterReceiving
  <2>3. UNCHANGED <<WriterKeeps, ingress, internal, barrier, remaining, dropVars, mode, batch,
                    attempted, rotated, progress, request, last, failure, files, settled>>
    BY Zenon, <1>3 DEF Receive
  <2>4. Fields' /\ NumbersLeft'
    BY Zenon, <2>3 DEF Fields, NumbersLeft, WriterKeeps, producerVars, dropVars,
       shutdownVars
  <2>5. EndedIsEmpty' /\ WriterLooks'
    BY <2>1, <2>2, <2>3 DEF EndedIsEmpty, WriterLooks, WriterAlive, Reportable,
       WriterKeeps, producerVars, dropVars, shutdownVars
  <2>6. InShutdown' /\ failure' # "idle"
    BY <2>2, <2>3 DEF InShutdown, Quiet, Reportable, WriterKeeps, producerVars, dropVars,
       shutdownVars
  <2> QED
    BY Zenon, <2>4, <2>5, <2>6
<1>4. CASE StopCollecting
  <2> USE <1>4 DEF StopCollecting, WriterKeeps, producerVars, dropVars, shutdownVars
  <2>1. Fields' /\ NumbersLeft'
    BY Zenon DEF Fields, NumbersLeft
  <2>2. EndedIsEmpty' /\ WriterLooks'
    BY Zenon DEF EndedIsEmpty, WriterLooks, WriterAlive, Reportable
  <2>3. InShutdown' /\ failure' # "idle"
    BY Zenon DEF InShutdown, Quiet, Reportable
  <2> QED
    BY Zenon, <2>1, <2>2, <2>3
<1>5. CASE ReceiveNone
  <2> USE <1>5 DEF ReceiveNone, WriterKeeps, producerVars, dropVars, shutdownVars
  <2>1. Fields' /\ NumbersLeft'
    BY Zenon DEF Fields, NumbersLeft
  <2>2. EndedIsEmpty' /\ WriterLooks'
    BY Zenon DEF EndedIsEmpty, WriterLooks, WriterAlive, Reportable
  <2>3. InShutdown' /\ failure' # "idle"
    BY Zenon DEF InShutdown, Quiet, Reportable
  <2> QED
    BY Zenon, <2>1, <2>2, <2>3
<1>6. CASE ProcessEvents
  <2>1. wpc = "process" /\ (pending # <<>> \/ durable # <<>>)
    BY Zenon, <1>6, NothingWaits DEF ProcessEvents
  <2>2. wpc' \in {"append", "failed"} /\ failure' \in {failure, "order"}
    BY <1>6 DEF ProcessEvents, Fail
  <2>3. inflight' \in BOOLEAN /\ UNCHANGED <<mode, progress>>
    BY Zenon, <1>6 DEF ProcessEvents, Fail, dropVars, Fields
  <2>4. UNCHANGED <<WriterKeeps, ingress, internal, barrier, remaining>>
    BY Zenon, <1>6 DEF ProcessEvents
  <2>5. Fields' /\ NumbersLeft'
    BY Zenon, <2>3, <2>4 DEF Fields, NumbersLeft, WriterKeeps, producerVars, shutdownVars
  <2>6. ~clean \/ (flush # "done" /\ spc \notin {"request", "joining", "stopped"})
    BY <2>1 DEF InShutdown, Quiet
  <2>7. failure' = failure
    BY <2>2 DEF IInv
  <2>8. EndedIsEmpty' /\ WriterLooks'
    BY <2>1, <2>2, <2>3, <2>4 DEF EndedIsEmpty, WriterLooks, WriterAlive, Reportable,
       WriterKeeps, producerVars, shutdownVars
  <2>9. InShutdown' /\ failure' # "idle"
    BY <2>2, <2>3, <2>4, <2>6, <2>7 DEF InShutdown, Quiet, Reportable, WriterKeeps,
       producerVars, shutdownVars
  <2> QED
    BY Zenon, <2>5, <2>8, <2>9
<1>7. CASE RequestSummary
  <2> USE <1>7 DEF RequestSummary, WriterKeeps, producerVars, dropVars, shutdownVars
  <2>1. Fields' /\ NumbersLeft'
    BY Zenon DEF Fields, NumbersLeft
  <2>2. EndedIsEmpty' /\ WriterLooks'
    BY Zenon DEF EndedIsEmpty, WriterLooks, WriterAlive, Reportable
  <2>3. InShutdown' /\ failure' # "idle"
    BY Zenon DEF InShutdown, Quiet, Reportable
  <2> QED
    BY Zenon, <2>1, <2>2, <2>3
<1>8. CASE ProcessNothing
  <2>1. /\ wpc = "process" /\ pending = <<>> /\ durable = <<>> /\ ~Reportable
        /\ UNCHANGED <<phase, producerVars, channelVars, recorderVars, remaining, durable, pending,
                       batch, closing, requested, spc, clean>>
    BY Zenon, <1>8, NothingWaits DEF ProcessNothing, Reportable
  <2>2. mode # "work"
    BY <2>1 DEF WriterLooks, WriterAlive
  <2>3. phase = "up" /\ batch = <<>>
    BY <2>1 DEF IInv, OrderInv, Types, WriterAlive
  <2>4. /\ \/ mode = "flush" /\ flush' = "done" /\ wpc' = "idle" /\ mode' = "work"
           \/ mode = "last" /\ wpc' = "ended" /\ UNCHANGED <<flush, mode>>
        /\ UNCHANGED <<dropVars, progress, request, last, failure>>
    BY <1>8, <2>2 DEF ProcessNothing, Fields
  <2>5. Fields' /\ NumbersLeft'
    BY <2>1, <2>4 DEF Fields, NumbersLeft, producerVars, channelVars, recorderVars, dropVars
  <2>6. EndedIsEmpty' /\ WriterLooks'
    BY <2>1, <2>4 DEF EndedIsEmpty, WriterLooks, WriterAlive, Reportable, producerVars,
       channelVars, recorderVars, dropVars
  <2>7. InShutdown' /\ failure' # "idle"
    BY <2>1, <2>3, <2>4 DEF InShutdown, Quiet, Reportable, WriterLooks, WriterAlive,
       producerVars, channelVars, recorderVars, dropVars
  <2> QED
    BY Zenon, <2>5, <2>6, <2>7
<1>9. CASE AppendLines
  <2> USE <1>9 DEF AppendLines, WriterKeeps, producerVars, dropVars, shutdownVars, Resume
  <2>1. Fields' /\ NumbersLeft'
    BY Zenon DEF Fields, NumbersLeft
  <2>2. EndedIsEmpty' /\ WriterLooks'
    BY Zenon DEF EndedIsEmpty, WriterLooks, WriterAlive, Reportable
  <2>3. InShutdown' /\ failure' # "idle"
    BY Zenon DEF InShutdown, Quiet, Reportable
  <2> QED
    BY Zenon, <2>1, <2>2, <2>3
<1>10. CASE Rotate
  <2> USE <1>10 DEF Rotate, WriterKeeps, producerVars, dropVars, shutdownVars
  <2>1. Fields' /\ NumbersLeft'
    BY Zenon DEF Fields, NumbersLeft
  <2>2. EndedIsEmpty' /\ WriterLooks'
    BY Zenon DEF EndedIsEmpty, WriterLooks, WriterAlive, Reportable
  <2>3. InShutdown' /\ failure' # "idle"
    BY Zenon DEF InShutdown, Quiet, Reportable
  <2> QED
    BY Zenon, <2>1, <2>2, <2>3
<1>11. CASE Retain
  <2> USE <1>11 DEF Retain, WriterKeeps, producerVars, dropVars, shutdownVars, Resume, Fail
  <2>1. Fields' /\ NumbersLeft'
    BY Zenon DEF Fields, NumbersLeft
  <2>2. EndedIsEmpty' /\ WriterLooks'
    BY Zenon DEF EndedIsEmpty, WriterLooks, WriterAlive, Reportable
  <2>3. InShutdown' /\ failure' # "idle"
    BY Zenon DEF InShutdown, Quiet, Reportable
  <2> QED
    BY Zenon, <2>1, <2>2, <2>3
<1>12. CASE Forward
  <2>1. /\ wpc = "forward"
        /\ UNCHANGED <<WriterKeeps, ingress, barrier, durable, pending, batch, mode, progress>>
    BY Zenon, <1>12 DEF Forward, Fail
  <2>2. \/ /\ recv["internal"] = "open" /\ remaining > 0 /\ remaining' = remaining - 1
           /\ internal' = Append(internal, request) /\ wpc' = "admit" /\ UNCHANGED <<dropVars, failure>>
        \/ /\ failure' \in {"shutdown", "exhausted"} /\ (failure' = "shutdown" => requested)
           /\ wpc' = "failed" /\ UNCHANGED <<internal, remaining>>
    BY <1>12 DEF Forward, Fail
  <2>3. inflight' \in BOOLEAN
    BY Zenon, <1>12 DEF Forward, Fail, dropVars, Fields
  <2>4. remaining \in Nat /\ Len(ingress) \in Nat /\ internal \in Seq(Nat) /\ request \in Nat
    BY ChannelOf DEF IInv, Types, Fields
  <2>5. remaining' \in Nat /\ Len(internal') + remaining' = Len(internal) + remaining
    <3>1. Len(internal) \in Nat /\ Len(Append(internal, request)) = Len(internal) + 1
      BY <2>4
    <3>2. CASE remaining > 0 /\ remaining' = remaining - 1 /\ internal' = Append(internal, request)
      BY <2>4, <3>1, <3>2
    <3>3. CASE UNCHANGED <<internal, remaining>>
      BY <2>4, <3>3
    <3> QED
      BY Zenon, <2>2, <3>2, <3>3
  <2>6. Fields'
    BY Zenon, <2>1, <2>3, <2>5 DEF Fields, WriterKeeps, producerVars, shutdownVars
  <2>7. NumbersLeft'
    <3>1. Len(internal) \in Nat /\ Len(internal') \in Nat
      BY ChannelOf DEF IInv, Types
    <3>2. Len(ingress') + Len(internal') + remaining' = Len(ingress) + Len(internal) + remaining
      BY <2>1, <2>4, <2>5, <3>1
    <3> QED
      BY Zenon, <2>1, <3>2 DEF NumbersLeft, WriterKeeps
  <2>8. ~clean \/ (flush # "done" /\ spc \notin {"request", "joining", "stopped"})
    BY <2>1 DEF InShutdown, Quiet
  <2>9. EndedIsEmpty' /\ WriterLooks'
    BY <2>1, <2>2 DEF EndedIsEmpty, WriterLooks, WriterAlive, Reportable, WriterKeeps,
       producerVars, shutdownVars, dropVars
  <2>10. InShutdown' /\ failure' # "idle"
    BY <2>1, <2>2, <2>8 DEF InShutdown, Quiet, Reportable, WriterKeeps, producerVars,
       shutdownVars, dropVars
  <2> QED
    BY Zenon, <2>6, <2>7, <2>9, <2>10
<1>13. CASE AdmitBarrier
  <2>1. /\ wpc = "admit"
        /\ UNCHANGED <<phase, producerVars, ingress, internal, recv, next, closed, remaining, durable,
                       pending, batch, shutdownVars, mode, progress>>
    BY Zenon, <1>13 DEF AdmitBarrier, Fail
  <2>2. \/ /\ queries' = Append(queries, "barrier") /\ barrier' = "sent" /\ wpc' = "barrier"
           /\ UNCHANGED <<dropVars, failure>>
        \/ requested /\ failure' = "shutdown" /\ wpc' = "failed" /\ UNCHANGED <<queries, barrier>>
    BY Zenon, <1>13 DEF AdmitBarrier, Fail
  <2>3. inflight' \in BOOLEAN
    BY Zenon, <1>13 DEF AdmitBarrier, Fail, dropVars, Fields
  <2>4. queries' \in Seq({"barrier", "close"})
    BY <2>2, ChannelOf DEF Fields
  <2>5. Fields' /\ NumbersLeft'
    BY Zenon, <2>1, <2>3, <2>4 DEF Fields, NumbersLeft, producerVars, shutdownVars
  <2>6. ~clean \/ (flush # "done" /\ spc \notin {"request", "joining", "stopped"})
    BY <2>1 DEF InShutdown, Quiet
  <2>7. EndedIsEmpty' /\ WriterLooks'
    BY <2>1, <2>2 DEF EndedIsEmpty, WriterLooks, WriterAlive, Reportable, producerVars,
       shutdownVars, dropVars
  <2>8. InShutdown' /\ failure' # "idle"
    BY <2>1, <2>2, <2>6 DEF InShutdown, Quiet, Reportable, producerVars, shutdownVars,
       dropVars
  <2> QED
    BY Zenon, <2>5, <2>7, <2>8
<1>14. CASE Acknowledge
  <2> USE <1>14 DEF Acknowledge, WriterKeeps, producerVars, dropVars, shutdownVars, Resume
  <2>1. Fields' /\ NumbersLeft'
    BY Zenon DEF Fields, NumbersLeft
  <2>2. EndedIsEmpty' /\ WriterLooks'
    BY Zenon DEF EndedIsEmpty, WriterLooks, WriterAlive, Reportable
  <2>3. InShutdown' /\ failure' # "idle"
    BY Zenon DEF InShutdown, Quiet, Reportable
  <2> QED
    BY Zenon, <2>1, <2>2, <2>3
<1> QED
  BY Zenon, <1>1, <1>2, <1>3, <1>4, <1>5, <1>6, <1>7, <1>8, <1>9, <1>10, <1>11, <1>12,
     <1>13, <1>14
     DEF Writer

LEMMA ShutdownHasAReason ==
  ASSUME IInv, RInv, Shutdown \/ CloseDeadline
  PROVE  RInv'
<1> USE DEF RInv
<1>1. CASE CloseIngress
  <2>1. queries' \in Seq({"barrier", "close"})
    BY <1>1, ChannelOf DEF CloseIngress, Fields
  <2> USE <1>1, <2>1 DEF CloseIngress, ShutdownKeeps, producerVars, recorderVars, dropVars,
      writerVars
  <2>2. Fields' /\ NumbersLeft'
    BY Zenon DEF Fields, NumbersLeft
  <2>3. EndedIsEmpty' /\ WriterLooks'
    BY Zenon DEF EndedIsEmpty, WriterLooks, WriterAlive, Reportable
  <2>4. InShutdown' /\ failure' # "idle"
    BY Zenon DEF InShutdown, Quiet, Reportable
  <2> QED
    BY Zenon, <2>2, <2>3, <2>4
<1>2. CASE IngressClosed
  <2> USE <1>2 DEF IngressClosed, ShutdownKeeps, producerVars, recorderVars, dropVars,
      writerVars
  <2>1. Fields' /\ NumbersLeft'
    BY Zenon DEF Fields, NumbersLeft
  <2>2. EndedIsEmpty' /\ WriterLooks'
    BY Zenon DEF EndedIsEmpty, WriterLooks, WriterAlive, Reportable
  <2>3. InShutdown' /\ failure' # "idle"
    BY DEF InShutdown, Quiet, Reportable, EndedIsEmpty
  <2> QED
    BY Zenon, <2>1, <2>2, <2>3
<1>3. CASE SendFlush
  <2>1. flush = "none" /\ mode # "flush"
    BY <1>3 DEF SendFlush, InShutdown
  <2> USE <1>3, <2>1 DEF SendFlush, ShutdownKeeps, producerVars, recorderVars, dropVars,
      writerVars
  <2>2. Fields' /\ NumbersLeft'
    BY Zenon DEF Fields, NumbersLeft
  <2>3. EndedIsEmpty' /\ WriterLooks'
    BY Zenon DEF EndedIsEmpty, WriterLooks, WriterAlive, Reportable
  <2>4. InShutdown' /\ failure' # "idle"
    BY Zenon DEF InShutdown, Quiet, Reportable
  <2> QED
    BY Zenon, <2>2, <2>3, <2>4
<1>4. CASE Flushed
  <2> USE <1>4 DEF Flushed, ShutdownKeeps, producerVars, recorderVars, dropVars, writerVars
  <2>1. Fields' /\ NumbersLeft'
    BY Zenon DEF Fields, NumbersLeft
  <2>2. EndedIsEmpty' /\ WriterLooks'
    BY Zenon DEF EndedIsEmpty, WriterLooks, WriterAlive, Reportable
  <2>3. InShutdown' /\ failure' # "idle"
    BY Zenon DEF InShutdown, Quiet, Reportable
  <2> QED
    BY Zenon, <2>1, <2>2, <2>3
<1>5. CASE RequestShutdown
  <2> USE <1>5 DEF RequestShutdown, ShutdownKeeps, producerVars, recorderVars, dropVars,
      writerVars
  <2>1. Fields' /\ NumbersLeft'
    BY Zenon DEF Fields, NumbersLeft
  <2>2. EndedIsEmpty' /\ WriterLooks'
    BY Zenon DEF EndedIsEmpty, WriterLooks, WriterAlive, Reportable
  <2>3. InShutdown' /\ failure' # "idle"
    BY Zenon DEF InShutdown, Quiet, Reportable
  <2> QED
    BY Zenon, <2>1, <2>2, <2>3
<1>6. CASE Joined
  <2> USE <1>6 DEF Joined, ShutdownKeeps, producerVars, recorderVars, dropVars, writerVars
  <2>1. Fields' /\ NumbersLeft'
    BY Zenon DEF Fields, NumbersLeft
  <2>2. EndedIsEmpty' /\ WriterLooks'
    BY Zenon DEF EndedIsEmpty, WriterLooks, WriterAlive, Reportable
  <2>3. InShutdown' /\ failure' # "idle"
    BY Zenon DEF InShutdown, Quiet, Reportable
  <2> QED
    BY Zenon, <2>1, <2>2, <2>3
<1>7. CASE CloseDeadline
  <2> USE <1>7 DEF CloseDeadline, ShutdownKeeps, producerVars, recorderVars, dropVars,
      writerVars
  <2>1. Fields' /\ NumbersLeft'
    BY Zenon DEF Fields, NumbersLeft
  <2>2. EndedIsEmpty' /\ WriterLooks'
    BY Zenon DEF EndedIsEmpty, WriterLooks, WriterAlive, Reportable
  <2>3. InShutdown' /\ failure' # "idle"
    BY Zenon DEF InShutdown, Quiet, Reportable
  <2> QED
    BY Zenon, <2>1, <2>2, <2>3
<1> QED
  BY Zenon, <1>1, <1>2, <1>3, <1>4, <1>5, <1>6, <1>7 DEF Shutdown

LEMMA FaultsHaveAReason ==
  ASSUME IInv, RInv, BarrierDeadline \/ IoError \/ Crash \/ Exit \/ UNCHANGED vars
  PROVE  RInv'
<1> USE DEF RInv
<1>1. CASE BarrierDeadline
  <2> USE <1>1 DEF BarrierDeadline, WriterKeeps, producerVars, dropVars, shutdownVars, Fail
  <2>1. Fields' /\ NumbersLeft'
    BY Zenon DEF Fields, NumbersLeft
  <2>2. EndedIsEmpty' /\ WriterLooks'
    BY Zenon DEF EndedIsEmpty, WriterLooks, WriterAlive, Reportable
  <2>3. InShutdown' /\ failure' # "idle"
    BY Zenon DEF InShutdown, Quiet, Reportable
  <2> QED
    BY Zenon, <2>1, <2>2, <2>3
<1>2. CASE IoError
  <2> USE <1>2 DEF IoError, WriterKeeps, producerVars, dropVars, shutdownVars, Fail
  <2>1. Fields' /\ NumbersLeft'
    BY Zenon DEF Fields, NumbersLeft
  <2>2. EndedIsEmpty' /\ WriterLooks'
    BY Zenon DEF EndedIsEmpty, WriterLooks, WriterAlive, Reportable
  <2>3. InShutdown' /\ failure' # "idle"
    BY Zenon DEF InShutdown, Quiet, Reportable
  <2> QED
    BY Zenon, <2>1, <2>2, <2>3
<1>3. CASE Crash \/ Exit
  <2>1. phase' = "down" /\ Cleared /\ Stopped
    BY Zenon, <1>3 DEF Crash, Exit
  <2>2. << >> \in Seq(Levels) /\ << >> \in Seq({"barrier", "close"})
    OBVIOUS
  <2>3. Fields'
    BY Zenon, <2>1, <2>2 DEF Fields, Cleared, Stopped, Channels
  <2> QED
    BY <2>1, <2>3
       DEF NumbersLeft, EndedIsEmpty, WriterLooks, WriterAlive, InShutdown, Cleared,
           Stopped, Channels
<1>4. CASE UNCHANGED vars
  <2> USE <1>4 DEF vars, producerVars, channelVars, recorderVars, dropVars, writerVars,
      shutdownVars
  <2>1. Fields' /\ NumbersLeft'
    BY Zenon DEF Fields, NumbersLeft
  <2>2. EndedIsEmpty' /\ WriterLooks'
    BY Zenon DEF EndedIsEmpty, WriterLooks, WriterAlive, Reportable
  <2>3. InShutdown' /\ failure' # "idle"
    BY Zenon DEF InShutdown, Quiet, Reportable
  <2> QED
    BY Zenon, <2>1, <2>2, <2>3
<1> QED
  BY Zenon, <1>1, <1>2, <1>3, <1>4

LEMMA InitHasAReason ==
  ASSUME Init
  PROVE  RInv
<1>1. << >> \in Seq(Levels) /\ << >> \in Seq({"barrier", "close"})
  OBVIOUS
<1>2. Fields
  BY Zenon, <1>1 DEF Init, Blank, Halted, Fields, Channels
<1> QED
  BY <1>2
     DEF Init, Blank, Halted, RInv, NumbersLeft, EndedIsEmpty, WriterLooks, WriterAlive,
         InShutdown,
         Quiet, Channels

\* The writer thread of the diagnostics returns an error only for a reason: whatever is
\* recorded, dropped, flushed and shut down in whatever order, its batched work never finds
\* nothing to do, a drop summary is refused for a shutdown only when an earlier step of that
\* shutdown failed, and no accepted event is left without a number
\* (wait_process_next_batched, forward_drop_summary, try_reserve_sequence).
THEOREM DiagnosticWriterFailsForAReason == Spec => []WriterFailsForAReason
<1>1. Init => IInv /\ RInv
  BY InitIsIn, InitHasAReason
<1>2. IInv /\ RInv /\ [Next]_vars => IInv' /\ RInv'
  <2> SUFFICES ASSUME IInv, RInv, [Next]_vars
               PROVE  IInv' /\ RInv'
    OBVIOUS
  <2>1. IInv'
    BY StepKeeps
  <2>2. RInv'
    BY Zenon, <2>1, StartHasAReason, ProducersHaveAReason, RecorderHasAReason,
       WriterHasAReason,
       ShutdownHasAReason, FaultsHaveAReason DEF Next
  <2> QED
    BY <2>1, <2>2
<1>3. IInv /\ RInv => WriterFailsForAReason
  <2> SUFFICES ASSUME IInv, RInv
               PROVE  WriterFailsForAReason
    OBVIOUS
  <2>1. phase = "up" /\ next = 0 => ingress = <<>> /\ internal = <<>>
    BY ChannelOf DEF IInv, RInv, Types, Fields, NumbersLeft
  <2> QED
    BY <2>1 DEF WriterFailsForAReason, EveryEventGetsItsNumber, NumbersLeft, RInv,
       InShutdown
<1> QED
  BY <1>1, <1>2, <1>3, PTL DEF Spec
=============================================================================
