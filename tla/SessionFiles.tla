----------------------------- MODULE SessionFiles -----------------------------
(***************************************************************************)
(* What the three session scanners share: the Session tables of the state  *)
(* database, the files that another program writes, and the frame of a     *)
(* scanner - a slice that runs, the cycle it belongs to, and the source    *)
(* being processed.  A file is an identity, a body (its contents,          *)
(* numbered) and a size; a line takes LineBytes units.                     *)
(*                                                                         *)
(* Every transaction of the store is a function of the rows of one source; *)
(* the scanner applies it atomically.  A source has three generation       *)
(* pointers (0 is NULL): the current generation is what readers see, the   *)
(* staging one is being written, the retired one waits for its rows to be  *)
(* deleted.                                                                *)
(*                                                                         *)
(* A cursor stands for a row of session_scan_cursors: the identity and     *)
(* contents of the file it was read from ("id", "body": file identity and  *)
(* head fingerprint), how much of the file had been seen and parsed, how   *)
(* far the boundary fingerprint reaches ("upto"), and the result code; the *)
(* scanners that parse whole files add what they have emitted.             *)
(* Index and usage rows are sets of records.  Timestamps and the row sizes *)
(* in bytes are left out; the replay signatures of forked sessions are in  *)
(* ForkedSessions.                                                         *)
(***************************************************************************)
EXTENDS Integers, FiniteSets, FiniteSetsExt

CONSTANT CleanupRows       \* MAX_SESSION_BATCH_ROWS of a cleanup

ASSUME CleanupRowsAssumption == CleanupRows \in Nat \ {0}

CONSTANTS
  Sources,        \* source keys, a set of numbers
  Disturbed,      \* those whose files change
  LineBytes,      \* units of a line
  Window,         \* units the boundary fingerprint reaches past the offset
  MaxSize,        \* bound: units of a file
  MaxBody,        \* bound: contents a file may have
  FirstBodies,    \* those it may have at first
  BatchRows,      \* SESSION_BATCH_ROW_TARGET
  Controls,       \* values of stop_after_committed_batches, 0 is None
  Faults,         \* what may happen to the files and the process
  MaxFaults       \* bound: how often

ASSUME ScanAssumption ==
  /\ Sources \subseteq Nat /\ Disturbed \subseteq Sources
  /\ {LineBytes, Window, MaxSize, MaxBody, BatchRows} \subseteq Nat \ {0}
  /\ Controls \subseteq Nat /\ FirstBodies \subseteq 1..MaxBody

VARIABLES
  file,           \* the session files
  faults,         \* how many changes the files and the process have seen
  store,          \* the Session tables, by source
  cycle,          \* slice_cycle of the scanner
  slice,          \* the scan_slice call that runs
  proc            \* process_source: the source it works on and its locals

-----------------------------------------------------------------------------
(* The tables.                                                             *)

None == 0

\* No row in session_sources.
Unrecorded ==
  [current |-> None, staging |-> None, retired |-> None, status |-> "unrecorded",
   error |-> "none", cursors |-> << >>, index |-> {}, usage |-> {}]

With(f, g, c) == [x \in DOMAIN f \cup {g} |-> IF x = g THEN c ELSE f[x]]
Without(f, g) == [x \in DOMAIN f \ {g} |-> f[x]]

\* A transaction that fails leaves the tables alone.
Done(source)   == [ok |-> TRUE, source |-> source]
Failed(source) == [ok |-> FALSE, source |-> source]

SameFile(c, d) == c.id = d.id /\ c.body = d.body

Resumable(persisted, cursor) ==
  /\ SameFile(persisted, cursor)
  /\ persisted.upto = cursor.upto
  /\ cursor.observed >= persisted.offset

\* begin_or_resume_candidate: "cleanup" names a generation to delete first.
BeginOrResume(source, g, cursor) ==
  LET Start == [source EXCEPT !.staging = g,
                              !.status = IF @ = "unrecorded" THEN "undiscovered" ELSE @,
                              !.cursors = With(@, g, cursor)]
  IN CASE source.retired # None ->
            [out |-> "cleanup", generation |-> source.retired, source |-> source]
       [] source.retired = None /\ source.staging # None ->
            [out |-> IF source.staging = g /\ Resumable(source.cursors[g], cursor)
                     THEN "resumed" ELSE "cleanup",
             generation |-> source.staging, source |-> source]
       [] source.retired = None /\ source.staging = None /\ source.current = g ->
            [out |-> "conflict", generation |-> g, source |-> source]
       [] OTHER -> [out |-> "started", generation |-> g, source |-> Start]

\* upsert_cursor: what a later cursor of the same generation may change.
CursorAdvances(old, new) ==
  \/ old = new
  \/ /\ SameFile(old, new)
     /\ new.observed >= old.observed
     /\ new.offset >= old.offset
     /\ new.upto = old.upto \/ new.offset > old.offset

\* A usage row is keyed by its generation and the line or message it is of.
SameUsage(u, v) == u.generation = v.generation /\ u.line = v.line

\* write_index_record and write_usage_record: what a row that is already there allows.
IndexAccepts(source, row) ==
  \A i \in source.index :
    i.generation = row.generation => row.messages >= i.messages /\ row.usage >= i.usage
UsageAccepts(source, row) ==
  \A u \in source.usage :
    SameUsage(u, row) => u = row \/ row.revision > u.revision

UsageWritten(usage, rows) ==
  {u \in usage : \A r \in rows : ~SameUsage(u, r)} \cup rows
IndexWritten(index, row) == {i \in index : i.generation # row.generation} \cup {row}

\* commit_session_batch_internal: the cursor, the index row and the usage rows at once.
CommitBatch(source, pointer, cursor, row, usage) ==
  LET g == row.generation
  IN IF /\ source[pointer] = g
        /\ CursorAdvances(source.cursors[g], cursor)
        /\ IndexAccepts(source, row)
        /\ \A u \in usage : UsageAccepts(source, u)
     THEN Done([source EXCEPT !.cursors[g] = cursor,
                              !.index = IndexWritten(@, row),
                              !.usage = UsageWritten(@, usage)])
     ELSE Failed(source)

\* promote_candidate: one transaction flips the pointers.
Promote(source, g) ==
  IF source.staging = g /\ source.retired = None /\ g \in DOMAIN source.cursors
  THEN Done([source EXCEPT !.current = g, !.staging = None, !.retired = source.current,
                           !.status = "available", !.error = "none"])
  ELSE Failed(source)

\* failed_source_status.
FailedStatus(source) == IF source.current # None THEN "stale" ELSE "unavailable"

\* fail_candidate and mark_source_unavailable.
Fail(source, code) == [source EXCEPT !.status = FailedStatus(source), !.error = code]

\* record_source_success.
RecordSuccess(source, g) ==
  IF source.current = g
  THEN Done([source EXCEPT !.status = "available", !.error = "none"])
  ELSE Failed(source)

\* The rows of one generation, as the cleanup selects them.
RowsOf(rows, g) == {r \in rows : r.generation = g}

\* The fault of a cleanup that takes its row limit for the end of the rows.
EmptiedAtTheLimit(left, deleted) == TRUE

\* Nothing is left, and the transaction has a row to spare for the cursor.
Emptied(left, deleted) == left = {} /\ deleted < CleanupRows

\* cleanup_generation_batch: at most CleanupRows rows, the index row first, then the
\* usage rows in the order they were written; the cursor and the pointer go last.
Cleanup(source, g) ==
  LET index  == RowsOf(source.index, g)
      usage  == RowsOf(source.usage, g)
      wanted == Min({Cardinality(usage), CleanupRows - Cardinality(index)})
      gone   == {u \in usage : Cardinality({v \in usage : v.line <= u.line}) <= wanted}
      whole  == Emptied(usage \ gone, Cardinality(index) + wanted)
  IN IF source.current = g \/ g \notin {source.staging, source.retired}
     THEN [ok |-> FALSE, complete |-> FALSE, source |-> source]
     ELSE [ok |-> TRUE, complete |-> whole,
           source |-> [source EXCEPT
             !.index = @ \ index,
             !.usage = @ \ gone,
             !.cursors = IF whole THEN Without(@, g) ELSE @,
             !.staging = IF whole /\ source.staging = g THEN None ELSE @,
             !.retired = IF whole /\ source.staging # g THEN None ELSE @]]

-----------------------------------------------------------------------------
(* The files and the frame.                                                *)

vars == <<file, faults, store, cycle, slice, proc>>

NoCycle == [phase |-> "none", persisted |-> {}, found |-> << >>, processed |-> {}, pos |-> 0]
Idle    == [pc |-> "idle", src |-> -1, size |-> 0, changed |-> FALSE,
            candidate |-> FALSE, generation |-> None, count |-> 0, cleaned |-> FALSE,
            code |-> "none", outcome |-> "none", seen |-> << >>, agg |-> << >>]
Closed  == [open |-> FALSE, stop |-> 0, committed |-> 0, aborted |-> FALSE,
            listed |-> FALSE, entries |-> << >>, ended |-> FALSE]

Lines(size) == size \div LineBytes

\* Every change of a file shows in its metadata: the pinned handle notices it at its next read.
Touched(s) == proc' = IF proc.src = s THEN [proc EXCEPT !.changed = TRUE] ELSE proc

Changed(s, f) ==
  /\ file' = [file EXCEPT ![s] = f]
  /\ Touched(s)
  /\ UNCHANGED <<store, cycle, slice>>

Counted(fault) == fault \in Faults /\ faults < MaxFaults /\ faults' = faults + 1

Grow(s) ==
  /\ file[s].exists /\ file[s].size < MaxSize
  /\ Changed(s, [file[s] EXCEPT !.size = @ + 1])
  /\ UNCHANGED faults

Truncate(s) ==
  /\ Counted("truncate") /\ file[s].exists
  /\ \E n \in 0..file[s].size - 1 : Changed(s, [file[s] EXCEPT !.size = n])

\* Written over in place, or replaced by a file of another identity; sizes between the
\* two are reached by growing.
Rewrite(s) ==
  /\ Counted("rewrite") /\ file[s].exists /\ file[s].body < MaxBody
  /\ \E n \in {LineBytes, MaxSize}, replaced \in BOOLEAN :
        Changed(s, [exists |-> TRUE, size |-> n, body |-> file[s].body + 1,
                    id |-> IF replaced THEN file[s].id + 1 ELSE file[s].id])

MoveAway(s) ==
  /\ Counted("move") /\ file[s].exists
  /\ Changed(s, [file[s] EXCEPT !.exists = FALSE])

MoveBack(s) ==
  /\ ~file[s].exists
  /\ Changed(s, [file[s] EXCEPT !.exists = TRUE])
  /\ UNCHANGED faults

-----------------------------------------------------------------------------
(* The frame of process_source.                                            *)

src    == proc.src
source == store[src]
cursor == source.cursors[proc.generation]

At(pc) == proc.pc = pc

Goto(pc) == proc' = [proc EXCEPT !.pc = pc] /\ UNCHANGED <<cycle, slice>>

\* The failure of a source that is recorded before its processing ends.
FailWith(code, outcome) ==
  /\ proc' = [proc EXCEPT !.pc = "fail", !.code = code, !.outcome = outcome]
  /\ UNCHANGED <<cycle, slice>>

\* An interrupted source ends the slice and will be processed again.
Finish(outcome) ==
  /\ proc' = Idle
  /\ IF outcome = "interrupted"
     THEN slice' = Closed /\ cycle' = [cycle EXCEPT !.pos = 0]
     ELSE cycle' = [cycle EXCEPT !.processed = @ \cup {src}] /\ UNCHANGED slice

\* A storage error ends the slice and forgets the cycle.
Abort ==
  /\ proc' = Idle /\ cycle' = NoCycle /\ slice' = [Closed EXCEPT !.aborted = TRUE]

Write(new) == store' = [store EXCEPT ![src] = new]
Quiet == UNCHANGED store
Scanning == UNCHANGED <<file, faults>>

Crash ==
  /\ Counted("crash") /\ slice.open
  /\ cycle' = NoCycle /\ slice' = Closed /\ proc' = Idle
  /\ UNCHANGED <<file, store>>

Disturb == \/ \E s \in Disturbed : Grow(s) \/ Rewrite(s) \/ MoveAway(s) \/ MoveBack(s)
           \/ Crash

Init ==
  /\ \E n \in {0, MaxSize}, b \in FirstBodies :
        file = [s \in Sources |-> [exists |-> TRUE, id |-> 1, body |-> b,
                                   size |-> IF s \in Disturbed THEN 0 ELSE n]]
  /\ faults = 0
  /\ store = [s \in Sources |-> Unrecorded]
  /\ cycle = NoCycle /\ slice = Closed /\ proc = Idle

-----------------------------------------------------------------------------
(* What holds of the tables, whichever scanner writes them.                *)

Pointed(x) == {x.current, x.staging, x.retired} \ {None}
UsageOf(x, g) == {u \in x.usage : u.generation = g}

\* At every moment, between any two transactions and after any crash, the three pointers
\* name consecutive generations and every cursor, index and usage row belongs to one of
\* them: begin_or_resume_candidate, promote_candidate and cleanup_generation_batch leave
\* no orphan rows and never a pointer without its cursor.
GenerationsAreAccounted ==
  \A s \in Sources :
    LET x == store[s] IN
    /\ DOMAIN x.cursors = Pointed(x)
    /\ \A row \in x.index \cup x.usage : row.generation \in Pointed(x)
    /\ x.staging # None => x.staging = x.current + 1
    /\ x.retired # None => x.retired + 1 = x.current /\ x.staging = None

\* Interrupted candidates and failed source observations preserve the last successful
\* aggregate (MIGRATION.md): no step takes the current generation away, deletes one of its
\* rows, or replaces it by a candidate whose terminal batch is not committed.
KeepsLastAggregate ==
  \A s \in Sources :
    store[s].current # None =>
      \/ /\ store'[s].current = store[s].current
         /\ UsageOf(store[s], store[s].current) \subseteq store'[s].usage
      \/ /\ store'[s].current = store[s].staging
         /\ store[s].cursors[store[s].staging].result = "advanced"
=============================================================================
