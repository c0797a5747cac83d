------------------------------ MODULE CodexScan ------------------------------
(***************************************************************************)
(* The Codex session scanner: it reads JSONL files that another program    *)
(* writes, truncates, rewrites, moves away and restores, and keeps the     *)
(* Session tables of SessionFiles up to date, one transaction at a time.   *)
(* The process may die between any two transactions.                       *)
(*                                                                         *)
(* A file is an identity, a body (its contents, numbered) and a size.  A   *)
(* line takes LineBytes units, so a size that is no multiple of LineBytes  *)
(* ends in an incomplete line.  Line 1 is the session_meta record, every   *)
(* later line is a token count and gives one usage row.  Sources are       *)
(* enumerated in the order of their numbers, and a file keeps its path.    *)
(* Forked sessions and the replay limit are in ForkedSessions, the budget  *)
(* that spreads the enumeration over several slices in SessionDiscovery;   *)
(* titles are left out.                                                    *)
(***************************************************************************)
EXTENDS SessionFiles

CONSTANTS
  Malformed,      \* bodies whose MalformedLine does not parse
  MalformedLine

ASSUME MalformedAssumption == Malformed \subseteq 1..MaxBody

-----------------------------------------------------------------------------
(* Files.                                                                  *)

HasMeta(f)  == f.exists /\ Lines(f.size) >= 1

\* fingerprints_with_extent: the head fingerprint, all padding in an empty file, and how
\* far past the offset the boundary fingerprint reaches.
HeadPrint(f) == IF f.size = 0 THEN 0 ELSE f.body
Boundary(f, offset, extent) == Min({offset + Window, extent, f.size})

\* The usage rows of the lines after `from` up to `to`.
Rows(g, body, from, to) ==
  {[generation |-> g, body |-> body, line |-> l, revision |-> l] : l \in (Max({from, 1}) + 1)..to}

\* The index row of a generation; the lines of these files are no messages.
IndexRow(g, count) == [generation |-> g, messages |-> 0, usage |-> count]

-----------------------------------------------------------------------------
(* The cycle: discover the sources, then process each of them.             *)

StartSlice ==
  /\ ~slice.open
  /\ \E stop \in Controls : slice' = [Closed EXCEPT !.open = TRUE, !.stop = stop]
  /\ cycle' = IF cycle.phase # "none" THEN cycle
              ELSE [NoCycle EXCEPT !.phase = "discovering",
                                   !.persisted = {s \in Sources : store[s].status # "unrecorded"}]
  /\ UNCHANGED <<file, faults, store, proc>>

\* Inspects every file and marks the sources whose file is gone.
Discover ==
  LET found == {s \in Sources : file[s].exists}
  IN /\ slice.open /\ cycle.phase = "discovering"
     /\ cycle' = [cycle EXCEPT !.phase = "processing", !.persisted = {},
                    !.found = [s \in found |-> [id |-> file[s].id, meta |-> HasMeta(file[s])]]]
     /\ store' = [s \in Sources |-> IF s \in cycle.persisted \ found
                                    THEN Fail(store[s], "absent") ELSE store[s]]
     /\ slice' = Closed
     /\ UNCHANGED <<file, faults, proc>>

\* The inspected files that are not processed yet, and those of them that the enumeration
\* meets again at their path.
Unprocessed == DOMAIN cycle.found \ cycle.processed
Pending == {s \in Unprocessed : file[s].exists /\ file[s].id = cycle.found[s].id}

\* process_codex_slice_source, up to the first transaction of process_source.  A file that
\* went away since this slice enumerated it cannot be opened.
StartSource ==
  /\ slice.open /\ cycle.phase = "processing" /\ proc.pc = "idle"
  /\ \E s \in Unprocessed :
       LET open == [Idle EXCEPT !.src = s, !.size = file[s].size]
           fail(code) == [open EXCEPT !.pc = "fail", !.code = code, !.outcome = "failed"]
       IN /\ s \in Pending => s = Min(Pending)
          /\ proc' = IF ~cycle.found[s].meta THEN fail("parse")
                     ELSE IF s \notin Pending THEN fail("io")
                     ELSE [open EXCEPT !.pc = IF store[s].retired # None THEN "cleanup"
                                                                        ELSE "decide"]
  /\ UNCHANGED <<file, faults, store, cycle, slice>>

EndCycle ==
  /\ slice.open /\ cycle.phase = "processing" /\ proc.pc = "idle" /\ Pending = {}
  /\ cycle' = NoCycle /\ slice' = Closed
  /\ UNCHANGED <<file, faults, store, proc>>

-----------------------------------------------------------------------------
(* process_source.                                                         *)

CleanupBefore ==
  LET out == Cleanup(source, source.retired)
  IN /\ At("cleanup") /\ Scanning
     /\ Write(out.source)
     /\ IF out.complete
        THEN /\ proc' = [proc EXCEPT !.pc = "decide", !.cleaned = TRUE]
             /\ UNCHANGED <<cycle, slice>>
        ELSE FailWith("interrupted", "cleanup_pending")

\* The file still matches the cursor's identity and fingerprints.
Matches(c) ==
  /\ c.id = file[src].id /\ c.body = HeadPrint(file[src])
  /\ c.upto = Boundary(file[src], c.offset, c.observed)

\* The current generation already holds the whole file.
Unchanged(c) ==
  /\ Matches(c) /\ c.observed = proc.size /\ c.result = "advanced"
  /\ source.status = "available" \/ source.error \in {"absent", "interrupted"}

\* The fault of comparing sizes only.
Shrunk(c) == proc.size < c.offset

Replaced(c) == proc.size < c.offset \/ ~Matches(c)

CountOf(g) == LET rows == {i \in source.index : i.generation = g}
              IN IF rows = {} THEN 0 ELSE Max({i.usage : i \in rows})

Decide ==
  /\ At("decide") /\ Scanning
  /\ IF proc.changed THEN FailWith("io", "failed") /\ Quiet
     ELSE IF source.current = None
     THEN /\ proc' = [proc EXCEPT !.pc = "prepare", !.candidate = TRUE, !.generation = 1]
          /\ UNCHANGED <<cycle, slice>> /\ Quiet
     ELSE LET c == source.cursors[source.current]
          IN IF Unchanged(c)
             THEN /\ IF source.status # "available" \/ source.error # "none"
                     THEN Write(RecordSuccess(source, source.current).source) ELSE Quiet
                  /\ Finish("unchanged")
             ELSE /\ proc' = IF Replaced(c)
                             THEN [proc EXCEPT !.pc = "prepare", !.candidate = TRUE,
                                               !.generation = source.current + 1]
                             ELSE [proc EXCEPT !.pc = "parse", !.generation = source.current,
                                               !.count = CountOf(source.current)]
                  /\ UNCHANGED <<cycle, slice>> /\ Quiet

FreshCursor ==
  [id |-> file[src].id, body |-> HeadPrint(file[src]), observed |-> proc.size, offset |-> 0,
   upto |-> Boundary(file[src], 0, proc.size), result |-> "deferred"]

\* prepare_candidate_cursor: resume a staging generation that still fits the file, delete
\* one that does not (one cleanup per source and cycle), or begin a new one.
CanResume == /\ source.staging = proc.generation
             /\ proc.size >= cursor.offset
             /\ Matches(cursor)

Prepare ==
  /\ At("prepare") /\ Scanning
  /\ IF proc.changed THEN FailWith("io", "failed") /\ Quiet
     ELSE IF source.staging # None /\ CanResume
     THEN /\ proc' = [proc EXCEPT !.pc = "parse",
                        !.count = IF cursor.offset = 0 THEN 0 ELSE CountOf(proc.generation)]
          /\ UNCHANGED <<cycle, slice>> /\ Quiet
     ELSE IF source.staging # None
     THEN IF proc.cleaned THEN FailWith("interrupted", "cleanup_pending") /\ Quiet
          ELSE LET out == Cleanup(source, source.staging)
               IN /\ Write(out.source)
                  /\ IF out.complete
                     THEN proc' = [proc EXCEPT !.cleaned = TRUE] /\ UNCHANGED <<cycle, slice>>
                     ELSE FailWith("interrupted", "cleanup_pending")
     ELSE /\ Write(BeginOrResume(source, proc.generation, FreshCursor).source)
          /\ proc' = [proc EXCEPT !.pc = "parse", !.count = 0]
          /\ UNCHANGED <<cycle, slice>>

\* One batch: the complete lines after the cursor, until BatchRows rows are pending or
\* the file ends; the batch at the end of the file is terminal.
Parse ==
  LET from == Lines(cursor.offset)
      to   == Min({Lines(proc.size), Max({from, 1}) + BatchRows})
      rows == Rows(proc.generation, file[src].body, from, to)
      terminal == Cardinality(rows) < BatchRows
      new  == [cursor EXCEPT !.observed = proc.size, !.offset = to * LineBytes,
                             !.upto = Boundary(file[src], to * LineBytes, proc.size),
                             !.id = file[src].id, !.body = HeadPrint(file[src]),
                             !.result = IF terminal THEN "advanced" ELSE "deferred"]
      count == proc.count + Cardinality(rows)
      out  == CommitBatch(source, IF proc.candidate THEN "staging" ELSE "current",
                          new, IndexRow(proc.generation, count), rows)
      committed == slice.committed + 1
  IN /\ At("parse") /\ Scanning
     /\ IF proc.changed THEN FailWith("io", "failed") /\ Quiet
        ELSE IF file[src].body \in Malformed /\ MalformedLine \in (from + 1)..to
        THEN FailWith("parse", "failed") /\ Quiet
        ELSE IF ~out.ok THEN Abort /\ Quiet
        ELSE /\ Write(out.source)
             /\ UNCHANGED cycle
             /\ slice' = [slice EXCEPT !.committed = committed]
             /\ proc' = IF slice.stop # 0 /\ committed >= slice.stop
                        THEN [proc EXCEPT !.pc = "fail", !.code = "interrupted",
                                          !.outcome = "interrupted"]
                        ELSE [proc EXCEPT !.pc = IF terminal THEN "publish" ELSE "parse",
                                          !.count = count]

\* The pointer flip of a candidate, or the success of an append.
Publish ==
  LET out == IF proc.candidate THEN Promote(source, proc.generation)
                               ELSE RecordSuccess(source, proc.generation)
  IN /\ At("publish") /\ Scanning
     /\ Write(out.source)
     /\ IF out.ok
        THEN IF out.source.retired # None THEN Goto("retire") ELSE Finish("advanced")
        ELSE Abort

CleanupAfter ==
  /\ At("retire") /\ Scanning
  /\ IF proc.cleaned THEN FailWith("interrupted", "cleanup_pending") /\ Quiet
     ELSE LET out == Cleanup(source, source.retired)
          IN /\ Write(out.source)
             /\ IF out.complete THEN Finish("advanced")
                                ELSE FailWith("interrupted", "cleanup_pending")

\* fail_candidate, or record_source_failure: a source that has no generation yet gets a
\* staging one to carry the failure, unless its file is gone.
RecordFailure ==
  /\ At("fail") /\ Scanning
  /\ IF source.current # None \/ source.staging # None
     THEN Write(Fail(source, proc.code)) /\ Finish(proc.outcome)
     ELSE IF file[src].exists /\ file[src].id = cycle.found[src].id
     THEN /\ Write(BeginOrResume(source, 1,
                     [FreshCursor EXCEPT !.observed = file[src].size,
                                         !.upto = Boundary(file[src], 0, file[src].size)]).source)
          /\ UNCHANGED <<cycle, slice, proc>>
     ELSE Quiet /\ Finish(proc.outcome)

-----------------------------------------------------------------------------
Scan == \/ StartSlice \/ Discover \/ StartSource \/ EndCycle
        \/ CleanupBefore \/ Decide \/ Prepare \/ Parse \/ Publish \/ CleanupAfter
        \/ RecordFailure

Next == Disturb \/ Scan

\* The scheduler dispatches slices as long as the service runs.
Spec == Init /\ [][Next]_vars /\ WF_vars(Scan)

\* The same with files that are cut off and may grow again to what they were.
TruncatingSpec ==
  Init /\ [][Next \/ \E s \in Disturbed : Truncate(s)]_vars /\ WF_vars(Scan)

-----------------------------------------------------------------------------
(* Properties.                                                             *)

\* What readers see is whole: the current generation holds the usage rows of exactly the
\* complete lines before its cursor's offset, all read from one body of the file, and the
\* index row counts them.
PublishedIsWhole ==
  \A s \in Sources :
    LET x == store[s] g == store[s].current IN
    g # None =>
      LET c == x.cursors[g] rows == UsageOf(x, g) IN
      /\ rows = Rows(g, c.body, 0, Lines(c.offset))
      /\ {i \in x.index : i.generation = g} = {IndexRow(g, Cardinality(rows))}

Holds(s) ==
  LET x == store[s] IN
  /\ x.status = "available"
  /\ UsageOf(x, x.current) = Rows(x.current, file[s].body, 0, Lines(file[s].size))

WellFormed(f) == HasMeta(f) /\ ~(f.body \in Malformed /\ Lines(f.size) >= MalformedLine)

Indexed(s) == WellFormed(file[s]) => Holds(s) /\ Pointed(store[s]) = {store[s].current}

\* Every well-formed session file that stays is indexed in the end, whatever the other
\* files contain, and superseded rows go: once the files no longer change, the source is
\* available, its current generation holds every complete line of the file, and neither
\* a staging nor a retired generation is left.
FilesAreIndexed == \A s \in Sources : <>[]Indexed(s)
=============================================================================
