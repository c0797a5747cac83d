---------------------------- MODULE WholeFileScan ----------------------------
(***************************************************************************)
(* What the Claude and Gemini scanners have in common: both read a file    *)
(* from its beginning every time it changed, reduce it to one row of usage *)
(* per message, and write these rows in batches into a generation of their *)
(* own.  Text[b] is the sequence of records of body b.                     *)
(*                                                                         *)
(* An aggregate is what the parser made of the file: whether it parses, the*)
(* usage rows in the order of their revisions, the number of messages, the *)
(* offset it reaches and (for Gemini) the hash of the contents.  A cursor  *)
(* has, beyond the fields SessionFiles names, how many rows are emitted,   *)
(* the hash, and the body it was read from, which is what the modification *)
(* time tells apart (two rewrites fall into different seconds).            *)
(* Every slice enumerates the files from where the last one stopped up to  *)
(* a source its budget lets it reach.                                      *)
(***************************************************************************)
EXTENDS SessionFiles, Sequences, SequencesExt

CONSTANT Text

Content(f) == SubSeq(Text[f.body], 1, Lines(f.size))

\* The contents of the units lo + 1 to hi of a file, and the two fingerprints: of the
\* first line, and of Window units on both sides of an offset.
Units(f, lo, hi) == [u \in (lo + 1)..hi |-> Text[f.body][(u - 1) \div LineBytes + 1]]
HeadPrint(f) == Units(f, 0, Min({LineBytes, f.size}))
BoundaryPrint(f, offset, extent) ==
  <<offset, Units(f, Max({0, offset - Window}), Min({offset + Window, extent, f.size}))>>

-----------------------------------------------------------------------------
(* Slices and cycles.                                                      *)

BeginSlice ==
  /\ ~slice.open
  /\ \E stop \in Controls : slice' = [Closed EXCEPT !.open = TRUE, !.stop = stop]
  /\ cycle' = IF cycle.phase # "none" THEN cycle
              ELSE [NoCycle EXCEPT !.phase = "discovering",
                                   !.persisted = {s \in Sources : store[s].status # "unrecorded"}]
  /\ UNCHANGED <<file, faults, store, proc>>

\* The identities of the files between the cycle's position and n.
Enumerated(n) ==
  [s \in {t \in Sources : cycle.pos < t /\ t <= n /\ file[t].exists} |-> file[s].id]

Reach == {n \in Sources : n > cycle.pos}

\* A slice of the discovery; the one that ends it marks the sources whose file is gone.
DiscoverSlice ==
  /\ slice.open /\ cycle.phase = "discovering"
  /\ \E n \in Reach :
       LET found == Enumerated(n) @@ cycle.found
           ended == n = Max(Sources)
       IN /\ cycle' = IF ended THEN [NoCycle EXCEPT !.phase = "processing", !.found = found]
                               ELSE [cycle EXCEPT !.found = found, !.pos = n]
          /\ store' = [s \in Sources |-> IF ended /\ s \in cycle.persisted \ DOMAIN found
                                         THEN Fail(store[s], "absent") ELSE store[s]]
  /\ slice' = Closed
  /\ UNCHANGED <<file, faults, proc>>

\* The enumeration of a slice that processes.
ListSlice ==
  /\ slice.open /\ cycle.phase = "processing" /\ ~slice.listed
  /\ \E n \in Reach : /\ slice' = [slice EXCEPT !.listed = TRUE, !.entries = Enumerated(n),
                                                !.ended = n = Max(Sources)]
                      /\ cycle' = [cycle EXCEPT !.pos = n]
  /\ UNCHANGED <<file, faults, store, proc>>

\* The entries still to be processed: known to the discovery and not done in this cycle.
Entries == {s \in DOMAIN slice.entries \cap DOMAIN cycle.found :
              s \notin cycle.processed /\ slice.entries[s] = cycle.found[s]}

\* process_slice_source up to the first transaction: the file is opened by its identity.
OpenSource ==
  /\ slice.listed /\ At("idle") /\ Entries # {}
  /\ LET s == Min(Entries)
         open == [Idle EXCEPT !.src = s, !.seen = file[s]]
     IN proc' = IF file[s].exists /\ file[s].id = slice.entries[s]
                THEN [open EXCEPT !.pc = IF store[s].retired # None THEN "cleanup" ELSE "decide"]
                ELSE [open EXCEPT !.pc = "fail", !.code = "io", !.outcome = "failed"]
  /\ UNCHANGED <<file, faults, store, cycle, slice>>

EndSlice ==
  /\ slice.listed /\ At("idle") /\ Entries = {}
  /\ slice' = Closed
  /\ cycle' = IF slice.ended THEN NoCycle ELSE cycle
  /\ UNCHANGED <<file, faults, store, proc>>

-----------------------------------------------------------------------------
(* process_source.                                                         *)

\* One cleanup per source and slice; a second one, or one that does not finish, leaves
\* the source for the next slice, with the failure recorded where "noted".
CleanupOnce(g, then, noted) ==
  LET out == Cleanup(source, g)
      pending == IF noted THEN FailWith("interrupted", "interrupted") ELSE Finish("interrupted")
  IN IF proc.cleaned THEN Quiet /\ pending
     ELSE /\ Write(out.source)
          /\ IF out.complete THEN /\ proc' = [proc EXCEPT !.cleaned = TRUE, !.pc = then]
                                  /\ UNCHANGED <<cycle, slice>>
                             ELSE pending

\* The file as it was opened, and what was parsed of it.  A read fails once the file has changed since.
opened == proc.seen
agg    == proc.agg

SameMetadata(c) == c.id = opened.id /\ c.observed = opened.size /\ c.from = opened.body

SamePrints(c) == /\ c.body = HeadPrint(opened)
                 /\ c.upto = BoundaryPrint(opened, c.offset, c.observed)

Healthy ==
  \/ source.status = "available" /\ source.error = "none"
  \/ source.error = "interrupted" /\ source.staging = None /\ source.retired = None

\* The cursor after `emitted` rows: the offset is 0 until all of them are written.
CursorAfter(emitted) ==
  LET whole  == emitted >= Len(agg.usage)
      offset == IF whole THEN agg.offset ELSE 0
  IN [id |-> opened.id, body |-> HeadPrint(opened), observed |-> opened.size,
      offset |-> offset, upto |-> BoundaryPrint(opened, offset, opened.size),
      result |-> IF whole THEN "advanced" ELSE "deferred",
      emitted |-> emitted, hash |-> agg.hash, from |-> opened.body]

FreshCursor(f, hash) ==
  [id |-> f.id, body |-> HeadPrint(f), observed |-> f.size, offset |-> 0,
   upto |-> BoundaryPrint(f, 0, f.size), result |-> "deferred",
   emitted |-> 0, hash |-> hash, from |-> f.body]

RowOf(g, u)      == [generation |-> g, line |-> u.msg, tokens |-> u.tokens, revision |-> u.revision]
RowsOfUsage(g, usage) == {RowOf(g, usage[i]) : i \in DOMAIN usage}
IndexRow(g) == [generation |-> g, messages |-> agg.messages, usage |-> Len(agg.usage)]

\* prepare_candidate: resume a staging generation of this very file, else delete it and
\* begin another.
PrepareCandidate(comparable) ==
  LET candidate == source.staging = proc.generation /\ SameMetadata(cursor) /\ comparable
  IN IF proc.changed /\ (source.staging = None \/ candidate)
     THEN FailWith("io", "failed") /\ Quiet
     ELSE IF source.staging = None
     THEN /\ Write(BeginOrResume(source, proc.generation, FreshCursor(opened, agg.hash)).source)
          /\ Goto("emit")
     ELSE IF candidate /\ SamePrints(cursor)
     THEN Goto("emit") /\ Quiet
     ELSE CleanupOnce(source.staging, "prepare", FALSE)

\* The next BatchRows rows, or the one batch of a file without usage; a batch that uses
\* up the control interrupts the source, the last one as well.
EmitBatch ==
  LET from == cursor.emitted
      to   == Min({Len(agg.usage), from + BatchRows})
      out  == CommitBatch(source, "staging", CursorAfter(to),
                          IndexRow(proc.generation),
                          RowsOfUsage(proc.generation, SubSeq(agg.usage, from + 1, to)))
      committed == slice.committed + 1
  IN IF from = Len(agg.usage) /\ from > 0
     THEN Goto("promote") /\ Quiet
     ELSE IF proc.changed THEN FailWith("io", "failed") /\ Quiet
     ELSE IF ~out.ok THEN Abort /\ Quiet
     ELSE /\ Write(out.source)
          /\ slice' = [slice EXCEPT !.committed = committed]
          /\ proc' = IF slice.stop # 0 /\ committed >= slice.stop
                     THEN [proc EXCEPT !.pc = "fail", !.code = "interrupted",
                                       !.outcome = "interrupted"]
                     ELSE [proc EXCEPT !.pc = IF agg.usage = << >> THEN "promote" ELSE "emit"]
          /\ UNCHANGED cycle

PromoteCandidate ==
  LET out == Promote(source, proc.generation)
  IN /\ Write(out.source)
     /\ IF ~out.ok THEN Abort
        ELSE IF out.source.retired # None THEN Goto("retire") ELSE Finish("advanced")

RetireSuperseded ==
  IF proc.cleaned THEN FailWith("interrupted", "interrupted") /\ Quiet
  ELSE LET out == Cleanup(source, source.retired)
       IN /\ Write(out.source)
          /\ IF out.complete THEN Finish("advanced")
                             ELSE FailWith("interrupted", "interrupted")

\* record_failure: a source without any generation gets one to carry the failure, unless
\* its file cannot be opened.
FailSource ==
  IF source.current # None \/ source.staging # None
  THEN Write(Fail(source, proc.code)) /\ Finish(proc.outcome)
  ELSE IF file[src].exists /\ file[src].id = slice.entries[src]
  THEN Write(BeginOrResume(source, 1, FreshCursor(file[src], << >>)).source)
       /\ UNCHANGED <<cycle, slice, proc>>
  ELSE Quiet /\ Finish(proc.outcome)

=============================================================================
