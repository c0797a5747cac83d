------------------------- MODULE DiagnosticReading -------------------------
(***************************************************************************)
(* How an export (crates/wokcore-server/src/api/export.rs) and a log query *)
(* (api/logs.rs) read the diagnostic events while the recorder and the     *)
(* durable writer go on: first the segment files, listed once and opened   *)
(* one by one (crates/wokcore-platform/src/diagnostics.rs), then the ring, *)
(* page by page (crates/wokcore-diagnostics/src/ring.rs).                  *)
(*                                                                         *)
(* An event is its sequence number; a file is its name and its lines.      *)
(***************************************************************************)
EXTENDS Naturals, Sequences, FiniteSets, SequencesExt

CONSTANTS
  Readers,      \* exports and log queries
  MaxEvent,     \* events the recorder numbers in a behaviour
  RingCap,      \* events the ring retains
  SegmentCap,   \* events of one segment file
  PageMax,      \* MAX_PAGE_EVENTS of a ring page
  ReadFaults    \* may a query be refused and the active segment unreadable

VARIABLES
  files,     \* segment files in the order of their names, the last one active
  ring,      \* DiagnosticRing.events
  queue,     \* numbered events on their way to the durable writer
  next,      \* the next sequence number
  work,      \* what each reader does next
  scan,      \* what each reader has listed and read
  sure       \* history: the events the reader has no excuse to miss

recorderVars == <<files, ring, queue, next>>
readingVars == <<work, scan, sure>>

NoScan == [entries |-> <<>>, active |-> 0, sources |-> <<>>, cursor |-> 0]

ReadingInit ==
  /\ files = <<[name |-> 1, lines |-> <<>>]>>
  /\ ring = <<>> /\ queue = <<>> /\ next = 1
  /\ work = [r \in Readers |-> "none"]
  /\ scan = [r \in Readers |-> NoScan]
  /\ sure = [r \in Readers |-> {}]

Numbers(s) == {s[i] : i \in DOMAIN s}
Lines(fs) == UNION {Numbers(fs[i].lines) : i \in DOMAIN fs}

-----------------------------------------------------------------------------
(* The recorder and the durable writer, as far as a reader sees them.      *)

Active == files[Len(files)]

\* DiagnosticRing::insert evicts the oldest events to make room.
Insert(r, e) == IF Len(r) < RingCap THEN Append(r, e) ELSE Append(Tail(r), e)

\* What a reader that has not come to the end of the ring may still miss
\* without fault: an event evicted before it was read, and in no file listed.
StillSure(r, kept) ==
  IF work[r] \in {"check", "open", "read", "ring"}
  THEN {e \in sure[r] : \/ e \in Numbers(kept)
                        \/ e \in Lines(scan[r].entries)
                        \/ \E i \in DOMAIN scan[r].sources : e \in Numbers(scan[r].sources[i])}
  ELSE sure[r]

\* An event gets its number, enters the ring and is offered to the durable
\* queue, which may refuse it.
Record ==
  /\ next <= MaxEvent
  /\ next' = next + 1
  /\ ring' = Insert(ring, next)
  /\ queue' \in {queue, Append(queue, next)}
  /\ sure' = [r \in Readers |-> StillSure(r, ring')]
  /\ UNCHANGED <<files, work, scan>>

Persist ==
  /\ queue # <<>> /\ Len(Active.lines) < SegmentCap
  /\ files' = [files EXCEPT ![Len(files)].lines = Append(@, Head(queue))]
  /\ queue' = Tail(queue)
  /\ UNCHANGED <<ring, next, readingVars>>

Rotate ==
  /\ queue # <<>> /\ Len(Active.lines) = SegmentCap
  /\ files' = Append(files, [name |-> Active.name + 1, lines |-> <<>>])
  /\ UNCHANGED <<ring, queue, next, readingVars>>

\* Retention removes the oldest closed segment, unless a reader has it open:
\* remove_open_file needs the exclusive lock, open_read holds a shared one.
Retire ==
  /\ Len(files) > 2
  /\ ~ \E r \in Readers : work[r] = "read" /\ Head(scan[r].entries).name = files[1].name
  /\ files' = Tail(files)
  /\ UNCHANGED <<ring, queue, next, readingVars>>

RecorderNext == Record \/ Persist \/ Rotate \/ Retire

-----------------------------------------------------------------------------
(* One reader.                                                             *)

Go(r, label) == work' = [work EXCEPT ![r] = label]

\* What a reading keeps goes with it.
Forget(r) ==
  /\ scan' = [scan EXCEPT ![r] = NoScan]
  /\ sure' = [sure EXCEPT ![r] = {}]

\* Reading fails: the caller gets an error.
Fail(r) == Go(r, "failed") /\ Forget(r)

\* DiagnosticDirectory::entries: names and snapshots of every visible file,
\* in the order of the names, the largest segment name taken for the active.
List(r) ==
  /\ work[r] = "list"
  /\ scan' = [scan EXCEPT ![r] = [NoScan EXCEPT !.entries = files, !.active = Active.name]]
  /\ sure' = [sure EXCEPT ![r] = Lines(files) \cup Numbers(ring)]
  /\ Go(r, "check")

\* validated_diagnostic_entry opens each file again: one that is gone or has
\* changed since it was listed refuses the whole listing.
CheckEntries(r) ==
  /\ work[r] = "check"
  /\ IF \A i \in DOMAIN scan[r].entries : scan[r].entries[i] \in Range(files)
     THEN Go(r, "open") /\ UNCHANGED <<scan, sure>>
     ELSE Fail(r)

Entry(r) == Head(scan[r].entries)
NextEntry(r) == [scan[r] EXCEPT !.entries = Tail(@)]
Present(r) == \E i \in DOMAIN files : files[i].name = Entry(r).name

\* The entry is left out, and what only it holds is not missed by oversight
\* of the reader but by the tolerance for the writer's own segment.
SkipEntry(r) ==
  /\ scan' = [scan EXCEPT ![r] = NextEntry(r)]
  /\ sure' = [sure EXCEPT ![r] = @ \ (Numbers(Entry(r).lines) \ Numbers(ring))]
  /\ UNCHANGED work

\* open_read of the next entry.  An empty file is skipped; one that changed
\* since it was listed is an unsafe path, which refuses the reading; one that
\* is gone or cannot be locked is tolerated for the active segment alone.
OpenEntry(r) ==
  /\ work[r] = "open" /\ scan[r].entries # <<>>
  /\ \/ Entry(r).lines = <<>> /\ SkipEntry(r)
     \/ Entry(r).lines # <<>> /\ Entry(r) \in Range(files)
        /\ Go(r, "read") /\ UNCHANGED <<scan, sure>>
     \/ Entry(r).lines # <<>> /\ (~ Present(r) \/ ReadFaults)
        /\ IF Entry(r).name = scan[r].active THEN SkipEntry(r) ELSE Fail(r)
     \/ Entry(r).lines # <<>> /\ Present(r) /\ Entry(r) \notin Range(files) /\ Fail(r)

\* read_range to the end of the file, each range revalidated.
ReadEntry(r) ==
  /\ work[r] = "read"
  /\ IF Entry(r) \in Range(files)
     THEN /\ scan' = [scan EXCEPT ![r] =
                        [NextEntry(r) EXCEPT !.sources = Append(@, Entry(r).lines)]]
          /\ Go(r, "open") /\ UNCHANGED sure
     ELSE Fail(r)

EntriesDone(r) ==
  /\ work[r] = "open" /\ scan[r].entries = <<>>
  /\ Go(r, "ring") /\ UNCHANGED <<scan, sure>>

\* DiagnosticRing::page after the cursor, and the cursor of the page.
RingPage(cursor) ==
  LET after == SelectSeq(ring, LAMBDA e : e > cursor)
  IN SubSeq(after, 1, IF Len(after) < PageMax THEN Len(after) ELSE PageMax)

\* The next page of the ring, until a page is empty.
ReadRing(r) ==
  LET page == RingPage(scan[r].cursor) IN
  /\ work[r] = "ring"
  /\ IF page = <<>>
     THEN Go(r, "selected") /\ UNCHANGED <<scan, sure>>
     ELSE /\ scan' = [scan EXCEPT ![r].sources = Append(@, page), ![r].cursor = Last(page)]
          /\ UNCHANGED <<work, sure>>

\* The recorder's query queue is full or closed.
RingBusy(r) == ReadFaults /\ work[r] = "ring" /\ Fail(r)

ReaderStep(r) ==
  /\ \/ List(r) \/ CheckEntries(r) \/ OpenEntry(r) \/ ReadEntry(r)
     \/ EntriesDone(r) \/ ReadRing(r) \/ RingBusy(r)
  /\ UNCHANGED recorderVars

\* The events read, in the order they were considered.
Considered(r) == FlattenSeq(scan[r].sources)

-----------------------------------------------------------------------------
(***************************************************************************)
(* The log query (crates/wokcore-server/src/api/logs.rs): each page reads  *)
(* all the files and the whole ring, and keeps the events that come next   *)
(* after the cursor in the order of their timestamp and identifier.        *)
(***************************************************************************)
CONSTANTS
  Loggers,      \* clients that page through the log
  LogKey,       \* the rank of each event by (occurred_at, event_id)
  LogMatching,  \* events the filters match
  Limit,        \* LogsQuery.limit
  Long,         \* events that take two units of a response
  PageBytes     \* LOG_MAX_RESPONSE_BYTES, in such units

VARIABLES
  order,    \* LogFilters.order of each logger
  page,     \* the last page: where it starts, its items, is there more
  shown     \* history: the items of all pages so far

logVars == <<order, page, shown>>

NoPage == [after |-> 0, items |-> <<>>, more |-> TRUE]

LogInit ==
  /\ order \in [Loggers -> {"asc", "desc"}]
  /\ page = [l \in Loggers |-> NoPage]
  /\ shown = [l \in Loggers |-> <<>>]

\* The page starts after the last item of the page before.
Cursor(l) == IF page[l].items = <<>> THEN 0 ELSE Last(page[l].items)

Before(o, a, b) == IF o = "asc" THEN LogKey[a] < LogKey[b] ELSE LogKey[a] > LogKey[b]
AfterCursor(o, cursor, e) == cursor = 0 \/ Before(o, cursor, e)
Ordered(o, s) == SetToSortSeq(s, LAMBDA a, b : Before(o, a, b))

\* A selection that keeps no event beyond the limit.
ConsiderLogShort(o, cursor, s, e) ==
  IF e \notin LogMatching \/ e \in s \/ ~ AfterCursor(o, cursor, e) THEN s
  ELSE IF Cardinality(s) < Limit THEN s \cup {e}
       ELSE (s \cup {e}) \ {Last(Ordered(o, s \cup {e}))}

\* SelectedLogs::consider keeps one event more than the limit, and puts out
\* the one that comes last.
ConsiderLog(o, cursor, s, e) ==
  IF e \notin LogMatching \/ e \in s \/ ~ AfterCursor(o, cursor, e) THEN s
  ELSE IF Cardinality(s) <= Limit THEN s \cup {e}
       ELSE (s \cup {e}) \ {Last(Ordered(o, s \cup {e}))}

SelectedLogs(l) ==
  FoldLeft(LAMBDA s, e : ConsiderLog(order[l], Cursor(l), s, e), {}, Considered(l))

Size(items) == Len(items) + Len(SelectSeq(items, LAMBDA e : e \in Long))

\* build_logs drops items from the end until the response fits.
Fitting(items) ==
  LET n == CHOOSE k \in 0..Len(items) :
             /\ Size(SubSeq(items, 1, k)) <= PageBytes
             /\ \A j \in (k + 1)..Len(items) : Size(SubSeq(items, 1, j)) > PageBytes
  IN SubSeq(items, 1, n)

\* The client asks for the first page, and for the next one while there is one.
AskPage(l) ==
  /\ work[l] = "none" /\ page[l].more
  /\ Go(l, "list")
  /\ UNCHANGED <<recorderVars, scan, sure, logVars>>

\* into_items and the response.
BuildPage(l) ==
  LET selected == SelectedLogs(l)
      all == Ordered(order[l], selected)
      items == SubSeq(all, 1, IF Len(all) < Limit THEN Len(all) ELSE Limit)
      fit == Fitting(items)
  IN
  /\ work[l] = "selected"
  /\ IF fit = <<>> /\ items # <<>>
     THEN Fail(l) /\ UNCHANGED <<page, shown>>
     ELSE /\ page' = [page EXCEPT ![l] = [after |-> Cursor(l), items |-> fit,
                                          more |-> Len(all) > Limit \/ fit # items]]
          /\ shown' = [shown EXCEPT ![l] = @ \o fit]
          /\ Go(l, "none")
          /\ scan' = [scan EXCEPT ![l] = NoScan]
          /\ UNCHANGED sure
  /\ UNCHANGED <<recorderVars, order>>

\* The client is gone and its query cancelled, or the deadline has passed.
CancelQuery(l) ==
  /\ work[l] \in {"open", "read", "ring", "selected"}
  /\ Fail(l)
  /\ UNCHANGED <<recorderVars, logVars>>

LogStep(l) ==
  \/ AskPage(l) \/ BuildPage(l) \/ CancelQuery(l)
  \/ ReaderStep(l) /\ UNCHANGED logVars

LogNext == \E l \in Loggers : LogStep(l)

-----------------------------------------------------------------------------
\* Pages never repeat an event and never go back, whatever is recorded and
\* evicted between them: what a client was shown is strictly in the order it
\* asked for.
ShownInOrder(l) ==
  \A i, j \in DOMAIN shown[l] : i < j => Before(order[l], shown[l][i], shown[l][j])

\* A page that was just built holds every matching event its reading had no
\* excuse to miss, from its cursor to its last item, or to the end when it
\* says there is no more.
NoGap(l) ==
  work[l] = "none" /\ page[l] # NoPage =>
    \A e \in sure[l] \cap LogMatching :
      AfterCursor(order[l], page[l].after, e) =>
        \/ e \in Numbers(page[l].items)
        \/ page[l].more /\ Before(order[l], Last(page[l].items), e)
=============================================================================
