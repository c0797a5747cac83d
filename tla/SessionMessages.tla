--------------------------- MODULE SessionMessages ---------------------------
(***************************************************************************)
(* A client reads the messages of one session: GET .../messages answers    *)
(* with as many as fit and a cursor for the rest, build_session_messages   *)
(* takes them one at a time from a MessagePager, and the pager reads them  *)
(* from the file, which is written on and scanned meanwhile.               *)
(*                                                                         *)
(* Text[v] is the sequence of records of version v of the file.  A record  *)
(* is a message (key, len bytes of content in characters of width bytes,   *)
(* and whether it can be shown), a rewind to a key, a checkpoint with a    *)
(* list of messages, or another line.  Offsets of a file are counted in    *)
(* records.  An item of a response costs one unit beyond its content, a    *)
(* cursor one.  What is signed into a cursor and the metrics are left out. *)
(***************************************************************************)
EXTENDS Naturals, Sequences, SequencesExt, FiniteSetsExt

CONSTANTS
  Kinds,          \* subset of {"codex", "claude", "gemini", "legacy"}
  Text,
  MaxItem,        \* MAX_MESSAGE_ITEM_UTF8_BYTES
  MaxBytes,       \* max_bytes of a request
  Limit,          \* limit of a request
  MaxChanges      \* bound: changes of the file and its source

None == 0
NoCursor == [generation |-> None, at |-> 0]

VARIABLES
  kind,           \* the kind of the source
  file,           \* the file: version and size
  pub,            \* what the database says of it: generation, version, size, available
  req,            \* the request that runs
  client,         \* what the client holds: its cursor, the items so far
  changes

vars == <<kind, file, pub, req, client, changes>>

Content(f) == SubSeq(Text[f.version], 1, f.size)

-----------------------------------------------------------------------------
(* References to messages: the record, and the element of a checkpoint.    *)

\* insert_ref: a message said again is at its first place.
Insert(refs, key, i, j) ==
  LET at  == SelectInSeq(refs, LAMBDA r : r.key = key)
      ref == [key |-> key, record |-> i, element |-> j]
  IN IF at = 0 THEN Append(refs, ref) ELSE [refs EXCEPT ![at] = ref]

\* apply_gemini_jsonl_record.
Rewound(refs, key) ==
  SubSeq(refs, 1, LET at == SelectInSeq(refs, LAMBDA r : r.key = key) IN IF at = 0 THEN 0 ELSE at - 1)

Checkpointed(i, list) ==
  FoldLeftDomain(LAMBDA refs, j : Insert(refs, list[j].key, i, j), << >>, list)

ApplyGemini(refs, i, record) ==
  CASE record.is = "rewind"     -> Rewound(refs, record.key)
    [] record.is = "checkpoint" -> Checkpointed(i, record.list)
    [] record.is = "message"    -> Insert(refs, record.key, i, 0)
    [] OTHER                    -> refs

ApplyClaude(refs, i, record) ==
  IF record.is = "message" THEN Insert(refs, record.key, i, 0) ELSE refs

\* build_jsonl_refs.
JsonlRefs(records) ==
  FoldLeftDomain(LAMBDA refs, i : IF kind = "claude" THEN ApplyClaude(refs, i, records[i])
                                  ELSE ApplyGemini(refs, i, records[i]), << >>, records)

\* A Codex file needs no references, every record that is a message is one; and so is
\* every element of a legacy document (build_legacy_refs).
RecordRefs(records) == [i \in DOMAIN records |-> [key |-> 0, record |-> i, element |-> 0]]

Refs(records) == IF kind \in {"claude", "gemini"} THEN JsonlRefs(records) ELSE RecordRefs(records)

\* read_jsonl_message and read_legacy_message.
MessageAt(records, ref) ==
  IF ref.element = 0 THEN records[ref.record] ELSE records[ref.record].list[ref.element]

\* parse_*_message: a message with content, and the limit on one message.
HasContent(m) == m.is = "message" /\ m.shown
Shown(m) == HasContent(m) /\ m.len <= MaxItem

-----------------------------------------------------------------------------
(* The file and its scanner.                                               *)

Quiet == UNCHANGED <<kind, req, client>>
Change == changes < MaxChanges /\ changes' = changes + 1

Grow ==
  /\ Change /\ file.size < Len(Text[file.version])
  /\ file' = [file EXCEPT !.size = @ + 1]
  /\ Quiet /\ UNCHANGED pub

Rewrite ==
  /\ Change /\ file.version < Len(Text)
  /\ \E n \in {1, Len(Text[file.version + 1])} : file' = [version |-> file.version + 1, size |-> n]
  /\ Quiet /\ UNCHANGED pub

AppendedReplacement(from) ==
  \E i, j \in 1..file.size :
    LET r == Text[file.version][i] q == Text[file.version][j] IN
    i <= from /\ from < j /\ r.is = "message" /\ q.is = "message" /\ r.key = q.key

\* A file that only grew continues its generation, unless a message was said again.
Continues ==
  /\ file.version = pub.version /\ pub.size <= file.size
  /\ kind = "codex" \/ (kind = "claude" /\ ~AppendedReplacement(pub.size))

\* The scanner publishes the file as it is, or notes that it could not read it.
Publish ==
  /\ pub.version # file.version \/ pub.size # file.size \/ ~pub.available
  /\ pub' = [generation |-> IF Continues THEN pub.generation ELSE pub.generation + 1,
             version |-> file.version, size |-> file.size, available |-> TRUE]
  /\ Quiet /\ UNCHANGED <<file, changes>>

SourceFails ==
  /\ Change /\ pub.available
  /\ pub' = [pub EXCEPT !.available = FALSE]
  /\ Quiet /\ UNCHANGED file

-----------------------------------------------------------------------------
(* One request.                                                            *)

NoRequest == [pc |-> "idle", index |-> None, pager |-> NoCursor, fragment |-> 0,
              cursor |-> [generation |-> None], cache |-> [generation |-> None], items |-> << >>]
NoClient  == [pager |-> NoCursor, fragment |-> 0, generation |-> None, items |-> << >>,
              read |-> [generation |-> None], outcome |-> "reading"]

Step == UNCHANGED <<kind, file, pub, changes>>

Fail(outcome) == /\ req' = NoRequest /\ client' = [client EXCEPT !.outcome = outcome]

\* The index row of the session, and the client's cursor against its generation.
LoadIndex ==
  /\ req.pc = "idle" /\ client.outcome = "reading" /\ Step
  /\ IF ~pub.available THEN Fail("unavailable")
     ELSE IF client.generation \notin {None, pub.generation} THEN Fail("stale")
     ELSE /\ req' = [NoRequest EXCEPT !.pc = "load", !.index = pub.generation,
                                      !.pager = client.pager, !.fragment = client.fragment]
          /\ UNCHANGED client

\* encode_cursor and decode_cursor: a position, good for one generation.
PageCursor(generation, at) == [generation |-> generation, at |-> at]
Decodes(cursor) == cursor.generation \in {None, pub.generation}

\* invalidate_jsonl_cache.
KeptCache(cache) == IF cache.generation = pub.generation THEN cache ELSE [generation |-> None]

\* page: the current scan cursor, the generation the pager's own cursor was made for, and
\* the cached references, which are dropped when they are of another generation.
LoadCursor ==
  /\ req.pc = "load" /\ Step
  /\ IF ~Decodes(req.pager) THEN Fail("stale")
     ELSE /\ req' = [req EXCEPT !.pc = "read", !.cursor = pub, !.cache = KeptCache(@)]
          /\ UNCHANGED client

\* open_source_for_paging: the file must be the one the cursor was made for; a change
\* after that fails the read.
SourceMatches == file.version = req.cursor.version /\ file.size = req.cursor.size

\* The references of an earlier page of this request must still be those of the cursor.
CacheMatches == kind = "codex" \/ req.cache.generation = None \/ req.cache = req.cursor

\* The first message at or behind a position: its index, or the end.
FirstShown(records, refs, at) ==
  LET shown == {i \in at + 1..Len(refs) : Shown(MessageAt(records, refs[i]))}
  IN IF shown = {} THEN Len(refs) + 1 ELSE Min(shown)

Cost(items) == FoldLeft(LAMBDA sum, item : sum + 1 + item.end - item.start, 0, items)
Fits(items, more) == Cost(items) + (IF more THEN 1 ELSE 0) <= MaxBytes

Item(ref, m, start, end) ==
  [record |-> ref.record, element |-> ref.element, start |-> start, end |-> end, len |-> m.len]

IsBoundary(m, offset) == offset <= m.len /\ offset % m.width = 0

\* The fault of a search that may settle for the fragment it starts from.
RECURSIVE FitFrom(_, _, _, _, _, _)
FitFrom(ref, m, start, low, high, best) ==
  LET middle == Max({low, ((low + high) \div 2) - (((low + high) \div 2) % m.width)})
  IN IF low >= high THEN start
     ELSE IF Fits(<<Item(ref, m, start, middle)>>, TRUE)
     THEN FitFrom(ref, m, start, middle + m.width, high, middle)
     ELSE FitFrom(ref, m, start, low, middle - m.width, best)

\* fit_message_fragment: the longest fragment that fits, by bisection over the boundaries
\* of characters; best = start when none does.
RECURSIVE FitFragment(_, _, _, _, _, _)
FitFragment(ref, m, start, low, high, best) ==
  LET half   == low + ((high - low) \div 2)
      middle == Max({low, half - (half % m.width)})
  IN IF low > high THEN best
     ELSE IF Fits(<<Item(ref, m, start, middle)>>, TRUE)
     THEN IF middle = m.len THEN middle
          ELSE FitFragment(ref, m, start, middle + m.width, high, middle)
     ELSE IF middle = 0 THEN best
     ELSE FitFragment(ref, m, start, low, middle - m.width, best)

Answer(items, more, pager, fragment) ==
  /\ req' = NoRequest
  /\ client' = [client EXCEPT !.items = @ \o items, !.read = req.cursor,
                              !.generation = req.index,
                              !.pager = IF more THEN pager ELSE NoCursor,
                              !.fragment = IF more THEN fragment ELSE 0,
                              !.outcome = IF more THEN "reading" ELSE "done"]

\* One page of one message, and what build_session_messages does with it.
ReadPage ==
  LET records == Content(req.cursor)
      refs    == Refs(records)
      i       == FirstShown(records, refs, req.pager.at)
      ref     == refs[i]
      m       == MessageAt(records, ref)
      more    == i < Len(refs)
      next    == PageCursor(req.cursor.generation, i)
      start   == req.fragment
      items   == Append(req.items, Item(ref, m, start, m.len))
      end     == IF start >= m.len THEN start
                 ELSE FitFragment(ref, m, start, start + m.width, m.len, start)
  IN /\ req.pc = "read" /\ Step
     /\ IF ~SourceMatches \/ ~CacheMatches THEN Fail("stale")
        ELSE IF i > Len(refs) THEN Answer(req.items, FALSE, NoCursor, 0)
        ELSE IF ~IsBoundary(m, start) THEN Fail("stale")
        ELSE IF Fits(items, more)
        THEN IF Len(items) >= Limit \/ ~more THEN Answer(items, more, next, 0)
             ELSE /\ req' = [req EXCEPT !.pc = "load", !.pager = next, !.fragment = 0,
                                        !.items = items, !.cache = req.cursor]
                  /\ UNCHANGED client
        ELSE IF req.items # << >> THEN Answer(req.items, TRUE, req.pager, start)
        ELSE IF end = start THEN Fail("response_limit")
        ELSE Answer(<<Item(ref, m, start, end)>>, TRUE, req.pager, end)

\* A cancelled query, or a client that starts over.
Cancel ==
  /\ req.pc # "idle" /\ changes < MaxChanges /\ changes' = changes + 1
  /\ req' = NoRequest /\ client' = [client EXCEPT !.outcome = "cancelled"]
  /\ UNCHANGED <<kind, file, pub>>

StartOver ==
  /\ req.pc = "idle" /\ client.outcome # "reading"
  /\ client' = NoClient /\ UNCHANGED req /\ Step

Init ==
  /\ kind \in Kinds
  /\ file \in [version : {1}, size : 1..Len(Text[1])]
  /\ pub = [generation |-> 1, version |-> 1, size |-> file.size, available |-> TRUE]
  /\ req = NoRequest /\ client = NoClient /\ changes = 0

Request == LoadIndex \/ LoadCursor \/ ReadPage
Next == Grow \/ Rewrite \/ Publish \/ SourceFails \/ Cancel \/ StartOver \/ Request

Spec == Init /\ [][Next]_vars

-----------------------------------------------------------------------------
(* Properties.                                                             *)

\* The messages of a version of the file, in the order a reader should see them.
Readable(f) ==
  LET records == Content(f) refs == Refs(records)
  IN SelectSeq(refs, LAMBDA r : Shown(MessageAt(records, r)))

IndexIn(refs, item) ==
  SelectInSeq(refs, LAMBDA r : r.record = item.record /\ r.element = item.element)

\* The items are the first ones of the readable messages, in pieces without gap or overlap.
Continuous(items, refs) ==
  \A k \in DOMAIN items :
    /\ IndexIn(refs, items[k]) # 0
    /\ IF k = 1 THEN IndexIn(refs, items[k]) = 1 /\ items[k].start = 0
       ELSE IF items[k - 1].end < items[k - 1].len
       THEN /\ IndexIn(refs, items[k]) = IndexIn(refs, items[k - 1])
            /\ items[k].start = items[k - 1].end
       ELSE /\ IndexIn(refs, items[k]) = IndexIn(refs, items[k - 1]) + 1
            /\ items[k].start = 0

\* A client that follows the cursors of build_session_messages without an error gets, over
\* any number of requests, rewrites, appends and scans, the messages of the version its
\* last page was read from, all of them once it is done: none twice, none skipped, no
\* piece of an older version.  And a limit with room for one character is never too small:
\* no request is refused for it, however long a message is (fit_message_fragment).
PagesAreWhole ==
  /\ client.outcome # "response_limit"
  /\ client.read.generation # None /\ client.outcome \in {"reading", "done"} =>
       LET refs == Readable(client.read) last == client.items[Len(client.items)] IN
       /\ Continuous(client.items, refs)
       /\ client.outcome = "done" /\ client.items # << >> =>
            last.end = last.len /\ IndexIn(refs, last) = Len(refs)
       /\ client.outcome = "done" /\ client.items = << >> => refs = << >>
=============================================================================
