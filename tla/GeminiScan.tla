----------------------------- MODULE GeminiScan -----------------------------
(***************************************************************************)
(* The Gemini session scanner.  A record of Text is a header ("meta"), a   *)
(* message, a rewind to a message, a checkpoint that replaces all messages,*)
(* or a line that is skipped.  A message without a usable token count      *)
(* ("counted" is FALSE) keeps the usage it had.  Bodies in Legacy are one  *)
(* JSON document, which parses as a whole or not at all; the others are    *)
(* JSON lines, whose incomplete last line waits for the next scan.         *)
(*                                                                         *)
(* Every change is written into a new generation.  A file counts as        *)
(* unchanged only if a hash of all that was parsed is the same; nothing is *)
(* written then, not even the recovery of a source.                        *)
(* Titles, timestamps and the limits on the working set are left out.      *)
(***************************************************************************)
EXTENDS WholeFileScan

CONSTANTS
  Legacy,         \* the bodies that are one JSON document
  Embedded        \* 1 << EMBEDDED_REVISION_BITS

\* current_record_revision.
Revision(i, j) == i * Embedded + j

\* insert_gemini_message.
Inserted(messages, m, revision) ==
  LET at  == SelectInSeq(messages, LAMBDA n : n.msg = m.msg)
      new == [msg |-> m.msg, tokens |-> m.tokens, revision |-> revision]
  IN IF at = 0 THEN Append(messages, new)
     ELSE [messages EXCEPT ![at] = IF m.counted THEN new ELSE messages[at]]

\* truncate_gemini_messages: an unknown message rewinds to the beginning.
Truncated(messages, msg) ==
  LET at == SelectInSeq(messages, LAMBDA n : n.msg = msg)
  IN IF at = 0 THEN << >> ELSE SubSeq(messages, 1, at - 1)

\* The messages of a checkpoint in record i.
Checkpoint(i, list) ==
  FoldLeftDomain(LAMBDA messages, j : Inserted(messages, list[j], Revision(i, j)), << >>, list)

\* parse_current_jsonl, one record.
Applied(messages, i, record) ==
  CASE record.kind = "message"    -> Inserted(messages, record, Revision(i, 0))
    [] record.kind = "rewind"     -> Truncated(messages, record.msg)
    [] record.kind = "checkpoint" -> Checkpoint(i, record.list)
    [] OTHER                      -> messages

CurrentMessages(records) ==
  FoldLeftDomain(LAMBDA messages, i : Applied(messages, i, records[i]), << >>, records)

\* LegacyMessagesVisitor: the messages of the document in their order, none replaces another.
LegacyMessages(records) ==
  LET said == SelectSeq(records, LAMBDA r : r.kind = "message")
  IN [k \in DOMAIN said |-> [msg |-> said[k].msg, tokens |-> said[k].tokens, revision |-> k]]

Messages(body, records) ==
  IF body \in Legacy THEN LegacyMessages(records) ELSE CurrentMessages(records)

\* A message without usage has tokens = 0.
UsageOfMessages(messages) ==
  SortSeq(SelectSeq(messages, LAMBDA m : m.tokens # 0), LAMBDA m, n : m.revision < n.revision)

\* validate_current_metadata_header; a checkpoint too long for the revisions.
HasHeader(records) == records # << >> /\ records[1].kind = "meta"
TooLong(records) ==
  \E i \in DOMAIN records : records[i].kind = "checkpoint" /\ Len(records[i].list) >= Embedded

Complete(f) == IF f.body \in Legacy THEN f.size = LineBytes * Len(Text[f.body])
                                    ELSE Lines(f.size) >= 1

\* parse_current_jsonl and parse_legacy_json, with finalize_aggregate.
Aggregate(f) ==
  LET records  == Content(f)
      messages == Messages(f.body, records)
  IN [ok |-> Complete(f) /\ HasHeader(records), large |-> TooLong(records),
      usage |-> UsageOfMessages(messages), messages |-> Len(messages),
      offset |-> Len(records) * LineBytes, hash |-> records]

-----------------------------------------------------------------------------
StartSlice == BeginSlice
Discover   == DiscoverSlice
Enumerate  == ListSlice
StartSource == OpenSource
FinishSlice == EndSlice

CleanupBefore == At("cleanup") /\ Scanning /\ CleanupOnce(source.retired, "decide", TRUE)

\* The current generation already holds the file as it is.
Unchanged(c, parsed) ==
  /\ SameMetadata(c) /\ SamePrints(c) /\ c.result = "advanced" /\ Healthy
  /\ c.hash = parsed.hash

Decide ==
  LET parsed == Aggregate(opened)
  IN /\ At("decide") /\ Scanning /\ Quiet
     /\ IF proc.changed THEN FailWith("io", "failed")
        ELSE IF ~parsed.ok THEN FailWith("parse", "failed")
        ELSE IF parsed.large THEN FailWith("too_large", "failed")
        ELSE IF source.current # None /\ Unchanged(source.cursors[source.current], parsed)
        THEN Finish("unchanged")
        ELSE /\ proc' = [proc EXCEPT !.pc = "prepare", !.generation = source.current + 1,
                                     !.agg = parsed]
             /\ UNCHANGED <<cycle, slice>>

Prepare == At("prepare") /\ Scanning /\ PrepareCandidate(cursor.hash = agg.hash)
Emit == At("emit") /\ Scanning /\ EmitBatch
Publish == At("promote") /\ Scanning /\ PromoteCandidate
CleanupAfter == At("retire") /\ Scanning /\ RetireSuperseded
RecordFailure == At("fail") /\ Scanning /\ FailSource

Scan == \/ StartSlice \/ Discover \/ Enumerate \/ StartSource \/ FinishSlice
        \/ CleanupBefore \/ Decide \/ Prepare \/ Emit \/ Publish \/ CleanupAfter
        \/ RecordFailure

Next == Disturb \/ Scan

Spec == Init /\ [][Next]_vars /\ WF_vars(Scan)

-----------------------------------------------------------------------------
(* What the rows of a file should be.                                      *)

\* What the records say of messages, and where: a message on its own or in a checkpoint.
Said(records) ==
  {[msg |-> records[i].msg, tokens |-> records[i].tokens, revision |-> Revision(i, 0), at |-> i] :
     i \in {k \in DOMAIN records : records[k].kind = "message" /\ records[k].counted}}
  \cup UNION {{[msg |-> records[i].list[j].msg, tokens |-> records[i].list[j].tokens,
                revision |-> Revision(i, j), at |-> i] : j \in DOMAIN records[i].list} :
              i \in {k \in DOMAIN records : records[k].kind = "checkpoint"}}

\* Record k takes back what an earlier one said of a message.
TakesBack(record, msg) ==
  record.kind = "checkpoint" \/ (record.kind = "rewind" /\ record.msg = msg)

\* The rows of a generation are what the records say and do not take back, at most one of
\* a message; what is said after the last rewind and checkpoint is there.
Follows(g, rows, records) ==
  LET later(i)   == {k \in DOMAIN records : k > i}
      control(k) == records[k].kind \in {"rewind", "checkpoint"}
      again(s)   == \E t \in Said(records) : t.msg = s.msg /\ t.revision > s.revision
  IN /\ \A r, q \in rows : r.line = q.line => r = q
     /\ \A r \in rows : \E s \in Said(records) :
          r = RowOf(g, s) /\ \A k \in later(s.at) : ~TakesBack(records[k], s.msg)
     /\ \A s \in Said(records) :
          s.tokens # 0 /\ ~again(s) /\ (\A k \in later(s.at) : ~control(k)) => RowOf(g, s) \in rows

WellFormed(f) == f.exists /\ Aggregate(f).ok /\ ~Aggregate(f).large

RowsOfRecords(g, body, records) == RowsOfUsage(g, UsageOfMessages(Messages(body, records)))

\* What readers see is whole: the rows of the current generation are those the records
\* before its cursor's offset leave after every rewind and checkpoint, and the index row
\* counts them and the messages.
PublishedIsWhole ==
  \A s \in Sources :
    LET x == store[s] g == store[s].current IN
    g # None =>
      LET c    == x.cursors[g]
          read == SubSeq(Text[c.from], 1, Lines(c.offset))
          rows == UsageOf(x, g)
      IN /\ rows = RowsOfRecords(g, c.from, read)
         /\ c.from \notin Legacy => Follows(g, rows, read)
         /\ {i \in x.index : i.generation = g} =
              {[generation |-> g, messages |-> Len(Messages(c.from, read)), usage |-> Cardinality(rows)]}

Indexed(s) ==
  WellFormed(file[s]) =>
    LET x == store[s] IN
    /\ Pointed(x) = {x.current}
    /\ UsageOf(x, x.current) = RowsOfRecords(x.current, file[s].body, Content(file[s]))
=============================================================================
