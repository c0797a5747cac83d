----------------------------- MODULE ClaudeScan -----------------------------
(***************************************************************************)
(* The Claude session scanner.  A record of Text is [session, msg, tokens]:*)
(* a visible message, with tokens = 0 when it carries no usage, or one that*)
(* is skipped (msg = 0).  The last record of a message wins, but keeps the *)
(* usage of an earlier one when it has none.  A file that only grew, and   *)
(* whose rows are all still what the database holds, continues its current *)
(* generation; any other change is written into a new one.                 *)
(* Titles, timestamps and the limits on the working set are left out.      *)
(***************************************************************************)
EXTENDS WholeFileScan

\* parse_claude_aggregate, one record: a later record replaces the message at its place.
Replacing(messages, i, record) ==
  LET at  == SelectInSeq(messages, LAMBDA m : m.msg = record.msg)
      new == [msg |-> record.msg, first |-> i, tokens |-> record.tokens, revision |-> i]
  IN IF record.msg = 0 THEN messages
     ELSE IF at = 0 THEN Append(messages, new)
     ELSE [messages EXCEPT ![at] =
             IF record.tokens # 0 THEN [new EXCEPT !.first = messages[at].first]
                                  ELSE messages[at]]

Messages(records) ==
  FoldLeftDomain(LAMBDA messages, i : Replacing(messages, i, records[i]), << >>, records)

Sessions(records) == {records[i].session : i \in {j \in DOMAIN records : records[j].msg # 0}}

\* The usage of the messages, in the order of the records it is from.
UsageOfMessages(messages) ==
  SortSeq(SelectSeq(messages, LAMBDA m : m.tokens # 0), LAMBDA m, n : m.revision < n.revision)

\* The file must end with a whole line and be of one session.
Aggregate(f) ==
  LET messages == Messages(Content(f))
  IN [ok |-> f.size % LineBytes = 0 /\ Cardinality(Sessions(Content(f))) = 1,
      usage |-> UsageOfMessages(messages), messages |-> Len(messages),
      offset |-> f.size, hash |-> << >>]

-----------------------------------------------------------------------------
StartSlice == BeginSlice
Discover   == DiscoverSlice
Enumerate  == ListSlice
StartSource == OpenSource
FinishSlice == EndSlice

CleanupBefore == At("cleanup") /\ Scanning /\ CleanupOnce(source.retired, "decide", TRUE)

\* The current generation already holds the file as it is.
Unchanged(c) == SameMetadata(c) /\ SamePrints(c) /\ c.result = "advanced" /\ Healthy

Before(first, offset) == (first - 1) * LineBytes < offset

\* The fault of comparing how many rows there are, and not what they say.
PrefixCounted(g, messages, offset) ==
  LET prefix == SelectSeq(messages, LAMBDA m : Before(m.first, offset))
  IN \E i \in source.index :
       /\ i.generation = g
       /\ i.messages = Len(prefix)
       /\ i.usage = Len(UsageOfMessages(prefix))

\* current_aggregate_is_prefix: the rows of the current generation are exactly those of
\* the messages that began before the offset.
CurrentIsPrefix(g, messages, offset) ==
  LET prefix == SelectSeq(messages, LAMBDA m : Before(m.first, offset))
  IN /\ PrefixCounted(g, messages, offset)
     /\ RowsOf(source.usage, g) = RowsOfUsage(g, UsageOfMessages(prefix))

AppendedReplacement(records, offset) ==
  \E i, j \in DOMAIN records : /\ records[i].msg = records[j].msg /\ records[i].msg # 0
                               /\ Before(i, offset) /\ ~Before(j, offset)

Appended(messages, offset) ==
  UsageOfMessages(SelectSeq(messages, LAMBDA m : ~Before(m.first, offset)))

Continues(c, records) ==
  /\ c.id = opened.id /\ opened.size >= c.offset
  /\ ~AppendedReplacement(records, c.offset)
  /\ Len(Appended(Messages(records), c.offset)) <= BatchRows
  /\ CurrentIsPrefix(source.current, Messages(records), c.offset)

Decide ==
  LET c      == source.cursors[source.current]
      parsed == Aggregate(opened)
      new(pc, g) == /\ proc' = [proc EXCEPT !.pc = pc, !.generation = g, !.agg = parsed]
                    /\ Quiet /\ UNCHANGED <<cycle, slice>>
  IN /\ At("decide") /\ Scanning
     /\ IF proc.changed THEN FailWith("io", "failed") /\ Quiet
        ELSE IF source.current # None /\ Unchanged(c)
        THEN Write(RecordSuccess(source, source.current).source) /\ Finish("unchanged")
        ELSE IF ~parsed.ok THEN FailWith("parse", "failed") /\ Quiet
        ELSE IF source.current # None /\ Continues(c, Content(opened))
        THEN new("continue", source.current)
        ELSE new("prepare", source.current + 1)

\* The appended rows, in one batch of the current generation.
Continue ==
  LET out == CommitBatch(source, "current", CursorAfter(Len(agg.usage)),
                         IndexRow(proc.generation),
                         RowsOfUsage(proc.generation,
                                     Appended(Messages(Content(opened)), cursor.offset)))
  IN /\ At("continue") /\ Scanning
     /\ IF proc.changed THEN FailWith("io", "failed") /\ Quiet
        ELSE IF ~out.ok THEN Abort /\ Quiet
        ELSE Write(out.source) /\ Goto("success")

Succeed ==
  /\ At("success") /\ Scanning
  /\ Write(RecordSuccess(source, proc.generation).source)
  /\ proc' = Idle
  /\ cycle' = [cycle EXCEPT !.processed = @ \cup {src}]
  /\ slice' = [slice EXCEPT !.committed = @ + 1]

Prepare == At("prepare") /\ Scanning /\ PrepareCandidate(TRUE)

Emit == At("emit") /\ Scanning /\ EmitBatch
Publish == At("promote") /\ Scanning /\ PromoteCandidate
CleanupAfter == At("retire") /\ Scanning /\ RetireSuperseded
RecordFailure == At("fail") /\ Scanning /\ FailSource

Scan == \/ StartSlice \/ Discover \/ Enumerate \/ StartSource \/ FinishSlice
        \/ CleanupBefore \/ Decide \/ Continue \/ Succeed \/ Prepare \/ Emit \/ Publish
        \/ CleanupAfter \/ RecordFailure

Next == Disturb \/ Scan

Spec == Init /\ [][Next]_vars /\ WF_vars(Scan)

-----------------------------------------------------------------------------
(* What the rows of a file should be.                                      *)

\* Every message has the usage of its last record that carries any.
Expected(g, records) ==
  {[generation |-> g, line |-> records[i].msg, tokens |-> records[i].tokens, revision |-> i] :
     i \in {j \in DOMAIN records :
              /\ records[j].msg # 0 /\ records[j].tokens # 0
              /\ \A k \in DOMAIN records :
                   k > j /\ records[k].msg = records[j].msg => records[k].tokens = 0}}

ExpectedMessages(records) ==
  Cardinality({records[i].msg : i \in DOMAIN records} \ {0})

WellFormed(f) == f.exists /\ Aggregate(f).ok

\* What readers see is whole: the current generation holds, for the lines before its
\* cursor's offset, the usage of every message's last record that has any, and the index
\* row counts the messages and the rows - whether it was continued or written anew.
PublishedIsWhole ==
  \A s \in Sources :
    LET x == store[s] g == store[s].current IN
    g # None =>
      LET c    == x.cursors[g]
          read == SubSeq(Text[c.from], 1, Lines(c.offset))
          rows == UsageOf(x, g)
      IN /\ rows = Expected(g, read)
         /\ {i \in x.index : i.generation = g} =
              {[generation |-> g, messages |-> ExpectedMessages(read), usage |-> Cardinality(rows)]}

\* A staging generation may stay: one begun for an appended replacement is left alone when
\* the file is then rewritten to continue the current generation.
Indexed(s) ==
  WellFormed(file[s]) =>
    LET x == store[s] IN
    /\ x.status = "available" /\ x.retired = None
    /\ UsageOf(x, x.current) = Expected(x.current, Content(file[s]))
=============================================================================
