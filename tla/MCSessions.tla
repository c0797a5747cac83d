----------------------------- MODULE MCSessions -----------------------------
(***************************************************************************)
(* The three session scanners over the same tables.  The service scans the *)
(* roots one after the other and their sources have different keys, so one *)
(* scanner at a time is enough: which one is chosen at the start.          *)
(***************************************************************************)
EXTENDS CodexScan, Sequences

CONSTANTS Scanners, WholeFileFaults

VARIABLE scanner

Said(session, msg, tokens) == [session |-> session, msg |-> msg, tokens |-> tokens]

\* Claude files: a message said again with other usage, a beginning rewritten behind its
\* first line, two sessions in one file, usage that a later record leaves out.
ClaudeText ==
  << <<Said(1, 1, 1), Said(1, 2, 2), Said(1, 1, 3)>>,
     <<Said(1, 1, 1), Said(1, 2, 4), Said(1, 3, 3)>>,
     <<Said(1, 1, 5), Said(1, 1, 0), Said(2, 3, 1)>>,
     <<Said(1, 3, 0), Said(1, 1, 5), Said(1, 2, 1)>> >>

Meta           == [kind |-> "meta"]
Msg(m, tokens) == [kind |-> "message", msg |-> m, tokens |-> tokens, counted |-> TRUE]
Silent(m)      == [kind |-> "message", msg |-> m, tokens |-> 0, counted |-> FALSE]
Rewind(m)      == [kind |-> "rewind", msg |-> m]
Snapshot(list) == [kind |-> "checkpoint", list |-> list]

\* Gemini files: a rewind, a checkpoint that is continued, one that is too long for the
\* revisions, and a legacy document.
GeminiText ==
  << <<Meta, Msg(1, 1), Msg(2, 2), Rewind(2)>>,
     <<Meta, Msg(1, 3), Snapshot(<<Msg(2, 1), Msg(3, 5)>>), Silent(3)>>,
     <<Meta, Msg(1, 1), Snapshot(<<Msg(1, 1), Msg(2, 1), Msg(3, 1)>>), Msg(1, 4)>>,
     <<Meta, Msg(3, 1), Msg(1, 2), Silent(2)>> >>

Claude == INSTANCE ClaudeScan WITH
            Text <- ClaudeText, LineBytes <- 2, Window <- 2, MaxSize <- 6, BatchRows <- 1,
            MaxBody <- 4, FirstBodies <- {1, 3}, MaxFaults <- WholeFileFaults
Gemini == INSTANCE GeminiScan WITH
            Text <- GeminiText, LineBytes <- 1, Window <- 1, MaxSize <- 4, BatchRows <- 1,
            MaxBody <- 4, FirstBodies <- {1, 3}, Legacy <- {4}, Embedded <- 3,
            MaxFaults <- WholeFileFaults

AllInit ==
  /\ scanner \in Scanners
  /\ \/ scanner = "codex" /\ Init
     \/ scanner = "claude" /\ Claude!Init
     \/ scanner = "gemini" /\ Gemini!Init

AllScan ==
  /\ UNCHANGED scanner
  /\ \/ scanner = "codex" /\ Scan
     \/ scanner = "claude" /\ Claude!Scan
     \/ scanner = "gemini" /\ Gemini!Scan

AllDisturb ==
  /\ UNCHANGED scanner
  /\ \/ scanner = "codex" /\ Disturb
     \/ scanner = "claude" /\ Claude!Disturb
     \/ scanner = "gemini" /\ Gemini!Disturb

\* A scanner always has a step to take: weak fairness is that it takes one again and again.
AllSpec ==
  /\ AllInit /\ [][AllDisturb \/ AllScan]_<<vars, scanner>>
  /\ []<><<AllScan>>_<<vars, scanner>>

\* PublishedIsWhole of the scanner that runs: whatever generation a reader is given by
\* promote_candidate or an appended batch is that of one version of the file, complete; and
\* no step takes the last such generation away before a complete one replaces it.
ReadersSeeWhole ==
  /\ [](CASE scanner = "codex"  -> PublishedIsWhole
          [] scanner = "claude" -> Claude!PublishedIsWhole
          [] scanner = "gemini" -> Gemini!PublishedIsWhole)
  /\ [][KeepsLastAggregate]_vars

\* Every well-formed file that stays is indexed in the end by its scanner's process_source,
\* whatever the other files contain, and no superseded generation is left.
EveryFileIsIndexed ==
  \A s \in Sources :
    <>[](CASE scanner = "codex"  -> Indexed(s)
           [] scanner = "claude" -> Claude!Indexed(s)
           [] scanner = "gemini" -> Gemini!Indexed(s))
=============================================================================
