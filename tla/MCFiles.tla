------------------------------ MODULE MCFiles ------------------------------
(***************************************************************************)
(* Files on disk and those who read them: how a diagnostic file comes to   *)
(* its name and how it goes, the recorder of failure snapshots on top, the *)
(* pages that clients read of session files and of the lists in the        *)
(* database, the walk over a session root, the forks among its files, and  *)
(* the replay of the write-ahead log by the doctor.  They share no         *)
(* variable, so one of them runs; the removal and the publication wait in  *)
(* their initial state when it is not their turn.                          *)
(***************************************************************************)
EXTENDS Sequences, FileRemoval, PinnedFile

CONSTANTS Machines,
  FailureKeys, MaxTime, MaxMade, QueueCap, Cooldown, Window, WriteBudget, MaxKeys, Kept, OpenFaults,
  Kinds, MaxItem, MessageBytes, Limit, MaxChanges,
  RowKeys, MaxRank, Titled, PageRows, ListBytes, MaxMoves,
  MaxPages, MaxTx,
  SliceEntries, PerDirectory, TotalEntries, TotalSessions, MaxDepth, MaxSubagents, MaxTreeChanges,
  MaxEvents, MaxSecond, MaxHarm, ReplayLimit, MaxChildren, BatchRows, Stop

\* The diagnostic file at each name to begin with.
OwnFiles == [n \in Names |-> <<"file of", n>>]

Message(key, len, width) ==
    [is |-> "message", key |-> key, len |-> len, width |-> width, shown |-> TRUE]
Hidden(key) == [is |-> "message", key |-> key, len |-> 1, width |-> 1, shown |-> FALSE]
Rewind(key) == [is |-> "rewind", key |-> key]
Checkpoint(list) == [is |-> "checkpoint", list |-> list]
Other == [is |-> "other"]

\* Two versions of a file: messages longer than a page in wide characters, a message said
\* again, an empty one, a rewind, and a checkpoint with a message that is not shown.
SessionText ==
  << <<Other, Message(1, 1, 1), Message(2, 8, 2), Message(1, 2, 1), Message(3, 0, 1)>>,
     <<Message(1, 3, 1), Message(4, 9, 1), Rewind(4), Message(2, 1, 1),
       Checkpoint(<<Message(3, 3, 3), Hidden(2), Message(2, 2, 1)>>)>> >>

Plain(text) ==
    [text |-> text, digits |-> 0, value |-> 0, stem |-> text, ext |-> "", session |-> FALSE]
Digits(text, n, value) == [Plain(text) EXCEPT !.digits = n, !.value = value]
Extended(text, stem, ext, session) ==
    [Plain(text) EXCEPT !.stem = stem, !.ext = ext, !.session = session]

\* The names of the session roots in the order of their bytes.
RootNames ==
  << Digits("02", 2, 2), Digits("13", 2, 13), Digits("2023", 4, 2023), Digits("2024", 4, 2024),
     Digits("29", 2, 29), Extended("a.jsonl", "a", "jsonl", FALSE), Plain("archived_sessions"),
     Extended("b.txt", "b", "txt", FALSE), Extended("c.jsonl", "c", "jsonl", FALSE),
     Plain("chats"), Plain("d"), Plain("p"), Plain("projects"),
     Extended("session-x.json", "session-x", "json", TRUE),
     Extended("session-x.jsonl", "session-x", "jsonl", TRUE),
     Plain("sessions"), Plain("subagents"), Plain("tmp") >>

At(texts) ==
    [i \in 1..Len(texts) |-> CHOOSE n \in 1..Len(RootNames) : RootNames[n].text = texts[i]]
Directory(texts) == {At(SubSeq(texts, 1, i)) : i \in 1..Len(texts)}
File(id, texts) == [id |-> id, path |-> At(texts)]

CodexFiles ==
  { File(1, <<"sessions", "2024", "02", "29", "a.jsonl">>),
    File(2, <<"sessions", "2024", "02", "29", "c.jsonl">>),
    File(3, <<"sessions", "2023", "02", "29", "a.jsonl">>),
    File(4, <<"archived_sessions", "c.jsonl">>),
    File(5, <<"archived_sessions", "b.txt">>) }
ClaudeFiles ==
  { File(1, <<"projects", "p", "a.jsonl">>),
    File(2, <<"projects", "p", "d", "subagents", "c.jsonl">>),
    File(3, <<"projects", "p", "d", "subagents", "d", "a.jsonl">>),
    File(4, <<"projects", "p", "d", "a.jsonl">>) }
GeminiFiles ==
  { File(1, <<"tmp", "p", "chats", "session-x.json">>),
    File(2, <<"tmp", "p", "chats", "session-x.jsonl">>),
    File(3, <<"tmp", "p", "chats", "d", "a.jsonl">>),
    File(4, <<"tmp", "p", "chats", "c.jsonl">>) }

\* A Codex root with a day no calendar has, a Claude root with subagents in two levels and
\* one with a level too many, and a Gemini root with a legacy file.
RootLayouts ==
  [codex |-> [kind |-> "codex", files |-> CodexFiles, first |-> {f \in CodexFiles : f.id # 4},
              dirs |-> Directory(<<"sessions", "2024", "02", "29">>)
                       \cup Directory(<<"sessions", "2023", "02", "29">>)
                       \cup Directory(<<"archived_sessions">>)],
   claude |-> [kind |-> "claude", files |-> ClaudeFiles, first |-> {f \in ClaudeFiles : f.id # 2},
               dirs |-> Directory(<<"projects", "p", "d", "subagents", "d">>)],
   deep |-> [kind |-> "claude", files |-> ClaudeFiles, first |-> ClaudeFiles,
             dirs |-> Directory(<<"projects", "p", "d", "subagents", "d", "d">>)],
   gemini |-> [kind |-> "gemini", files |-> GeminiFiles, first |-> {f \in GeminiFiles : f.id # 2},
               dirs |-> Directory(<<"tmp", "p", "chats", "d">>)]]

Session(thread, parent, created, log) ==
    [exists |-> TRUE, thread |-> thread, parent |-> parent, created |-> created, log |-> log]
Event(id, time) == [id |-> id, at |-> time]
Absent == [Session(0, 0, 0, << >>) EXCEPT !.exists = FALSE]

\* One session, in the middle of the paths; with a fork; with one beyond the limit; and files
\* that fit no family: circles, their own parent, a thread in two files, a parent that is
\* missing or younger than its fork.
ForkFamilies ==
  { <<Absent, Session(2, 0, 0, <<Event(1, 0)>>), Absent>>,
    <<Session(1, 2, 0, <<Event(1, 0), Event(2, 0)>>), Session(2, 0, 0, <<Event(1, 0)>>), Absent>>,
    <<Session(1, 2, 0, <<Event(1, 0), Event(2, 0), Event(3, 0)>>),
      Session(2, 0, 0, <<Event(1, 0), Event(2, 0)>>), Session(3, 1, 0, <<Event(1, 0)>>)>>,
    <<Session(1, 2, 0, << >>), Session(2, 3, 0, << >>), Session(3, 2, 0, <<Event(1, 0)>>)>>,
    <<Session(1, 1, 0, << >>), Session(2, 1, 0, << >>), Session(3, 0, 0, << >>)>>,
    <<Session(1, 2, 0, << >>), Session(2, 0, 0, << >>), Session(2, 0, 0, <<Event(1, 0)>>)>>,
    <<Session(1, 2, 0, << >>), Session(2, 3, 0, << >>), Session(3, 0, 0, <<Event(1, 1)>>)>>,
    <<Session(1, 2, 0, << >>), Session(2, 0, 1, <<Event(1, 1)>>), Session(3, 1, 1, << >>)>>,
    <<Session(1, 2, 0, << >>), Session(2, 9, 0, << >>), Session(3, 2, 0, << >>)>> }

VARIABLES machine,
  second, requests, stop, cooldowns, budgetClock, buckets, nextNumber, snapshots, cleaning,
  counted, pending, drained, made, writes,
  kind, file, pub, req, client, changes,
  rows, walk, moves,
  main, wal, head, tx, committed, count, insp, seen,
  root, dirs, files, cursor, slice, found, steady, moved, restless, treeChanges,
  sessions, now, said, harm, tables, cycle, calm

Failures == INSTANCE FailureSnapshots WITH Keys <- FailureKeys
Messages == INSTANCE SessionMessages WITH
  Text <- SessionText, MaxBytes <- MessageBytes
Lists == INSTANCE SessionLists WITH
  Keys <- RowKeys, MaxBytes <- ListBytes, MaxChanges <- MaxMoves
Replay == INSTANCE WalReplay
Roots == INSTANCE SessionDiscovery WITH
  Names <- RootNames, Layouts <- RootLayouts, Dates <- {<<"2024", "02", "29">>},
  MaxChanges <- MaxTreeChanges, changes <- treeChanges
Forks == INSTANCE ForkedSessions WITH
  Sources <- 1..3, Families <- ForkFamilies, file <- sessions, store <- tables

snapshotVars == <<second, requests, stop, cooldowns, budgetClock, buckets, nextNumber, snapshots,
                  cleaning, counted, pending, drained, made, writes>>
messageVars == <<kind, file, pub, req, client, changes>>
listVars == <<rows, walk, moves>>
replayVars == <<main, wal, head, tx, committed, count, insp, seen>>
rootVars == <<root, dirs, files, cursor, slice, found, steady, moved, restless, treeChanges>>
forkVars == <<sessions, now, said, harm, tables, cycle, calm>>

NoSnapshots ==
  /\ second = 0 /\ requests = 0 /\ stop = 0 /\ cooldowns = 0 /\ budgetClock = 0 /\ buckets = 0
  /\ nextNumber = 0 /\ snapshots = 0 /\ cleaning = 0 /\ counted = 0 /\ pending = 0
  /\ drained = 0 /\ made = 0 /\ writes = 0
NoMessages == kind = 0 /\ file = 0 /\ pub = 0 /\ req = 0 /\ client = 0 /\ changes = 0
NoLists == rows = 0 /\ walk = 0 /\ moves = 0
NoReplay ==
  /\ main = 0 /\ wal = 0 /\ head = 0 /\ tx = 0
  /\ committed = 0 /\ count = 0 /\ insp = 0 /\ seen = 0
NoRoot ==
  /\ root = 0 /\ dirs = 0 /\ files = 0 /\ cursor = 0 /\ slice = 0 /\ found = 0
  /\ steady = 0 /\ moved = 0 /\ restless = 0 /\ treeChanges = 0
NoForks ==
  /\ sessions = 0 /\ now = 0 /\ said = 0 /\ harm = 0 /\ tables = 0 /\ cycle = 0 /\ calm = 0

vars == <<machine, removalVars, pinnedVars, snapshotVars, messageVars, listVars, replayVars,
          rootVars, forkVars>>

Init ==
  /\ machine \in Machines
  /\ RemovalInit /\ PinnedInit
  /\ machine # "pinned" => platform = "unnamed"
  /\ IF machine = "snapshots" THEN Failures!SnapshotInit ELSE NoSnapshots
  /\ IF machine = "messages" THEN Messages!Init ELSE NoMessages
  /\ IF machine = "lists" THEN Lists!Init ELSE NoLists
  /\ IF machine = "replay" THEN Replay!Init ELSE NoReplay
  /\ IF machine = "roots" THEN Roots!Init ELSE NoRoot
  /\ IF machine = "forks" THEN Forks!Init ELSE NoForks

Next ==
  /\ UNCHANGED machine
  /\ \/ /\ machine = "removal" /\ RemovalNext
        /\ UNCHANGED <<pinnedVars, snapshotVars, messageVars, listVars, replayVars, rootVars,
                       forkVars>>
     \/ /\ machine = "pinned" /\ PinnedNext
        /\ UNCHANGED <<removalVars, snapshotVars, messageVars, listVars, replayVars, rootVars,
                       forkVars>>
     \/ /\ machine = "snapshots" /\ Failures!SnapshotNext
        /\ UNCHANGED <<removalVars, pinnedVars, messageVars, listVars, replayVars, rootVars,
                       forkVars>>
     \/ /\ machine = "messages" /\ Messages!Next
        /\ UNCHANGED <<removalVars, pinnedVars, snapshotVars, listVars, replayVars, rootVars,
                       forkVars>>
     \/ /\ machine = "lists" /\ Lists!Next
        /\ UNCHANGED <<removalVars, pinnedVars, snapshotVars, messageVars, replayVars, rootVars,
                       forkVars>>
     \/ /\ machine = "replay" /\ Replay!Next
        /\ UNCHANGED <<removalVars, pinnedVars, snapshotVars, messageVars, listVars, rootVars,
                       forkVars>>
     \/ /\ machine = "roots" /\ Roots!Next
        /\ UNCHANGED <<removalVars, pinnedVars, snapshotVars, messageVars, listVars, replayVars,
                       forkVars>>
     \/ /\ machine = "forks" /\ Forks!Next
        /\ UNCHANGED <<removalVars, pinnedVars, snapshotVars, messageVars, listVars, replayVars,
                       rootVars>>

Spec == Init /\ [][Next]_vars

-----------------------------------------------------------------------------
\* FailureSnapshots: the newest snapshots stay, within the budget, and no request
\* is lost from the counts (write_snapshot, remove_unretained).
NewestAreKept ==
  machine = "snapshots" =>
    Failures!NewestAreKept /\ Failures!WithinBudget /\ Failures!RequestsAreAccounted
\* What is read of a file or table that changes is one state of it.  SessionMessages:
\* following the cursors gives every message once, in one version; SessionLists: a walk
\* gives every row nobody touched exactly once; WalReplay: the inspection of a database at
\* rest reads one committed state (open_replayed, analyze_wal, index_wal,
\* ReplayedDatabase::read); SessionDiscovery: the slices of a walk emit every session file
\* that stayed exactly once, and a limit ends it only beyond the limit (scan_slice);
\* ForkedSessions: the usage of a family of forks is counted once (resolve_replay).
ReadsAreWhole ==
  /\ machine = "messages" => Messages!PagesAreWhole
  /\ machine = "lists" => Lists!WalksAreExact
  /\ machine = "replay" => Replay!InspectionSeesACommit
  /\ machine = "roots" => Roots!WalkIsExact /\ Roots!LimitsAreReached
  /\ machine = "forks" => Forks!ForksAreCountedOnce
=============================================================================
