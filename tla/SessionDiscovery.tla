-------------------------- MODULE SessionDiscovery --------------------------
(***************************************************************************)
(* The enumeration of a session root in slices: a cursor that is a stack   *)
(* of directory frames, pages of names in their order, what each kind of   *)
(* client keeps where, the limits and deadlines of a slice, and programs   *)
(* that create, delete and archive files while the walk goes on.           *)
(***************************************************************************)
EXTENDS Naturals, Sequences, FiniteSets, SequencesExt, FiniteSetsExt

CONSTANTS Names,          \* the names in their order, with what the code reads in them
          Layouts,        \* roots: their kind, first directories and files, possible files
          Dates,          \* the dates among the names that a calendar has
          SliceEntries,   \* SessionDiscoverySliceBudget::maximum_entries
          PerDirectory, TotalEntries, TotalSessions,   \* DiscoveryLimits
          MaxDepth, MaxSubagents,                      \* of Claude's subagent directories
          MaxChanges      \* bound on the changes of the tree

VARIABLES root,           \* which of the layouts this root is
          dirs, files,    \* directories by path; files as [path, id]
          cursor,         \* SessionDiscoveryCursor, the working copy of the slice
          slice,          \* the slice in progress
          found,          \* how often each file was emitted in this cycle
          steady, moved,  \* files in place, or only archived, since the cycle began
          restless,       \* paths that changed since the cycle began
          changes

vars == <<root, dirs, files, cursor, slice, found, steady, moved, restless, changes>>
tree == <<root, dirs, files, steady, moved, restless, changes>>

Kind == Layouts[root].kind
Named(text) == CHOOSE i \in 1..Len(Names) : Names[i].text = text
Parent(path) == Front(path)
Name(path) == Names[Last(path)]

-----------------------------------------------------------------------------
(* Frames and roles                                                        *)

Frame(path, role) ==
    [path |-> path, role |-> role, after |-> 0, seen |-> 0, counted |-> FALSE]

initial_stack(k) ==
    CASE k = "codex" -> <<Frame(<<Named("archived_sessions")>>, "codex_files"),
                          Frame(<<Named("sessions")>>, "codex_years")>>
      [] k = "claude" -> <<Frame(<<Named("projects")>>, "claude_projects")>>
      [] k = "gemini" -> <<Frame(<<Named("tmp")>>, "gemini_projects")>>

is_calendar_month(name) == name.digits = 2 /\ name.value \in 1..12

is_calendar_day(year, month, name) ==
    LET leap == year % 4 = 0 /\ (year % 100 # 0 \/ year % 400 = 0)
        maximum == CASE month \in {1, 3, 5, 7, 8, 10, 12} -> 31
                     [] month \in {4, 6, 9, 11} -> 30
                     [] OTHER -> IF leap THEN 29 ELSE 28
    IN  name.digits = 2 /\ name.value \in 1..maximum

depth(frame) == Len(frame.path) - 4

\* The frame that a directory entry opens, if it does: entry_action's Descend.
Descends(frame, entry) ==
    LET path == Append(frame.path, entry)
        name == Names[entry]
        At(p, role) == {Frame(p, role)}
        When(c, frames) == IF c THEN frames ELSE {}
    IN  CASE frame.role = "codex_years" -> When(name.digits = 4, At(path, "codex_months"))
          [] frame.role = "codex_months" -> When(is_calendar_month(name), At(path, "codex_days"))
          [] frame.role = "codex_days" ->
               When(is_calendar_day(Names[frame.path[2]].value, Names[frame.path[3]].value, name),
                    At(path, "codex_files"))
          [] frame.role = "claude_projects" -> At(path, "claude_project")
          [] frame.role = "claude_project" ->
               At(Append(path, Named("subagents")), "claude_subagents")
          [] frame.role = "claude_subagents" -> At(path, "claude_subagents")
          [] frame.role = "gemini_projects" -> At(Append(path, Named("chats")), "gemini_chats")
          [] frame.role = "gemini_chats" -> At(path, "gemini_chat_directory")
          [] OTHER -> {}

Paths == {f.path : f \in files}

\* gemini_file_action: a legacy file counts while there is no current one of its stem.
Legacy(frame, name) ==
    /\ name.ext = "json" /\ name.session
    /\ ~\E p \in Paths : Parent(p) = frame.path /\ Name(p).ext = "jsonl" /\ Name(p).stem = name.stem

\* entry_action's Emit for a regular file.
Emits(frame, name) ==
    CASE frame.role \in {"codex_files", "claude_project", "claude_subagents",
                         "gemini_chat_directory"} -> name.ext = "jsonl"
      [] frame.role = "gemini_chats" ->
           (name.ext = "jsonl" /\ name.session) \/ Legacy(frame, name)
      [] OTHER -> FALSE

-----------------------------------------------------------------------------
(* The tree                                                                *)

\* What entries_page gives: the first entries beyond the key, with their snapshots,
\* all of one moment (the generations of the chain are compared afterwards).
Children(path) ==
    {[name |-> Last(d), dir |-> TRUE, id |-> 0] : d \in {e \in dirs : Len(e) > 1 /\ Parent(e) = path}}
    \cup {[name |-> Last(f.path), dir |-> FALSE, id |-> f.id] : f \in {g \in files : Parent(g.path) = path}}

Page(path, after, maximum) ==
    LET entries == SetToSortSeq({e \in Children(path) : e.name > after},
                                LAMBDA a, b : a.name < b.name)
    IN  [entries |-> SubSeq(entries, 1, Min({Len(entries), maximum})),
         more |-> Len(entries) > maximum]

FreshCursor(k) == [stack |-> initial_stack(k), total |-> 0, sessions |-> 0, subagents |-> 0]
NoSlice == [pc |-> "idle", processed |-> 0, page |-> <<>>, more |-> FALSE, outcome |-> "none"]
Nothing == [id \in {f.id : f \in Layouts[root].files} |-> 0]
Ids == {f.id : f \in files}

\* The cycle begins with the first slice of a cursor, on the tree of that moment.
Cycle ==
    /\ cursor' = FreshCursor(Kind) /\ found' = Nothing
    /\ steady' = Ids /\ moved' = {} /\ restless' = {}

Init ==
    /\ root \in DOMAIN Layouts
    /\ dirs = Layouts[root].dirs /\ files = Layouts[root].first
    /\ cursor = FreshCursor(Kind) /\ slice = NoSlice /\ found = Nothing
    /\ steady = Ids /\ moved = {} /\ restless = {} /\ changes = 0

Changed(paths) ==
    /\ changes < MaxChanges
    /\ changes' = changes + 1
    /\ restless' = restless \cup paths
    /\ UNCHANGED <<root, cursor, slice, found>>

Create(f) ==
    /\ f \in Layouts[root].files /\ f.id \notin Ids /\ f.path \notin Paths
    /\ Parent(f.path) \in dirs
    /\ files' = files \cup {f}
    /\ Changed({f.path})
    /\ UNCHANGED <<dirs, steady, moved>>

Delete(f) ==
    /\ files' = files \ {f}
    /\ steady' = steady \ {f.id} /\ moved' = moved \ {f.id}
    /\ Changed({f.path})
    /\ UNCHANGED dirs

\* Where each client keeps its sessions, path by path.
IsSession(path) ==
    LET n == Len(path)
        Is(i, text) == n >= i /\ Names[path[i]].text = text
        jsonl == Name(path).ext = "jsonl"
    IN  CASE Kind = "codex" ->
               /\ jsonl
               /\ \/ n = 2 /\ Is(1, "archived_sessions")
                  \/ /\ n = 5 /\ Is(1, "sessions")
                     /\ [i \in 1..3 |-> Names[path[i + 1]].text] \in Dates
          [] Kind = "claude" ->
               jsonl /\ Is(1, "projects") /\ (n = 3 \/ (n >= 5 /\ Is(4, "subagents")))
          [] Kind = "gemini" ->
               /\ Is(1, "tmp") /\ Is(3, "chats")
               /\ \/ n = 5 /\ jsonl
                  \/ n = 4 /\ Name(path).session /\ Name(path).ext \in {"json", "jsonl"}

\* Codex moves the file of an archived session and keeps its name.
Archive(f) ==
    /\ Kind = "codex" /\ Len(f.path) = 5 /\ IsSession(f.path)
    /\ LET path == <<Named("archived_sessions"), Last(f.path)>> IN
       /\ Parent(path) \in dirs /\ path \notin Paths
       /\ files' = (files \ {f}) \cup {[f EXCEPT !.path = path]}
       /\ Changed({f.path, path})
    /\ steady' = steady \ {f.id}
    /\ moved' = IF f.id \in steady THEN moved \cup {f.id} ELSE moved
    /\ UNCHANGED dirs

RemoveDirectory(d) ==
    /\ ~\E p \in Paths \cup dirs : Len(p) > Len(d) /\ IsPrefix(d, p)
    /\ dirs' = dirs \ {d}
    /\ Changed({d})
    /\ UNCHANGED <<files, steady, moved>>

Meddle ==
    \/ \E f \in Layouts[root].files : Create(f)
    \/ \E f \in files : Delete(f) \/ Archive(f)
    \/ \E d \in dirs : RemoveDirectory(d)

-----------------------------------------------------------------------------
(* scan_slice                                                              *)

Begin ==
    /\ slice.pc = "idle"
    /\ slice' = [NoSlice EXCEPT !.pc = "visiting"]
    /\ IF slice.outcome \in {"complete", "failed", "limit"} THEN Cycle
       ELSE UNCHANGED <<cursor, found, steady, moved, restless>>
    /\ UNCHANGED <<root, dirs, files, changes>>

Ends(outcome) == slice' = [NoSlice EXCEPT !.outcome = outcome]

\* A deadline is looked at after every entry and most frames that are left.
GoesOn(processed, page) ==
    \/ slice' = [slice EXCEPT !.pc = IF page = <<>> THEN "visiting" ELSE "handling",
                              !.processed = processed, !.page = page]
    \/ Ends("deadline")

Top == Last(cursor.stack)
Left(c) == [c EXCEPT !.stack = Front(@)]

\* count_claude_subagent_directory
Counts == Top.role = "claude_subagents" /\ ~Top.counted
Counted ==
    IF Counts
    THEN [cursor EXCEPT !.subagents = @ + 1, !.stack[Len(cursor.stack)].counted = TRUE]
    ELSE cursor

\* An error: the working copy and what it gathered are dropped, and the scanner drops
\* its cycle with them.
Fails(outcome) == Ends(outcome) /\ cursor' = cursor

\* With no entry left to spend, a single name decides between the end and the limit.
Exceeds(directory) == Page(directory, Top.after, 1).entries # <<>>

\* One turn of the loop: the end of the walk or of the slice, or the top frame.
ReadFrame ==
    LET left == Min({PerDirectory - Top.seen, TotalEntries - cursor.total})
        page == Page(Top.path, Top.after, Min({left, SliceEntries - slice.processed}))
    IN  \/ Counts /\ cursor.subagents = MaxSubagents /\ Fails("limit")
        \/ /\ ~(Counts /\ cursor.subagents = MaxSubagents)
           /\ IF left = 0
              THEN IF Exceeds(Top.path) THEN Fails("limit")
                   ELSE cursor' = Left(Counted) /\ slice' = slice
              ELSE IF page.entries = <<>>
              THEN cursor' = Left(Counted) /\ GoesOn(slice.processed, <<>>)
              ELSE /\ cursor' = Counted
                   /\ slice' = [slice EXCEPT !.pc = "handling", !.page = page.entries,
                                             !.more = page.more]

Visit ==
    /\ slice.pc = "visiting"
    /\ IF cursor.stack = <<>> THEN Ends("complete") /\ cursor' = cursor
       ELSE IF slice.processed = SliceEntries THEN Ends("entry_limit") /\ cursor' = cursor
       ELSE \/ Top.path \notin dirs /\ cursor' = Left(cursor) /\ GoesOn(slice.processed, <<>>)
            \/ Top.path \in dirs /\ ReadFrame
            \/ Fails("failed")
    /\ UNCHANGED <<tree, found>>

\* A page ends behind a directory that is entered: its names are read again later.
RestAfter(pushed, rest) == IF pushed THEN <<>> ELSE rest

\* One entry of the page; looking for the successor of a legacy file may fail.
Handle ==
    /\ slice.pc = "handling"
    /\ LET entry == Head(slice.page)
           pushed == IF entry.dir THEN SetToSeq(Descends(Top, entry.name)) ELSE <<>>
           emitted == ~entry.dir /\ Emits(Top, Names[entry.name])
           rest == RestAfter(pushed # <<>>, Tail(slice.page))
           marked == [cursor EXCEPT
               !.stack = Append(Front(@), [Top EXCEPT !.after = entry.name, !.seen = @ + 1]) \o pushed,
               !.total = @ + 1, !.sessions = IF emitted THEN @ + 1 ELSE @]
           atEnd == pushed = <<>> /\ rest = <<>> /\ ~slice.more
       IN  IF \/ entry.dir /\ Top.role = "claude_subagents" /\ depth(Top) = MaxDepth
              \/ emitted /\ cursor.sessions = TotalSessions
           THEN Fails("limit") /\ found' = found
           ELSE \/ ~entry.dir /\ Names[entry.name].ext = "json" /\ Fails("failed") /\ found' = found
                \/ /\ found' = IF emitted THEN [found EXCEPT ![entry.id] = @ + 1] ELSE found
                   /\ \/ Ends("deadline") /\ cursor' = marked
                      \/ /\ slice.processed + 1 = SliceEntries
                         /\ Ends("entry_limit") /\ cursor' = marked
                      \/ /\ slice.processed + 1 < SliceEntries
                         /\ cursor' = IF atEnd THEN Left(marked) ELSE marked
                         /\ slice' = [slice EXCEPT !.pc = IF rest = <<>> THEN "visiting" ELSE "handling",
                                                   !.processed = @ + 1, !.page = rest]
    /\ UNCHANGED tree

Next == Begin \/ Visit \/ Handle \/ Meddle

Spec == Init /\ [][Next]_vars

-----------------------------------------------------------------------------
TypeOK ==
    /\ Ids \subseteq DOMAIN found /\ steady \cup moved \subseteq Ids
    /\ slice.pc \in {"idle", "visiting", "handling"}
    /\ slice.processed \in 0..SliceEntries
    /\ cursor.total <= TotalEntries /\ cursor.sessions <= TotalSessions

Twin(path) == {p \in Paths \cup restless : Parent(p) = Parent(path) /\ p # path
                                          /\ Name(p).ext = "jsonl" /\ Name(p).stem = Name(path).stem}

\* A walk that says it is complete has emitted every session file that stayed where it
\* was exactly once, however its slices were cut and whatever changed around it, and
\* nothing that is no session; a file that was archived meanwhile it has emitted at
\* least once, so that no scanner takes it for deleted.  A legacy Gemini file counts
\* only without its successor.
WalkIsExact ==
    slice.outcome = "complete" =>
        \A f \in files :
            /\ f.id \in steady =>
                 LET legacy == Name(f.path).ext = "json" IN
                 \/ legacy /\ Twin(f.path) \cap restless # {}
                 \/ found[f.id] = IF IsSession(f.path) /\ ~(legacy /\ Twin(f.path) # {}) THEN 1 ELSE 0
            /\ f.id \in moved => found[f.id] >= 1

\* A walk of a tree at rest gives up for its limits only when the tree is beyond them:
\* a directory or a root that is exactly full is walked to its end.
LimitsAreReached ==
    slice.outcome = "limit" /\ changes = 0 =>
        \/ \E d \in dirs : Cardinality(Children(d)) > PerDirectory
        \/ Cardinality(dirs) + Cardinality(files) > TotalEntries
        \/ Cardinality({f \in files : IsSession(f.path)}) > TotalSessions
        \/ Cardinality({d \in dirs : Len(d) >= 4 /\ Names[d[4]].text = "subagents"}) > MaxSubagents
        \/ \E d \in dirs : Len(d) >= 4 /\ Names[d[4]].text = "subagents" /\ Len(d) - 4 > MaxDepth
=============================================================================
