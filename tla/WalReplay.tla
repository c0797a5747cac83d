------------------------------ MODULE WalReplay ------------------------------
(* Read-only inspection of the state database (wokcore-storage state/wal.rs   *)
(* and ReadOnlyStateStore): the doctor and client commands replay the         *)
(* write-ahead log themselves, into memory, without locks.                    *)
(*                                                                            *)
(* SQLite is external: a transaction appends one frame per page, the last one *)
(* carrying the size of the database; a checkpoint copies pages into the main *)
(* file, after which the log is cut off or written again from its start under *)
(* a new salt, the old frames staying behind.  Checksums are cumulative, so a *)
(* frame is good only after the frames it was written after.                  *)
EXTENDS Naturals, Sequences, SequencesExt, FiniteSetsExt

CONSTANTS
    MaxPages,   \* bound on the pages of the database
    MaxTx       \* bound on transactions

VARIABLES
    main,       \* the main file: the version of each page
    wal,        \* the frames in the log file
    head,       \* [salt, used, copied]: salt of the log, frames of it in use,
                \* and whether a checkpoint has copied all of them
    tx,         \* the transaction being written
    committed,  \* what SQLite answers: the version of each page
    count,      \* transactions begun
    insp,       \* the inspection
    seen        \* the committed states since the inspection began

writer == <<main, wal, head, tx, committed, count>>
vars == <<main, wal, head, tx, committed, count, insp, seen>>

NoTx == [left |-> {}, pages |-> {}, size |-> 0, start |-> 0]
Idle == [pc |-> "idle"]
Frame(p, commit, good) ==
    [page |-> p, commit |-> commit, salt |-> head.salt, ver |-> <<p, count>>, good |-> good]

-----------------------------------------------------------------------------
(* SQLite.                                                                    *)

\* Pages beyond the old size are new, so they are written.
Begin ==
    /\ tx = NoTx /\ count < MaxTx
    /\ \E size \in 1..MaxPages, pages \in SUBSET (1..MaxPages) :
         /\ \E p \in pages : p <= size
         /\ (Len(committed) + 1)..size \subseteq pages
         /\ LET used == IF head.copied THEN 0 ELSE head.used
            IN  /\ tx' = [left |-> pages, pages |-> pages, size |-> size, start |-> used]
                /\ head' = IF head.copied THEN [salt |-> head.salt + 1, used |-> 0, copied |-> FALSE]
                           ELSE head
    /\ count' = count + 1
    /\ UNCHANGED <<main, wal, committed>>

\* The log with frame f after the frames in use; the frames behind it no
\* longer follow what their checksums cover.
Written(f) ==
    [i \in 1..Max({Len(wal), head.used + 1}) |->
       IF i <= head.used THEN wal[i]
       ELSE IF i = head.used + 1 THEN f
       ELSE [wal[i] EXCEPT !.good = FALSE]]

WriteFrame(p) ==
    /\ p \in tx.left
    /\ LET last == tx.left = {p} IN
         /\ last => p <= tx.size
         /\ wal' = Written(Frame(p, IF last THEN tx.size ELSE 0, TRUE))
         /\ head' = [head EXCEPT !.used = @ + 1]
         /\ tx' = IF last THEN NoTx ELSE [tx EXCEPT !.left = @ \ {p}]
         /\ committed' = IF ~last THEN committed
                         ELSE [i \in 1..tx.size |-> IF i \in tx.pages THEN <<i, count>> ELSE committed[i]]
    /\ UNCHANGED <<main, count>>

\* The process ends in the middle of a transaction, perhaps having written the
\* header of its next frame and not its page; it is started again and goes on
\* after the last commit.
Kill ==
    /\ tx # NoTx
    /\ head' = [head EXCEPT !.used = tx.start]
    /\ tx' = NoTx
    /\ \/ wal' = wal
       \/ \E p \in tx.left : wal' = Written(Frame(p, IF tx.left = {p} THEN tx.size ELSE 0, FALSE))
    /\ UNCHANGED <<main, committed, count>>

\* A checkpoint copies pages in order, then gives the file its size.
CopyPage(p) ==
    /\ tx = NoTx /\ ~head.copied /\ head.used > 0
    /\ p <= Len(committed)
    /\ ~(p <= Len(main) /\ main[p] = committed[p])
    /\ p - 1 <= Len(main) /\ \A q \in 1..(p - 1) : main[q] = committed[q]
    /\ main' = [i \in 1..Max({p, Len(main)}) |-> IF i = p THEN committed[p] ELSE main[i]]
    /\ UNCHANGED <<wal, head, tx, committed, count>>

EndCheckpoint ==
    /\ tx = NoTx /\ ~head.copied /\ head.used > 0
    /\ Len(main) >= Len(committed) /\ SubSeq(main, 1, Len(committed)) = committed
    /\ main' = committed
    /\ head' = [head EXCEPT !.copied = TRUE]
    /\ UNCHANGED <<wal, tx, committed, count>>

Truncate ==
    /\ tx = NoTx /\ head.copied /\ wal # << >>
    /\ wal' = << >>
    /\ UNCHANGED <<main, head, tx, committed, count>>

SQLite ==
    /\ Begin \/ (\E p \in 1..MaxPages : WriteFrame(p) \/ CopyPage(p)) \/ Kill \/ EndCheckpoint \/ Truncate
    /\ insp # Idle => insp.pc \in {"done", "refused"}

-----------------------------------------------------------------------------
(* analyze_wal: the frames up to the last commit, and the size it gives.      *)

Commits(w, n) == {i \in 1..n : w[i].commit # 0}

\* tail_contains_commit
TailContainsCommit(w, salt, from) ==
    \E j \in from..Len(w) : w[j].commit # 0 /\ \A i \in from..j : w[i].salt = salt

AnalyzeWal(w, salt, pages) ==
    LET stop == Min({Len(w) + 1} \union {i \in DOMAIN w : w[i].salt # salt \/ ~w[i].good})
        done == Commits(w, stop - 1)
        damaged == /\ stop <= Len(w) /\ w[stop].salt = salt
                   /\ w[stop].commit # 0 \/ TailContainsCommit(w, salt, stop + 1)
        beyond == \E i \in done : w[i].page > w[i].commit
    IN  [bad |-> damaged \/ beyond, salt |-> salt,
         last |-> IF done = {} THEN 0 ELSE Max(done),
         size |-> IF done = {} THEN pages ELSE w[Max(done)].commit]

\* index_wal: the frame of each page, if it has one that no later commit cut
\* off, and how much of the main file is still part of the database.
IndexWal(w, plan, pages) ==
    [frame |-> [p \in 1..plan.size |->
        Max({0} \union {f \in 1..plan.last :
               w[f].page = p /\ \A i \in Commits(w, plan.last) : i >= f => w[i].commit >= p})],
     limit |-> Min({pages} \union {w[i].commit : i \in Commits(w, plan.last)})]

-----------------------------------------------------------------------------
(* ReadOnlyStateStore::open_path and open_replayed.                           *)

\* Without a log SQLite opens the main file; otherwise its length is taken.
OpenDatabase ==
    /\ insp = Idle
    /\ insp' = IF wal = << >> THEN [pc |-> "done", result |-> main]
               ELSE [pc |-> "log", pages |-> Len(main)]
    /\ seen' = {committed}

AnalyzeLog ==
    /\ insp.pc = "log"
    /\ LET plan == AnalyzeWal(wal, head.salt, insp.pages) IN
       insp' = IF wal = << >> \/ plan.bad THEN [pc |-> "refused"]
               ELSE [pc |-> "index", pages |-> insp.pages, plan |-> plan]
    /\ UNCHANGED seen

IndexLog ==
    /\ insp.pc = "index"
    /\ insp' = IF wal = << >> \/ AnalyzeWal(wal, head.salt, insp.pages) # insp.plan
               THEN [pc |-> "refused"]
               ELSE [pc |-> "read", pages |-> insp.pages,
                     index |-> IndexWal(wal, insp.plan, insp.pages), result |-> << >>]
    /\ UNCHANGED seen

\* ReplayedDatabase::read, a page at a time.
PageAt(p) ==
    LET f == insp.index.frame[p] IN
    IF f # 0 THEN wal[f].ver
    ELSE IF p <= insp.index.limit THEN main[p] ELSE <<p, 0>>

ReadPage ==
    /\ insp.pc = "read"
    /\ LET p == Len(insp.result) + 1
           f == insp.index.frame[p]
           short == IF f # 0 THEN f > Len(wal) ELSE p <= insp.index.limit /\ p > Len(main)
           result == Append(insp.result, PageAt(p))
       IN  insp' = IF short THEN [pc |-> "refused"]
                   ELSE IF p = Len(insp.index.frame) THEN [pc |-> "done", result |-> result]
                   ELSE [insp EXCEPT !.result = result]
    /\ UNCHANGED seen

Inspect == OpenDatabase \/ AnalyzeLog \/ IndexLog \/ ReadPage

-----------------------------------------------------------------------------
Init ==
    /\ \E n \in 1..MaxPages : committed = [i \in 1..n |-> <<i, 0>>]
    /\ main = committed
    /\ wal = << >> /\ head = [salt |-> 0, used |-> 0, copied |-> TRUE]
    /\ tx = NoTx /\ count = 0
    /\ insp = Idle /\ seen = {}

\* The service has ended, perhaps in the middle of a transaction.
Next ==
    \/ SQLite /\ UNCHANGED insp
       /\ seen' = IF insp = Idle THEN {} ELSE seen \union {committed'}
    \/ tx = NoTx /\ Inspect /\ UNCHANGED writer

Spec == Init /\ [][Next]_vars

-----------------------------------------------------------------------------
\* What open_replayed loads is a state some transaction left: no mix of two
\* commits, no page of an unfinished transaction, no page a smaller database
\* had dropped.  It is the last committed state (MIGRATION.md:245).
InspectionSeesACommit == insp.pc = "done" => insp.result \in seen
==============================================================================
