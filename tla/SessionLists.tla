---------------------------- MODULE SessionLists ----------------------------
(* The paged session list and usage reports (wokcore-server api/sessions.rs   *)
(* and the page queries of state/store.rs).  A client follows next_cursor     *)
(* until there is none.  Every page is one SELECT of a live reader, so the    *)
(* index may change between any two of them; the only memory of a walk is the *)
(* key of the last row it was given.                                          *)
(*                                                                            *)
(* A row is a session (rank: last_active_at) or a usage bucket (rank: its     *)
(* total of tokens); rank 0 is a row that is not there.  Cursors are opaque   *)
(* to the client and bound to the filter, so a walk keeps its filter.         *)
EXTENDS Naturals, Sequences, SequencesExt, FiniteSetsExt

CONSTANTS
    Keys,       \* session and bucket keys, ordered naturals
    MaxRank,    \* bound on ranks
    Titled,     \* keys of sessions whose file shows a title
    PageRows,   \* rows of one index page (SESSION_LIST_MAX_LIMIT)
    Limit,      \* the limit the client asks for
    MaxBytes,   \* response budget; an item costs 1, its title 2 more
    MaxChanges  \* bound on moves of the index during the walk

VARIABLES rows, walk, moves
vars == <<rows, walk, moves>>

Reports == {"sessions", "day", "group"}
None == [none |-> TRUE]
Key(k) == [rank |-> rows[k].rank, key |-> k]

-----------------------------------------------------------------------------
(* The order of a report: sessions by activity and usage groups by tokens,    *)
(* most first, then by key; days latest first.                                *)

Precedes(what, a, b) ==
    IF what = "day" THEN a.key > b.key
    ELSE a.rank > b.rank \/ (a.rank = b.rank /\ a.key < b.key)

After(what, a, last) == last = None \/ Precedes(what, last, a)

\* The keys a SELECT returns, in order: the filter of a usage report is in its
\* WHERE clause, that of the session list is applied to the rows afterwards.
Selected(what, open, last) ==
    LET present == {k \in Keys : rows[k].rank > 0 /\ After(what, Key(k), last)
                                 /\ (what = "sessions" \/ ~open \/ rows[k].open)}
        before(k) == {j \in present : Precedes(what, Key(j), Key(k))}
    IN  [i \in 1..Cardinality(present) |->
           CHOOSE k \in present : Cardinality(before(k)) = i - 1]

FirstOf(seq, n) == SubSeq(seq, 1, Min({n, Len(seq)}))

Matches(k) == walk.open => rows[k].open

-----------------------------------------------------------------------------
(* The scanners publish between any two statements.                           *)

Change(k) ==
    /\ moves < MaxChanges
    /\ \E r \in 0..MaxRank, o \in BOOLEAN :
         /\ rows[k] # [rank |-> r, open |-> o]
         /\ rows' = [rows EXCEPT ![k] = [rank |-> r, open |-> o]]
    /\ moves' = moves + 1
    /\ walk' = [walk EXCEPT !.moved = @ \union {k}]

-----------------------------------------------------------------------------
(* build_session_list: pages until more than `limit` rows match.              *)

LoadPage ==
    /\ walk.what = "sessions" /\ walk.pc = "load"
    /\ LET found == Selected("sessions", FALSE, walk.after)
           page  == FirstOf(found, PageRows)
           items == FirstOf(walk.items \o SelectSeq(page, Matches), Limit + 1)
           taken == [i \in DOMAIN items |->
                       IF i <= Len(walk.keys) THEN walk.keys[i] ELSE Key(items[i])]
           ends  == Len(items) > Limit \/ Len(found) <= PageRows
       IN  walk' = [walk EXCEPT !.items = items, !.keys = taken,
                      !.pc = IF ends THEN "answer" ELSE "load",
                      !.after = IF ends THEN @ ELSE Key(Last(page))]
    /\ UNCHANGED <<rows, moves>>

\* The rest of build_session_list: titles are read for the items kept; when
\* the response is too large all titles go first, then the last items, and
\* then there is more.
ItemCost(k) == IF k \in Titled /\ rows[k].open THEN 3 ELSE 1

Shown ==
    LET kept == Min({Len(walk.items), Limit})
        full == FoldLeft(LAMBDA n, k : n + ItemCost(k), 0, FirstOf(walk.items, kept))
    IN  IF full <= MaxBytes THEN kept ELSE Min({kept, MaxBytes})

AnswerList ==
    /\ walk.what = "sessions" /\ walk.pc = "answer"
    /\ LET n == Shown IN
       walk' = [walk EXCEPT !.listed = @ \o FirstOf(walk.items, n), !.items = << >>, !.keys = << >>,
                  !.after = IF n < Len(walk.items) THEN walk.keys[n] ELSE None,
                  !.pc = IF n < Len(walk.items) THEN "load" ELSE "done"]
    /\ UNCHANGED <<rows, moves>>

-----------------------------------------------------------------------------
(* build_usage: the totals and the buckets are two statements.                *)

SumOf(ks) == FoldSet(LAMBDA k, n : n + rows[k].rank, 0, ks)

ReadTotals ==
    /\ walk.what # "sessions" /\ walk.pc = "load"
    /\ walk' = [walk EXCEPT !.pc = "buckets", !.totals = SumOf({k \in Keys : Matches(k)})]
    /\ UNCHANGED <<rows, moves>>

ReadBuckets ==
    /\ walk.pc = "buckets"
    /\ LET found == Selected(walk.what, walk.open, walk.after)
           page  == FirstOf(found, Limit)
       IN  walk' = [walk EXCEPT !.listed = @ \o page,
                      !.sum = @ + SumOf(ToSet(page)),
                      !.after = IF Len(found) > Limit THEN Key(Last(page)) ELSE None,
                      !.pc = IF Len(found) > Limit THEN "load" ELSE "done"]
    /\ UNCHANGED <<rows, moves>>

-----------------------------------------------------------------------------
Init ==
    /\ rows \in [Keys -> [rank : 1..MaxRank, open : BOOLEAN]]
    /\ moves = 0
    /\ \E what \in Reports, open \in BOOLEAN :
         walk = [what |-> what, open |-> open, pc |-> "load", after |-> None, items |-> << >>,
                 keys |-> << >>, listed |-> << >>, totals |-> 0, sum |-> 0, moved |-> {}]

Walk == LoadPage \/ AnswerList \/ ReadTotals \/ ReadBuckets

Next == (walk.pc # "done" /\ \E k \in Keys : Change(k)) \/ Walk

Spec == Init /\ [][Next]_vars

-----------------------------------------------------------------------------
\* A walk to the end of the list or of a usage report gives every matching row
\* that nobody touched meanwhile, exactly once, whatever moved around it and
\* however pages were cut short (build_session_list and
\* load_global_current_session_usage_aggregate_page page by key); a report that
\* nothing touched adds up to the totals it states.
WalksAreExact ==
    walk.pc = "done" =>
        /\ \A k \in Keys \ walk.moved :
             Cardinality({i \in DOMAIN walk.listed : walk.listed[i] = k})
               = IF rows[k].rank > 0 /\ Matches(k) THEN 1 ELSE 0
        /\ (walk.what # "sessions" /\ walk.moved = {}) => walk.sum = walk.totals
=============================================================================
