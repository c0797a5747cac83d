--------------------------- MODULE ForkedSessions ---------------------------
(***************************************************************************)
(* Forked Codex sessions.  A fork begins with a copy of the usage events   *)
(* of its parent and says so in its metadata; the scanner orders the files *)
(* by their descent, finds how many events a fork repeats, checks that it  *)
(* repeats exactly those, and counts only the others.                      *)
(*                                                                         *)
(* An event is its number and the second it happened in; its signature and *)
(* the chain of signatures, keyed hashes in the code, are the event and    *)
(* the sequence of events.  Each file is read at once (CodexScan has the   *)
(* steps), cleanups of old generations are complete, and the candidate     *)
(* that only carries a failure is left out.                                *)
(***************************************************************************)
EXTENDS Naturals, Sequences, FiniteSets, SequencesExt, FiniteSetsExt

CONSTANTS Sources,      \* source keys, in the order of their paths
          Families,     \* the files there may be at first
          MaxEvents, MaxSecond, MaxHarm,    \* bounds
          ReplayLimit,  \* MAX_CODEX_REPLAY_SIGNATURES
          MaxChildren,  \* MAX_REPLAY_CHILDREN_PER_PARENT
          BatchRows,    \* SESSION_BATCH_ROW_TARGET
          Stop          \* stop_after_committed_batches

VARIABLES file,         \* the session files
          now, said, harm,
          store,        \* the tables, by source
          cycle,        \* CodexSliceCycle
          calm          \* no file changed since the cycle began

vars == <<file, now, said, harm, store, cycle, calm>>

Absent == [exists |-> FALSE, thread |-> 0, parent |-> 0, created |-> 0, log |-> <<>>]

\* The parent, its generation and the events repeated of it.
NotForked == [parent |-> 0, generation |-> 0, boundary |-> <<>>]

FreshCursor(lineage) == [log |-> <<>>, usage |-> {}, verified |-> 0, lineage |-> lineage]

Unrecorded ==
    [generation |-> 0, current |-> <<>>, result |-> "none", staging |-> <<>>,
     status |-> "none", error |-> "none"]

-----------------------------------------------------------------------------
(* The order of descent: ReplayTopology::build over the inspected files.   *)

Unresolved == 0
InvalidDepth == Cardinality(Sources) + 2

With(meta, thread) == {s \in DOMAIN meta : meta[s].thread = thread}

\* edge_for
Edge(meta, s) ==
    LET parents == With(meta, meta[s].parent)
    IN  CASE meta[s].parent = 0 -> [kind |-> "root"]
          [] meta[s].parent # 0 /\ parents = {} -> [kind |-> "invalid", code |-> "parent_missing"]
          [] meta[s].parent # 0 /\ parents # {} /\ (Cardinality(parents) # 1 \/ s \in parents) ->
               [kind |-> "invalid", code |-> "parent_ambiguous"]
          [] OTHER -> [kind |-> "parent", of |-> CHOOSE p \in parents : TRUE]

\* Depths count from 1 here.
Settled(t, nodes, depth, code) ==
    [depths |-> [s \in DOMAIN t.depths |-> IF s \in nodes THEN depth ELSE t.depths[s]],
     errors |-> [s \in DOMAIN t.errors |-> IF s \in nodes THEN code ELSE t.errors[s]]]

\* Up from `at` until a file whose depth is known or can be told; a circle is invalid.
RECURSIVE Climb(_, _, _, _)
Climb(meta, t, path, at) ==
    LET edge == Edge(meta, at)
        next == Append(path, at)
    IN  CASE t.depths[at] # Unresolved -> [t |-> t, path |-> path]
          [] t.depths[at] = Unresolved /\ Contains(path, at) ->
               [t |-> Settled(t, {path[i] : i \in SelectInSeq(path, LAMBDA x : x = at)..Len(path)},
                              InvalidDepth, "inconsistent"),
                path |-> path]
          [] OTHER ->
               CASE edge.kind = "root" -> [t |-> Settled(t, {at}, 1, "none"), path |-> next]
                 [] edge.kind = "invalid" ->
                      [t |-> Settled(t, {at}, InvalidDepth, edge.code), path |-> next]
                 [] OTHER -> Climb(meta, t, next, edge.of)

\* Back down the path: one deeper than the parent, or invalid with it.
Descend(meta, node, t) ==
    LET parent == Edge(meta, node).of IN
    IF t.depths[node] # Unresolved THEN t
    ELSE IF t.errors[parent] # "none" THEN Settled(t, {node}, InvalidDepth, "inconsistent")
    ELSE Settled(t, {node}, t.depths[parent] + 1, "none")

Build(meta) ==
    LET Start == [depths |-> [s \in DOMAIN meta |-> Unresolved],
                  errors |-> [s \in DOMAIN meta |-> "none"]]
        From(t, s) == LET up == Climb(meta, t, <<>>, s)
                      IN  FoldRight(LAMBDA node, u : Descend(meta, node, u), up.path, up.t)
    IN  FoldLeft(From, Start, SetToSortSeq(DOMAIN meta, LAMBDA a, b : a < b))

-----------------------------------------------------------------------------
(* The programs that write sessions.                                       *)

Disturbed == calm' = FALSE /\ UNCHANGED <<store, cycle>>

\* Time is seen only by what is written.
Passes == now' \in now..MaxSecond

Say(s) ==
    /\ file[s].exists /\ said < MaxEvents
    /\ said' = said + 1 /\ Passes
    /\ file' = [file EXCEPT ![s].log = Append(@, [id |-> said + 1, at |-> now'])]
    /\ Disturbed /\ UNCHANGED harm

Fork(s, p) ==
    /\ ~file[s].exists /\ file[s].thread = 0 /\ file[p].exists
    /\ Passes
    /\ file' = [file EXCEPT ![s] = [exists |-> TRUE, thread |-> s, parent |-> file[p].thread,
                                    created |-> now', log |-> file[p].log]]
    /\ Disturbed /\ UNCHANGED <<said, harm>>

\* A file is cut off, moved away, or back.
Harm(s) ==
    /\ harm < MaxHarm /\ harm' = harm + 1
    /\ file[s].thread # 0
    /\ \/ /\ file[s].exists /\ file[s].log # <<>>
          /\ file' = [file EXCEPT ![s].log = Front(@)]
       \/ file' = [file EXCEPT ![s].exists = ~@]
    /\ Disturbed /\ UNCHANGED <<now, said>>

-----------------------------------------------------------------------------
(* The cycle.                                                              *)

NoCache == [parent |-> 0, error |-> "inconsistent", generation |-> 0, boundaries |-> <<>>]
NoCycle == [phase |-> "none", meta |-> <<>>, topology |-> [depths |-> <<>>, errors |-> <<>>],
            depth |-> 0, processed |-> {}, cache |-> NoCache]

Fail(x, code) ==
    [x EXCEPT !.status = IF x.current # <<>> THEN "stale" ELSE "unavailable", !.error = code]

Depths(topology) == {topology.depths[s] : s \in DOMAIN topology.depths}

\* The end of the discovery: prepare_processing.
Discover ==
    LET found == {s \in Sources : file[s].exists}
        meta == [s \in found |-> [thread |-> file[s].thread, parent |-> file[s].parent,
                                  created |-> file[s].created]]
        topology == Build(meta)
    IN  /\ cycle.phase # "processing" /\ found # {}
        /\ cycle' = [NoCycle EXCEPT !.phase = "processing", !.meta = meta, !.topology = topology,
                                    !.depth = Min(Depths(topology))]
        /\ store' = [s \in Sources |-> IF s \notin found /\ store[s].status # "none"
                                       THEN Fail(store[s], "absent") ELSE store[s]]
        /\ calm' = TRUE
        /\ UNCHANGED <<file, now, said, harm>>

Members == {s \in DOMAIN cycle.meta : cycle.topology.depths[s] = cycle.depth}

\* A walk of the files has met all that are left at this depth.
NextDepth ==
    LET deeper == {d \in Depths(cycle.topology) : d > cycle.depth}
    IN  /\ cycle.phase = "processing"
        /\ \A s \in Members \ cycle.processed : ~file[s].exists
        /\ cycle' = IF deeper = {} THEN [NoCycle EXCEPT !.phase = "complete"]
                    ELSE [cycle EXCEPT !.depth = Min(deeper)]
        /\ UNCHANGED <<file, now, said, harm, store, calm>>

-----------------------------------------------------------------------------
(* What a fork repeats.                                                    *)

\* The fault of a fork and an event of its parent in the same second.
FirstNotBefore(log, created) ==
    SelectInSeq(log, LAMBDA e : e.at >= created)

\* The first event of the parent that is later than the fork, 0 if there is none.
FirstLater(log, created) == SelectInSeq(log, LAMBDA e : e.at > created)

Repeated(log, created) ==
    LET later == FirstLater(log, created) IN IF later = 0 THEN log ELSE SubSeq(log, 1, later - 1)

\* load_replay_group: the boundaries of all the forks of a parent, from its signatures.
LoadGroup(p) ==
    LET x == store[p]
        children == {c \in Members : cycle.meta[c].parent = cycle.meta[p].thread}
        Deferred(code) == [NoCache EXCEPT !.parent = p, !.error = code]
    IN  IF Cardinality(children) > MaxChildren THEN Deferred("replay_limit")
        ELSE IF x.status = "none" THEN Deferred("parent_missing")
        ELSE IF x.status # "available" \/ x.result # "advanced" THEN Deferred("inconsistent")
        ELSE IF Len(x.current[1].log) > ReplayLimit THEN Deferred("replay_limit")
        ELSE [parent |-> p, error |-> "none", generation |-> x.generation,
              boundaries |-> [c \in children |->
                                Repeated(x.current[1].log, cycle.meta[c].created)]]

\* The cache holds one group; the files of a depth are met in any order.
CacheFor(s) ==
    LET edge == Edge(cycle.meta, s)
    IN  IF edge.kind # "parent" \/ cycle.topology.errors[s] # "none" THEN cycle.cache
        ELSE IF cycle.cache.parent = edge.of THEN cycle.cache ELSE LoadGroup(edge.of)

\* resolve_replay, behind the errors of the topology.
Resolve(s, cache) ==
    LET edge == Edge(cycle.meta, s)
        Deferred(code) == [code |-> code, lineage |-> NotForked]
    IN  IF cycle.topology.errors[s] # "none" THEN Deferred(cycle.topology.errors[s])
        ELSE IF edge.kind = "root" THEN [code |-> "none", lineage |-> NotForked]
        ELSE IF cache.error # "none" THEN Deferred(cache.error)
        ELSE IF cycle.meta[edge.of].created > cycle.meta[s].created THEN Deferred("inconsistent")
        ELSE [code |-> "none",
              lineage |-> [parent |-> edge.of, generation |-> cache.generation,
                           boundary |-> cache.boundaries[s]]]

-----------------------------------------------------------------------------
(* process_source                                                          *)

\* The file continues what the cursor has read, and descends from the same events.
Continues(c, log, lineage) == IsPrefix(c.log, log) /\ c.lineage = lineage

\* One event: verified against the parent while it is repeated, counted afterwards; a
\* batch is committed when it has its rows, and the limit of batches interrupts.
Read(p, e) ==
    LET c == p.cursor
        replayed == Len(c.lineage.boundary)
        repeats == c.verified < replayed
        next == [c EXCEPT !.log = Append(@, e),
                          !.verified = IF repeats THEN @ + 1 ELSE @,
                          !.usage = IF repeats THEN @ ELSE @ \cup {e.id}]
        rows == p.rows + IF repeats THEN 1 ELSE 2
        full == rows >= BatchRows
    IN  IF p.out # "reading" THEN p
        ELSE IF Len(next.log) > ReplayLimit THEN [p EXCEPT !.out = "replay_limit"]
        ELSE IF repeats /\ next.verified = replayed /\ next.log # c.lineage.boundary
        THEN [p EXCEPT !.out = "inconsistent"]
        ELSE [p EXCEPT !.cursor = next, !.rows = IF full THEN 0 ELSE rows,
                       !.saved = IF full THEN next ELSE @,
                       !.committed = IF full THEN @ + 1 ELSE @,
                       !.result = IF full THEN "deferred" ELSE @,
                       !.out = IF full /\ p.committed + 1 >= Stop THEN "interrupted" ELSE @]

\* The whole file: behind its last event everything repeated must have been met, and the
\* terminal batch is committed like the others.
Parse(cursor, result, events, committed) ==
    LET start == [cursor |-> cursor, saved |-> cursor, rows |-> 0, committed |-> committed,
                  result |-> result, out |-> "reading"]
        p == FoldLeft(Read, start, events)
    IN  IF p.out # "reading" THEN p
        ELSE IF SubSeq(p.cursor.log, 1, p.cursor.verified) # cursor.lineage.boundary
        THEN [p EXCEPT !.out = "inconsistent"]
        ELSE [p EXCEPT !.saved = p.cursor, !.result = "advanced",
                       !.out = IF p.committed + 1 >= Stop THEN "interrupted" ELSE "advanced"]

\* The tables behind the parse of a candidate or of an append.
Written(x, p, candidate) ==
    IF p.out = "advanced"
    THEN [x EXCEPT !.generation = IF candidate THEN @ + 1 ELSE @, !.current = <<p.cursor>>,
                   !.result = "advanced", !.staging = IF candidate THEN <<>> ELSE @,
                   !.status = "available", !.error = "none"]
    ELSE IF candidate THEN Fail([x EXCEPT !.staging = <<p.saved>>], p.out)
    ELSE Fail([x EXCEPT !.current = <<p.saved>>, !.result = p.result], p.out)

\* process_codex_slice_source; earlier files of the slice may have committed batches.
Process(s) ==
    /\ cycle.phase = "processing" /\ s \in Members \ cycle.processed /\ file[s].exists
    /\ \E committed \in 0..Stop - 1 :
       LET x == store[s]
           log == file[s].log
           cache == CacheFor(s)
           replay == Resolve(s, cache)
           kept == x.current # <<>> /\ Continues(x.current[1], log, replay.lineage)
           resumed == x.staging # <<>> /\ Continues(x.staging[1], log, replay.lineage)
           from == IF kept THEN x.current[1] ELSE IF resumed THEN x.staging[1]
                   ELSE FreshCursor(replay.lineage)
           unchanged == /\ kept /\ x.current[1].log = log /\ x.result = "advanced"
                        /\ x.status = "available" \/ x.error \in {"absent", "interrupted"}
           p == Parse(from, x.result, SubSeq(log, Len(from.log) + 1, Len(log)), committed)
           done == replay.code # "none" \/ unchanged \/ p.out # "interrupted"
       IN  /\ store' = [store EXCEPT ![s] =
                IF replay.code # "none" THEN Fail(x, replay.code)
                ELSE IF unchanged THEN [x EXCEPT !.status = "available", !.error = "none"]
                ELSE Written(x, p, ~kept)]
           /\ cycle' = [cycle EXCEPT !.cache = cache,
                                     !.processed = IF done THEN @ \cup {s} ELSE @]
    /\ UNCHANGED <<file, now, said, harm, calm>>

-----------------------------------------------------------------------------
Init ==
    /\ file \in Families
    /\ now = 0 /\ harm = 0
    /\ said = Max({0} \cup {e.id : e \in UNION {Range(file[s].log) : s \in Sources}})
    /\ store = [s \in Sources |-> Unrecorded]
    /\ cycle = NoCycle /\ calm = FALSE

Next ==
    \/ Discover \/ NextDepth
    \/ \E s \in Sources : Say(s) \/ Harm(s) \/ Process(s) \/ \E p \in Sources : Fork(s, p)

Spec == Init /\ [][Next]_vars

-----------------------------------------------------------------------------
Parents(s) == {p \in Sources : file[p].exists /\ file[p].thread = file[s].parent}

\* What makes a file one that can be counted: no parent, or one parent that is such a file,
\* older, and all of whose events until the fork the file repeats.
RECURSIVE Sound(_, _)
Sound(s, steps) ==
    /\ file[s].exists /\ Len(file[s].log) <= ReplayLimit
    /\ \/ file[s].parent = 0
       \/ /\ steps > 0 /\ Cardinality(Parents(s)) = 1
          /\ \A p \in Parents(s) :
               /\ Sound(p, steps - 1) /\ file[p].created <= file[s].created
               /\ Cardinality({c \in Sources : file[c].exists /\ file[c].parent = file[p].thread})
                    <= MaxChildren
               /\ IsPrefix(Repeated(file[p].log, file[s].created), file[s].log)

Available(s) == store[s].status = "available"
Usage(s) == store[s].current[1].usage

\* A cycle of the scanner that no change of the files disturbed makes exactly the sound
\* files available, whatever the order of the paths, the interruptions and the generations
\* before; and it counts every event of theirs in exactly one session: a fork does not
\* count again what its parent said, and loses nothing of its own.
ForksAreCountedOnce ==
    cycle.phase = "complete" /\ calm =>
        /\ \A s \in Sources : file[s].exists => (Available(s) <=> Sound(s, Cardinality(Sources)))
        /\ (\A s, t \in Sources : file[s].exists /\ file[t].exists /\ s # t
                                    => file[s].thread # file[t].thread) =>
             \A s \in Sources : file[s].exists /\ Available(s) =>
               \A e \in Range(file[s].log) :
                 Cardinality({t \in Sources : Available(t) /\ e.id \in Usage(t)}) = 1
=============================================================================
