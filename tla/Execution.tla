----------------------------- MODULE Execution -----------------------------
(***************************************************************************)
(* The execution of requests on the accounts of a Provider: the groups of  *)
(* one authentication kind tried in turn (data_plane/execute.rs), at most  *)
(* two attempts each (engine execution.rs, retry.rs), and the selection of *)
(* accounts from a table that all requests share without a common lock     *)
(* (engine accounts.rs).  The health record of an account is what a shard  *)
(* mutex guards; an Option<u64> deadline is a set with at most one member. *)
(* The quota fields are left out: the service makes no Quota observation.  *)
(***************************************************************************)
EXTENDS Integers, Sequences, FiniteSets

CONSTANTS
  Requests,      \* tasks of the data plane, each serving one request at a time
  Groups,        \* the accounts of the route, grouped by authentication
  NoAccount,     \* the best candidate of a scan that found none
  FailureKinds,  \* the failures an upstream can report, by retry class
  Hints,         \* the retry_after hints it can send, 0 for none
  BaseDelay,     \* base_delay_ms of the retry policy
  MaxDelay,      \* maximum_delay_ms
  BaseCooldown,  \* base_cooldown_ms of the health policy, in clock ticks
  MaxCooldown,   \* max_cooldown_ms
  FailureWidth,  \* the largest u8: failures saturate there
  RestorableFailures, \* the largest failure count that restore accepts
  MaxTime,       \* bound on the clock
  MaxSelections  \* bound on the selection sequence

Accounts == UNION {{Groups[g][i] : i \in DOMAIN Groups[g]} : g \in DOMAIN Groups}
MaxTotalAttempts == 2

-----------------------------------------------------------------------------
(* The health record                                                       *)

Lesser(m, n) == IF m <= n THEN m ELSE n
Greater(m, n) == IF m <= n THEN n ELSE m

\* AccountState::default
Fresh == [failures |-> 0, cooldown |-> {}, quarantined |-> FALSE, count |-> 0, last |-> 0]

\* A deadline that has passed is forgotten.
Normalize(s, now) == [s EXCEPT !.cooldown = {until \in @ : until > now}]

\* The fault of a status that does not look at the quarantine.
StatusWithoutQuarantine(s) == IF s.cooldown # {} THEN "cooling_down" ELSE "healthy"

Status(s) ==
  IF s.quarantined THEN "quarantined" ELSE StatusWithoutQuarantine(s)

\* The exponential backoff in the policy's bounds, or the bounded server hint.
Cooldown(failures, hint) ==
  Greater(Lesser(BaseCooldown * 2^(failures - 1), MaxCooldown), Lesser(hint, MaxCooldown))

\* observe: kind is the observation, hint its retry_after_ms.
Observed(s, kind, hint, now) ==
  LET n == Normalize(s, now)
      failures == Lesser(n.failures + 1, FailureWidth)
  IN CASE kind = "success" ->
            [n EXCEPT !.failures = 0, !.cooldown = {}, !.quarantined = FALSE]
       [] kind \in {"rate_limited", "temporary"} ->
            [n EXCEPT !.failures = failures, !.cooldown = {now + Cooldown(failures, hint)}]
       [] kind = "credentials" ->
            [n EXCEPT !.failures = failures, !.cooldown = {}, !.quarantined = TRUE]
       [] OTHER -> s

\* mark_selected, under the shard lock
Marked(s, sequence) == [s EXCEPT !.count = @ + 1, !.last = sequence]

\* compare_weighted_usage with the weight 1 that the data plane gives to every
\* candidate: fewer selections, then the older selection.
LessUsed(c, d) == c.count < d.count \/ (c.count = d.count /\ c.last < d.last)

\* What restore (and so reconfigured) accepts of a snapshot.
Restorable(s) ==
  /\ s.failures <= RestorableFailures
  /\ s.count <= s.last
  /\ s.count = 0 => s.last = 0
  /\ ~ (s.cooldown # {} /\ s.quarantined)

-----------------------------------------------------------------------------
(* The requests                                                            *)

VARIABLES
  clock,       \* the system clock, which no request reads twice in an attempt
  table,       \* the account health table
  sequence,    \* selection_sequence
  task,        \* the progress of each request
  bystanders,  \* history: who had chosen an account when it was quarantined
  disturbed    \* history: some account has been cooled down or quarantined

history == <<bystanders, disturbed>>
vars == <<clock, table, sequence, task, history>>

NoCandidate == [account |-> NoAccount, count |-> 0, last |-> 0]
Idle == [pc |-> "idle", accountless |-> FALSE, group |-> 1, ordinal |-> 1, now |-> 0, next |-> 1,
         best |-> NoCandidate, seq |-> 0, until |-> 0, attempts |-> <<>>]

Init ==
  /\ clock = 0 /\ table = [a \in Accounts |-> Fresh] /\ sequence = 0
  /\ task = [r \in Requests |-> Idle]
  /\ bystanders = [a \in Accounts |-> {}] /\ disturbed = FALSE

\* Bound: the clock stops at MaxTime.
Tick ==
  /\ clock < MaxTime /\ clock' = clock + 1
  /\ UNCHANGED <<table, sequence, task, history>>

Moves(r, t) == task' = [task EXCEPT ![r] = t]
Ends(t) ==
  [Idle EXCEPT !.pc = "done", !.accountless = t.accountless, !.attempts = t.attempts]

\* execute_canonical with a route of the current snapshot.  Bound: sequence.
Start(r) ==
  /\ task[r].pc \in {"idle", "done"}
  /\ sequence + MaxTotalAttempts * Cardinality(Requests) <= MaxSelections
  /\ \E accountless \in BOOLEAN :
       Moves(r, [Idle EXCEPT !.pc = "loop", !.accountless = accountless])
  /\ UNCHANGED <<clock, table, sequence, history>>

\* The head of the attempt loop: the time is read once for the whole attempt.
Loop(r) ==
  /\ task[r].pc = "loop"
  /\ IF task[r].accountless
     THEN Moves(r, [task[r] EXCEPT !.pc = "attempt", !.now = clock,
                                   !.attempts = Append(@, NoAccount)])
     ELSE Moves(r, [task[r] EXCEPT !.pc = "scan", !.now = clock, !.next = 1, !.best = NoCandidate])
  /\ UNCHANGED <<clock, table, sequence, history>>

Candidates(r) == Groups[task[r].group]

\* select_from reads one candidate under its shard lock, normalizing it.
Scan(r) ==
  /\ task[r].pc = "scan" /\ task[r].next <= Len(Candidates(r))
  /\ LET a == Candidates(r)[task[r].next]
         s == Normalize(table[a], task[r].now)
         c == [account |-> a, count |-> s.count, last |-> s.last]
         best == task[r].best
         replace == /\ Status(s) = "healthy"
                    /\ best = NoCandidate \/ LessUsed(c, best)
     IN /\ table' = [table EXCEPT ![a] = s]
        /\ Moves(r, [task[r] EXCEPT !.next = @ + 1, !.best = IF replace THEN c ELSE best])
  /\ UNCHANGED <<clock, sequence, history>>

Scanned(r) == task[r].pc = "scan" /\ task[r].next > Len(Candidates(r))

\* The fault of trying the next group although an attempt was made.
NextGroupAlways(r) ==
  IF task[r].group < Len(Groups)
  THEN [task[r] EXCEPT !.pc = "loop", !.group = @ + 1, !.ordinal = 1]
  ELSE Ends(task[r])

\* NoEligibleAccount moves on to the next authentication only when the history
\* of attempts is empty.
NextGroup(r) ==
  IF task[r].attempts = <<>> THEN NextGroupAlways(r) ELSE Ends(task[r])

NoEligible(r) ==
  /\ Scanned(r) /\ task[r].best = NoCandidate
  /\ Moves(r, NextGroup(r))
  /\ UNCHANGED <<clock, table, sequence, history>>

\* mark_selected: the atomic increment, then the record under its lock.
TakeSequence(r) ==
  /\ Scanned(r) /\ task[r].best # NoCandidate
  /\ sequence' = sequence + 1
  /\ Moves(r, [task[r] EXCEPT !.pc = "mark", !.seq = sequence + 1])
  /\ UNCHANGED <<clock, table, history>>

MarkSelected(r) ==
  /\ task[r].pc = "mark"
  /\ LET a == task[r].best.account
     IN /\ table' = [table EXCEPT ![a] = Marked(@, task[r].seq)]
        /\ Moves(r, [task[r] EXCEPT !.pc = "attempt", !.seq = 0, !.next = 1,
                                      !.best = [NoCandidate EXCEPT !.account = a],
                                      !.attempts = Append(@, a)])
  /\ UNCHANGED <<clock, sequence, history>>

\* What the health table is told of an attempt, at the time of its start.
Observe(r, kind, hint) ==
  IF task[r].accountless
  THEN UNCHANGED <<table, history>>
  ELSE LET a == task[r].best.account
       IN /\ table' = [table EXCEPT ![a] = Observed(@, kind, hint, task[r].now)]
          /\ bystanders' =
               IF kind = "credentials"
               THEN [bystanders EXCEPT ![a] =
                       {q \in Requests : task[q].best.account = a
                                         /\ task[q].pc \in {"scan", "mark", "attempt"}} \ {r}]
               ELSE [b \in Accounts |-> bystanders[b] \ {r}]
          /\ disturbed' = (disturbed \/ kind \in {"credentials", "rate_limited", "temporary"})

Succeed(r) ==
  /\ task[r].pc = "attempt"
  /\ Observe(r, "success", 0)
  /\ Moves(r, Ends(task[r]))
  /\ UNCHANGED <<clock, sequence>>

\* RetryPolicy::delay_ms
Delay(kind, hint) ==
  IF kind = "rate_limited" THEN Greater(BaseDelay, Lesser(hint, MaxDelay)) ELSE BaseDelay

MayRetry(r, kind) ==
  kind \in {"rate_limited", "temporary"} /\ task[r].ordinal < MaxTotalAttempts

Fail(r, kind, hint) ==
  /\ task[r].pc = "attempt"
  /\ Observe(r, kind, hint)
  /\ Moves(r, IF MayRetry(r, kind)
              THEN [task[r] EXCEPT !.pc = "delay", !.until = clock + Delay(kind, hint), !.now = 0]
              ELSE Ends(task[r]))
  /\ UNCHANGED <<clock, sequence>>

\* Bound: a delay also ends when the clock has stopped.
RetryDelay(r) ==
  /\ task[r].pc = "delay"
  /\ clock >= task[r].until \/ clock = MaxTime
  /\ Moves(r, [task[r] EXCEPT !.pc = "loop", !.ordinal = @ + 1])
  /\ UNCHANGED <<clock, table, sequence, history>>

\* The client goes away: the future is dropped where it awaits.
DropRequest(r) ==
  /\ task[r].pc \in {"attempt", "delay"}
  /\ Moves(r, Ends(task[r]))
  /\ bystanders' = [a \in Accounts |-> bystanders[a] \ {r}]
  /\ UNCHANGED <<clock, table, sequence, disturbed>>

Answer(r) == Succeed(r) \/ \E kind \in FailureKinds, hint \in Hints : Fail(r, kind, hint)
Runs(r) ==
  Loop(r) \/ Scan(r) \/ NoEligible(r) \/ TakeSequence(r) \/ MarkSelected(r) \/ RetryDelay(r)

Next == Tick \/ \E r \in Requests : Start(r) \/ Runs(r) \/ Answer(r) \/ DropRequest(r)

Spec == Init /\ [][Next]_vars

-----------------------------------------------------------------------------
(* Properties.                                                             *)

TypeOK ==
  /\ clock \in 0..MaxTime /\ sequence \in 0..MaxSelections
  /\ \A a \in Accounts :
       /\ table[a].failures \in 0..FailureWidth /\ table[a].quarantined \in BOOLEAN
       /\ table[a].cooldown \subseteq 0..(MaxTime + MaxCooldown)
       /\ table[a].count \in 0..sequence /\ table[a].last \in 0..sequence
  /\ \A r \in Requests : task[r].ordinal \in 1..MaxTotalAttempts

\* MIGRATION.md: a request makes at most two attempts in total, however many
\* authentication kinds its Provider has, and all of them with one kind.
AttemptsStayInOneGroup ==
  \A r \in Requests :
    /\ Len(task[r].attempts) <= MaxTotalAttempts
    /\ \/ task[r].accountless
       \/ \E g \in DOMAIN Groups : \A i \in DOMAIN task[r].attempts :
            \E k \in DOMAIN Groups[g] : Groups[g][k] = task[r].attempts[i]

\* A quarantine is lifted only by the success of a request that had already
\* chosen the account when its credentials were found invalid: nobody selects
\* a quarantined account.
LiftedByBystander ==
  \A a \in Accounts : table[a].quarantined /\ ~ table'[a].quarantined =>
    \E r \in bystanders[a] : task[r].pc = "attempt" /\ task'[r].pc = "done"

\* Until an account is cooled down or quarantined, the selections of a group's
\* accounts stay within one per concurrent request of each other, although the
\* scan, the sequence and the mark are separate steps.
SelectionIsBalanced ==
  disturbed \/ \A g \in DOMAIN Groups : \A i, j \in DOMAIN Groups[g] :
    LET a == Groups[g][i]
        b == Groups[g][j]
    IN table[a].count - table[b].count <= Cardinality(Requests)

\* accounts.rs, restore and reconfigured: every state of the table can be
\* carried over to a new configuration (providers.rs expects it to).
TableIsRestorable == \A a \in Accounts : Restorable(Normalize(table[a], clock))
=============================================================================
