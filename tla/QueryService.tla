---------------------------- MODULE QueryService ----------------------------
(* The query service (wokcore-server query.rs): a bounded queue of operations *)
(* served by a few threads, with a deadline for the caller, cancellation      *)
(* flags for the operation, and a shutdown that sends one command per thread. *)
EXTENDS Naturals, Sequences, FiniteSets

CONSTANTS
    Callers,    \* requests, each submitting one query
    Workers,    \* query threads
    QueueCap    \* QUERY_QUEUE_CAPACITY

VARIABLES
    call,       \* a caller: idle, checked, waiting, or the outcome it got
    cancelled,  \* the callers whose query has its cancellation flag set
    reply,      \* the oneshot of a query: empty, sent, dropped or taken
    commands,   \* the channel
    thread,     \* a worker: waiting, running a query, or returned
    stopping,   \* shutting_down
    stopper     \* shutdown: [pc, sent]

qvars == <<call, cancelled, reply, commands, thread, stopping, stopper>>

Shutdown == "shutdown"
Open == \E w \in Workers : thread[w] # "returned"
Results == {"ok", "error", "worker", "cancelled"}

-----------------------------------------------------------------------------
(* QueryServiceHandle::try_submit, in two steps: the flag, then the channel.  *)

CheckOpen(c) ==
    /\ call[c] = "idle"
    /\ call' = [call EXCEPT ![c] = IF stopping THEN "closed" ELSE "checked"]
    /\ UNCHANGED <<cancelled, reply, commands, thread, stopping, stopper>>

Send(c) ==
    /\ call[c] = "checked"
    /\ IF Open /\ Len(commands) < QueueCap
       THEN call' = [call EXCEPT ![c] = "waiting"] /\ commands' = Append(commands, c)
       ELSE /\ call' = [call EXCEPT ![c] = IF Open THEN "busy" ELSE "closed"]
            /\ UNCHANGED commands
    /\ UNCHANGED <<cancelled, reply, thread, stopping, stopper>>

\* PendingQuery::wait: the answer or the loss of its sender.
Receive(c) ==
    /\ call[c] = "waiting" /\ reply[c] # "empty"
    /\ call' = [call EXCEPT ![c] = IF reply[c] = "dropped" THEN "worker" ELSE reply[c]]
    /\ UNCHANGED <<cancelled, reply, commands, thread, stopping, stopper>>

\* QUERY_DEADLINE passes, or the request is dropped: the flag is set.
GiveUp(c, outcome) ==
    /\ call[c] = "waiting"
    /\ call' = [call EXCEPT ![c] = outcome]
    /\ cancelled' = cancelled \union {c}
    /\ UNCHANGED <<reply, commands, thread, stopping, stopper>>

-----------------------------------------------------------------------------
(* query_worker.                                                              *)

\* When the last worker returns, the receiver goes with what is queued.
Returned(w, queue) ==
    LET left == {c \in Callers : \E i \in DOMAIN queue : queue[i] = c}
        last == \A v \in Workers \ {w} : thread[v] = "returned"
    IN  /\ commands' = IF last THEN << >> ELSE queue
        /\ reply' = [c \in Callers |-> IF last /\ c \in left THEN "dropped" ELSE reply[c]]

TakeShutdown(w) ==
    /\ thread[w] = "waiting" /\ commands # << >> /\ Head(commands) = Shutdown
    /\ thread' = [thread EXCEPT ![w] = "returned"]
    /\ Returned(w, Tail(commands))
    /\ UNCHANGED <<call, cancelled, stopping, stopper>>

\* A query whose flag or the service's is set does not start.
TakeQuery(w) ==
    /\ thread[w] = "waiting" /\ commands # << >> /\ Head(commands) # Shutdown
    /\ LET c == Head(commands)
           skip == stopping \/ c \in cancelled
       IN  /\ thread' = [thread EXCEPT ![w] = IF skip THEN "waiting" ELSE c]
           /\ reply' = [reply EXCEPT ![c] = IF skip THEN "cancelled" ELSE @]
    /\ commands' = Tail(commands)
    /\ UNCHANGED <<call, cancelled, stopping, stopper>>

\* The operation returns, observes a flag, or panics.
Finish(w) ==
    /\ thread[w] \in Callers
    /\ \E r \in Results :
         /\ r = "cancelled" => (stopping \/ thread[w] \in cancelled)
         /\ reply' = [reply EXCEPT ![thread[w]] = r]
    /\ thread' = [thread EXCEPT ![w] = "waiting"]
    /\ UNCHANGED <<call, cancelled, commands, stopping, stopper>>

-----------------------------------------------------------------------------
(* QueryService::shutdown.                                                    *)

BeginStop ==
    /\ stopper.pc = "running"
    /\ stopping' = TRUE
    /\ stopper' = [pc |-> "sending", sent |-> 0]
    /\ UNCHANGED <<call, cancelled, reply, commands, thread>>

SendStop ==
    /\ stopper.pc = "sending" /\ Len(commands) < QueueCap
    /\ commands' = Append(commands, Shutdown)
    /\ stopper' = [pc |-> IF stopper.sent + 1 = Cardinality(Workers) THEN "joining" ELSE "sending",
                   sent |-> stopper.sent + 1]
    /\ UNCHANGED <<call, cancelled, reply, thread, stopping>>

Join ==
    /\ stopper.pc = "joining" /\ ~Open
    /\ stopper' = [stopper EXCEPT !.pc = "done"]
    /\ UNCHANGED <<call, cancelled, reply, commands, thread, stopping>>

-----------------------------------------------------------------------------
QueryInit ==
    /\ call = [c \in Callers |-> "idle"] /\ cancelled = {}
    /\ reply = [c \in Callers |-> "empty"] /\ commands = << >>
    /\ thread = [w \in Workers |-> "waiting"]
    /\ stopping = FALSE /\ stopper = [pc |-> "running", sent |-> 0]

\* A service that has been shut down, and has nothing left to do.
QueryEnded ==
    /\ call = [c \in Callers |-> "closed"] /\ cancelled = {}
    /\ reply = [c \in Callers |-> "empty"] /\ commands = << >>
    /\ thread = [w \in Workers |-> "returned"]
    /\ stopping = TRUE /\ stopper = [pc |-> "done", sent |-> Cardinality(Workers)]

QueryNext ==
    \/ \E c \in Callers : CheckOpen(c) \/ Send(c) \/ Receive(c)
                          \/ GiveUp(c, "timeout") \/ GiveUp(c, "gone")
    \/ \E w \in Workers : TakeShutdown(w) \/ TakeQuery(w) \/ Finish(w)
    \/ BeginStop \/ SendStop \/ Join

\* Threads run, operations end, the shutdown goes on, and a caller takes its
\* answer.  The deadline is not needed, and not assumed, for any of it.
QueryFairness ==
    /\ \A w \in Workers : WF_qvars(TakeShutdown(w) \/ TakeQuery(w)) /\ WF_qvars(Finish(w))
    /\ WF_qvars(SendStop) /\ WF_qvars(Join)
    /\ \A c \in Callers : WF_qvars(Send(c)) /\ WF_qvars(Receive(c))

QuerySpec == QueryInit /\ [][QueryNext]_qvars /\ QueryFairness

-----------------------------------------------------------------------------
\* Every query that is accepted gets an outcome, also one that slipped behind
\* the shutdown commands after try_submit had seen the flag unset, and a
\* shutdown that was begun returns although the queue was full.
QueriesEnd ==
    []<>(/\ \A c \in Callers : call[c] \notin {"checked", "waiting"}
         /\ stopper.pc \in {"running", "done"})
=============================================================================
