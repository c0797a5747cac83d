---------------------------- MODULE MCBackground ----------------------------
(* The processes of the service and what runs in one of them beside the requests: *)
(* the query service, the writer of the state database, the scheduler of scans    *)
(* and the reclaimer of idle memory.  serve.rs starts and stops them one after    *)
(* the other and they share no state, so it is enough that one runs while the     *)
(* others have ended or not begun.                                                *)
EXTENDS ServiceInstances, StateWriter

CONSTANTS Submitters, Threads,
          Kinds, Scanners, Slices, MaxChanges, MaxFaults,
          MemoryRequests, MaxActivity

VARIABLES side,
          call, abandoned, reply, commands, thread, stopping, stopper,
          pending, inflight, notified, permit, armed, jobs, busy, results, acc, status, at,
          dirty, cycle, task, changes, faults,
          phase, active, revision, activity, idlePermit, transition, holder, watch, unseen,
          woken, rpc, caller, op, gen, event, result, stopRequested, spc, view,
          mpc, seenActivity, reclaimed, shutdown, reclaims, unreclaimed

Query == INSTANCE QueryService WITH Callers <- Submitters, Workers <- Threads, cancelled <- abandoned
Scheduler == INSTANCE ScanScheduler WITH Workers <- Scanners
Memory == INSTANCE IdleMemory WITH
    Requests <- MemoryRequests, Controllers <- {}, Owner <- "owner", Readers <- {}, Ops <- {},
    NoOne <- "no one", MaxActive <- 2, MaxRevision <- 1, MaxGeneration <- 0,
    lock <- holder, pc <- caller

queryVars == <<call, abandoned, reply, commands, thread, stopping, stopper>>
scanVars == <<pending, inflight, notified, permit, armed, jobs, busy, results, acc, status, at,
              dirty, cycle, task, changes, faults>>
memoryVars == <<phase, active, revision, activity, idlePermit, transition, holder, watch, unseen,
                woken, rpc, caller, op, gen, event, result, stopRequested, spc, view,
                mpc, seenActivity, reclaimed, shutdown, reclaims, unreclaimed>>
sideVars == <<queryVars, wvars, scanVars, memoryVars>>

SideInit ==
    /\ side \in {"instances", "query", "writer", "scans", "memory"}
    /\ Init
    /\ IF side = "query" THEN Query!QueryInit ELSE Query!QueryEnded
    /\ IF side = "writer" THEN WriterInit ELSE WriterEnded
    /\ IF side = "scans" THEN Scheduler!SchedulerInit ELSE Scheduler!SchedulerEnded
    /\ IF side = "memory" THEN Memory!MemoryInit ELSE Memory!MemoryEnded

SideNext ==
    /\ UNCHANGED side
    /\ \/ side = "instances" /\ Next /\ UNCHANGED sideVars
       \/ /\ side = "query" /\ Query!QueryNext
          /\ UNCHANGED <<vars, wvars, scanVars, memoryVars>>
       \/ /\ side = "writer" /\ WriterNext
          /\ UNCHANGED <<vars, queryVars, scanVars, memoryVars>>
       \/ /\ side = "scans" /\ Scheduler!SchedulerNext
          /\ UNCHANGED <<vars, queryVars, wvars, memoryVars>>
       \/ /\ side = "memory" /\ Memory!MemoryNext
          /\ UNCHANGED <<vars, queryVars, wvars, scanVars>>

SideSpec ==
    /\ SideInit /\ [][SideNext]_<<side, vars, sideVars>>
    /\ Query!QueryFairness /\ WriterFairness
    /\ Scheduler!SchedulerFairness /\ Memory!MemoryFairness

-----------------------------------------------------------------------------
\* QueryService and StateWriter: what a queue accepted is executed and every caller gets
\* an answer, behind a shutdown as well (QueryService::submit, StateWriter::execute).
AcceptedIsExecuted == Query!QueriesEnd /\ WritesAreExecuted
\* ScanScheduler: a changed file is scanned unless the scheduler is shut down, and a
\* published status is that of one whole scan (run_scheduler, dispatch).
ChangesAreScanned == Scheduler!ChangesAreScanned /\ [][Scheduler!StatusStep]_scanVars
\* IdleMemory: no idle period is lost, none is reclaimed more than twice, and a shutdown
\* ends the reclaimer (run_idle_memory_reclaimer).
IdleIsReclaimed ==
    /\ Memory!IdleIsReclaimed /\ Memory!ShutdownEndsReclaimer
    /\ []Memory!AtMostTwicePerRevision
=============================================================================
