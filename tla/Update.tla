------------------------------- MODULE Update -------------------------------
(***************************************************************************)
(* `wokcore update` on Unix: the command that drains and stops the running *)
(* service, replaces the executable, starts the new one, and commits or    *)
(* rolls back (commands/update.rs), the file transaction under it          *)
(* (update/installer.rs, update/rollback.rs), the task that brings a       *)
(* stopped service back when the command is dropped (StopRecoveryGuard),   *)
(* the tasks that terminate dropped children (ManagedUpdateChild), and the *)
(* service processes they talk to.                                         *)
(*                                                                         *)
(* An executable is its version; NoFile is a missing one and Foreign one   *)
(* that somebody else put at the target.  A process identifier is reused   *)
(* only when nothing names it.                                             *)
(***************************************************************************)
EXTENDS Integers, FiniteSets

CONSTANTS
  MaxVersion,  \* versions that are ever released
  MaxPid,      \* bound: service processes at one time
  MaxAttempts, \* bound: runs of the command
  UpdateFaults,      \* the kinds of fault that may happen
  MaxFaults    \* bound: faults in one behaviour

Versions == 1..MaxVersion
NoFile == 0
Foreign == MaxVersion + 1
Pids == 1..MaxPid
NoPid == 0

\* There are versions and processes.
Bounds == MaxVersion \in Nat \ {0} /\ MaxPid \in Nat \ {0}
ASSUME UpdateBounds == Bounds

VARIABLES
  target, backup,        \* the executable and its .previous copy
  proc, disc, busy,      \* the processes, the discovery record's process, its active requests
  pc, from, orig, child, \* the command: next step, its own version, original and own service
  goal, after, outcome,  \* why it spawns, what it reports afterwards, what it reported
  guard, stopReq, answer, rchild, \* the recovery task
  reaping, cfailed,      \* children being terminated by their Drop, and whether one failed
  attempt, faults, served \* history: runs, faults, versions that came up in this run

files == <<target, backup>>
services == <<proc, disc, busy>>
command == <<pc, from, orig, child, goal, after, outcome>>
recovery == <<guard, stopReq, answer, rchild>>
cleanup == <<reaping, cfailed>>
history == <<attempt, faults, served>>
updateVars == <<files, services, command, recovery, cleanup, history>>

-----------------------------------------------------------------------------
(* The service processes.                                                  *)

Process(ver, st, by) == [ver |-> ver, st |-> st, by |-> by]
Dead == Process(NoFile, "dead", 0)
Started(who) == Process(target, "starting", who) \* by a run of the command, or 0 by the user
Serving(p) == p # NoPid /\ proc[p].st \in {"running", "draining", "awaiting", "stopping"}
Alive(p) == p # NoPid /\ proc[p] # Dead

\* process_matches_executable: the process runs the file that is at the target.
MatchesTarget(p) == proc[p].ver = target

\* The process ids that nothing names.
Unused == {p \in Pids : proc[p] = Dead /\ p \notin {disc, orig, child, rchild} \cup reaping}

Fault(kind) == kind \in UpdateFaults /\ faults < MaxFaults /\ faults' = faults + 1

NoFault == UNCHANGED faults

Set(p, st) == proc' = [proc EXCEPT ![p] = Process(proc[p].ver, st, proc[p].by)]
Kill(p) == proc' = [proc EXCEPT ![p] = Dead]

UpdateInit ==
  /\ target = 1 /\ backup = NoFile
  /\ busy = FALSE
  /\ \/ proc = [p \in Pids |-> Dead] /\ disc = NoPid
     \/ proc = [p \in Pids |-> IF p = 1 THEN Process(1, "running", 0) ELSE Dead] /\ disc = 1
  /\ pc = "idle" /\ from = 1 /\ orig = NoPid /\ child = NoPid
  /\ goal = "none" /\ after = "none" /\ outcome = "none"
  /\ guard = "none" /\ stopReq = FALSE /\ answer = "none" /\ rchild = NoPid
  /\ reaping = {} /\ cfailed = FALSE
  /\ attempt = 0 /\ faults = 0 /\ served = {}

World == UNCHANGED <<files, command, recovery, cleanup, attempt>>

\* serve: the process takes the runtime lease and publishes its record, or
\* finds the lease taken; a new version may fail by itself, the version that
\* runs the command fails only by a fault.
ServiceStarts(p) ==
  /\ proc[p].st = "starting"
  /\ \/ /\ \A q \in Pids : ~ Serving(q)
        /\ Set(p, "running") /\ disc' = p /\ busy' = FALSE
        /\ served' = served \cup {proc[p].ver}
        /\ NoFault
     \/ /\ \/ (\E q \in Pids : Serving(q)) /\ NoFault
           \/ proc[p].ver # from /\ NoFault
           \/ Fault("service")
        /\ Kill(p) /\ UNCHANGED <<disc, busy, served>>
  /\ World

\* ServiceCleanup::finish: the record is removed if it is still its own.
ServiceExits(p) ==
  /\ proc[p].st = "stopping"
  /\ Kill(p) /\ disc' = IF disc = p THEN NoPid ELSE disc
  /\ busy' = FALSE
  /\ World /\ UNCHANGED <<faults, served>>

\* The process dies and leaves its record behind.
ServiceDies(p) ==
  /\ Serving(p)
  /\ Kill(p) /\ busy' = FALSE
  /\ Fault("service")
  /\ World /\ UNCHANGED <<disc, served>>

\* A data plane request is admitted while the phase is Running, and ends.
Requests ==
  /\ disc # NoPid
  /\ \/ ~ busy /\ proc[disc].st = "running" /\ busy' = TRUE
     \/ busy /\ busy' = FALSE
  /\ World /\ UNCHANGED <<proc, disc, faults, served>>

\* The user, or a supervisor, starts the service meanwhile.
UserStarts(p) ==
  /\ p \in Unused
  /\ Fault("user")
  /\ proc' = [proc EXCEPT ![p] = Started(0)]
  /\ World /\ UNCHANGED <<disc, busy, served>>

\* Another program replaces the executable.  The identity checks of begin,
\* commit and rollback run right before their renames, so nobody is assumed
\* to come between the two.
ForeignReplaces ==
  /\ pc \notin {"link", "rename"}
  /\ Fault("foreign")
  /\ target' = Foreign
  /\ UNCHANGED <<backup, services, command, recovery, cleanup, attempt, served>>

-----------------------------------------------------------------------------
(* The recovery guard and the cleanup of children, as seen by the command. *)

Disarmed == guard' = (IF guard = "armed" THEN "none" ELSE guard)

\* The fault of a guard that does nothing when it is dropped.
DroppedSilently == guard' = (IF guard = "armed" THEN "none" ELSE guard)

Dropped == guard' = (IF guard = "armed" THEN "cleanup" ELSE guard)
SameRecovery == UNCHANGED <<stopReq, answer, rchild>>

Goto(p) == pc' = p /\ UNCHANGED <<from, orig, child, goal, after, outcome>>
Finish(o) == pc' = "done" /\ outcome' = o /\ UNCHANGED <<from, orig, child, goal, after>>
Returns(o) == Finish(o) /\ Disarmed /\ SameRecovery

\* recovery.recover().await, and what is reported once it has succeeded.
Recover(o) ==
  /\ pc' = "recovering" /\ after' = o
  /\ Dropped /\ SameRecovery
  /\ UNCHANGED <<from, orig, child, goal, outcome>>

-----------------------------------------------------------------------------
(* The command: preparation of the service.                                *)

Candidate == from + 1

\* run and install_candidate up to the verified download, with the update
\* lease held: a newer version than the command's own exists.
StartUpdate ==
  /\ pc = "idle" /\ attempt < MaxAttempts /\ target \in 1..(MaxVersion - 1)
  /\ pc' = "connect" /\ from' = target /\ attempt' = attempt + 1
  /\ orig' = NoPid /\ child' = NoPid /\ goal' = "none" /\ after' = "none" /\ outcome' = "none"
  /\ guard' = "none" /\ stopReq' = FALSE /\ answer' = "none" /\ rchild' = NoPid
  /\ cfailed' = FALSE /\ served' = {}
  /\ UNCHANGED <<files, services, reaping, faults>>

\* ControlClient::connect: no live process behind the record is "not running",
\* and the stale record is removed; a service that is not this executable is
\* refused.
Connect ==
  /\ pc = "connect"
  /\ \/ /\ ~ Alive(disc)
        /\ disc' = NoPid
        /\ Goto("begin") /\ UNCHANGED recovery /\ NoFault
     \/ /\ Serving(disc) /\ MatchesTarget(disc) /\ proc[disc].ver = from
        /\ orig' = disc /\ pc' = "drain" /\ guard' = "armed"
        /\ UNCHANGED <<disc, from, child, goal, after, outcome, stopReq, answer, rchild, faults>>
     \/ /\ Alive(disc)
        /\ \/ ~ (MatchesTarget(disc) /\ proc[disc].ver = from) /\ NoFault
           \/ Fault("lost")
        /\ Returns("failed") /\ UNCHANGED disc
  /\ UNCHANGED <<files, proc, busy, cleanup, attempt, served>>

\* POST drain: the handler waits for the active requests up to its timeout.
DrainedTo(st) ==
  CASE st = "running"  -> IF busy THEN "awaiting" ELSE "draining"
    [] st = "draining" -> IF busy THEN "awaiting" ELSE "draining"
    [] OTHER           -> st

\* classify_drain_response, and the stop request that follows a clean drain.
RequestDrain ==
  /\ pc = "drain"
  /\ \/ /\ Serving(orig)
        /\ Set(orig, DrainedTo(proc[orig].st))
        /\ \/ /\ proc'[orig].st = "draining"
              /\ Goto("stop") /\ stopReq' = TRUE /\ UNCHANGED <<guard, answer, rchild>>
              /\ NoFault
           \/ /\ proc'[orig].st # "draining"
              /\ Recover(IF proc'[orig].st = "awaiting" /\ busy THEN "active" ELSE "failed")
              /\ NoFault
           \/ Recover("failed") /\ Fault("lost")
     \/ /\ Recover("failed") /\ UNCHANGED proc
        /\ IF Serving(orig) THEN Fault("lost") ELSE NoFault
  /\ UNCHANGED <<files, disc, busy, cleanup, attempt, served>>

\* POST stop: refused while requests are active.
RequestStop ==
  /\ pc = "stop"
  /\ \/ /\ Serving(orig) /\ ~ busy
        /\ Set(orig, "stopping")
        /\ \/ Goto("exit") /\ UNCHANGED recovery /\ NoFault
           \/ Recover("failed") /\ Fault("lost")
     \/ /\ Recover("failed") /\ UNCHANGED proc
        /\ IF Serving(orig) /\ ~ busy THEN Fault("lost") ELSE NoFault
  /\ UNCHANGED <<files, disc, busy, cleanup, attempt, served>>

\* wait_for_exit(p): the process is gone, and the record is none or its own
\* and removed; or somebody else's record, or the deadline.
Gone(p) == ~ Alive(p) /\ disc \in {NoPid, p}
NotGone(p) ==
  \/ ~ Alive(p) /\ disc \notin {NoPid, p} /\ NoFault
  \/ Alive(p) /\ Fault("slow")

WaitForExit ==
  /\ pc = "exit"
  /\ \/ Gone(orig) /\ disc' = NoPid /\ Goto("begin") /\ UNCHANGED recovery /\ NoFault
     \/ NotGone(orig) /\ Recover("failed") /\ UNCHANGED disc
  /\ UNCHANGED <<files, proc, busy, cleanup, attempt, served>>

Recovered ==
  /\ pc = "recovering" /\ guard \in {"ok", "err"}
  /\ Finish(IF guard = "ok" THEN after ELSE "failed")
  /\ UNCHANGED <<files, services, recovery, cleanup, history>>

-----------------------------------------------------------------------------
(* The command: the file transaction.                                      *)

\* restore_previous: nothing to start when the service was stopped before.
Restore(o) ==
  IF orig = NoPid THEN Returns(o)
  ELSE /\ pc' = "spawn" /\ goal' = "restore" /\ after' = o
       /\ UNCHANGED <<from, orig, child, outcome, recovery>>

\* PreparedInstall::begin and remove_stale.
Begin ==
  /\ pc = "begin"
  /\ \/ target # from /\ Returns("recovery") /\ UNCHANGED files /\ NoFault
     \/ /\ target = from
        /\ \/ backup' = NoFile /\ Goto("link") /\ UNCHANGED recovery /\ NoFault
           \/ Restore("failed") /\ UNCHANGED backup /\ Fault("io")
        /\ UNCHANGED target
  /\ UNCHANGED <<services, cleanup, attempt, served>>

\* The fault of replacing the target without a copy.
LinkBackupSkipped ==
  /\ pc = "link"
  /\ Goto("rename")
  /\ UNCHANGED <<files, services, recovery, cleanup, history>>

\* atomic_replace_platform keeps the old file under a second name first.
LinkBackup ==
  /\ pc = "link"
  /\ \/ backup' = target /\ Goto("rename") /\ UNCHANGED recovery /\ NoFault
     \/ Restore("failed") /\ UNCHANGED backup /\ Fault("io")
  /\ UNCHANGED <<target, services, cleanup, attempt, served>>

\* The rename, or its failure, or the failure of the sync after it, which
\* renames back and may fail at that too.
RenameCandidate ==
  /\ pc = "rename"
  /\ \/ /\ target' = Candidate /\ UNCHANGED backup
        /\ \/ /\ pc' = "spawn" /\ goal' = "verify" /\ NoFault
              /\ UNCHANGED <<from, orig, child, after, outcome, recovery>>
           \/ Returns("recovery") /\ Fault("io")
     \/ Restore("failed") /\ UNCHANGED files /\ Fault("io")
     \/ /\ target' = backup /\ backup' = NoFile
        /\ Restore("failed") /\ Fault("io")
  /\ UNCHANGED <<services, cleanup, attempt, served>>

PathsAreUnchanged == target = Candidate /\ backup = from

\* InstallTransaction::commit; the old copy is removed if that succeeds.
Commit ==
  /\ pc = "commit"
  /\ IF PathsAreUnchanged
     THEN /\ \/ backup' = NoFile /\ NoFault
             \/ UNCHANGED backup /\ Fault("io")
          /\ Returns("installed")
     ELSE Returns("recovery") /\ UNCHANGED backup /\ NoFault
  /\ UNCHANGED <<target, services, cleanup, attempt, served>>

\* The fault of a rollback that renames whatever is at the target away.
RollbackUnchecked ==
  /\ pc = "rollback"
  /\ target' = backup /\ backup' = NoFile /\ Restore("rolled_back")
  /\ UNCHANGED <<services, cleanup, history>>

\* InstallTransaction::rollback: a failed sync leaves the old file in place.
Rollback ==
  /\ pc = "rollback"
  /\ \/ ~ PathsAreUnchanged /\ Returns("recovery") /\ UNCHANGED files /\ NoFault
     \/ /\ PathsAreUnchanged
        /\ \/ /\ target' = backup /\ backup' = NoFile
              /\ \/ Restore("rolled_back") /\ NoFault
                 \/ Restore("recovery") /\ Fault("io")
           \/ Returns("failed") /\ UNCHANGED files /\ Fault("io")
  /\ UNCHANGED <<services, cleanup, attempt, served>>

-----------------------------------------------------------------------------
(* The command: spawn_and_verify, for the new version and for the old one. *)

Expected == IF goal = "verify" THEN Candidate ELSE from

\* VerificationFailure: what the two callers make of it.
SafeToRollback ==
  IF goal = "verify" THEN Goto("rollback") /\ UNCHANGED recovery
  ELSE Finish("recovery") /\ Dropped /\ SameRecovery
RecoveryRequired ==
  IF goal = "verify" THEN Returns("recovery")
  ELSE Finish("recovery") /\ Dropped /\ SameRecovery

Verified ==
  IF goal = "verify" THEN Goto("commit") /\ UNCHANGED recovery ELSE Returns(after)

SpawnService ==
  /\ pc = "spawn"
  /\ \/ \E p \in Unused :
          /\ proc' = [proc EXCEPT ![p] = Started(attempt)]
          /\ child' = p /\ pc' = "ready"
          /\ UNCHANGED <<from, orig, goal, after, outcome, recovery, faults>>
     \/ SafeToRollback /\ UNCHANGED proc /\ Fault("io")
  /\ UNCHANGED <<files, disc, busy, cleanup, attempt, served>>

\* wait_for_ready: the record is the child's, of the expected version, run
\* from the target, and the identity check is answered.
IsReady(p, version) ==
  disc = p /\ Serving(p) /\ proc[p].ver = version /\ MatchesTarget(p)
NeverReady(p, version) ==
  \/ ~ Alive(p) /\ NoFault
  \/ Alive(p) /\ disc # NoPid /\ ~ (disc = p /\ proc[p].ver = version /\ MatchesTarget(p)) /\ NoFault
  \/ Alive(p) /\ Fault("slow")

WaitForReady ==
  /\ pc = "ready"
  /\ \/ /\ IsReady(child, Expected)
        /\ IF goal = "verify" /\ orig = NoPid THEN Goto("vstop") /\ UNCHANGED recovery ELSE Verified
        /\ NoFault
     \/ /\ \/ NeverReady(child, Expected)
           \/ Alive(child) /\ goal = "verify" /\ NoFault
        /\ Goto("terminate") /\ UNCHANGED recovery
  /\ UNCHANGED <<files, services, cleanup, attempt, served>>

\* A service that was stopped before is stopped again: drain_and_stop of the
\* verified child.
StopVerified ==
  /\ pc = "vstop"
  /\ \/ /\ disc = child /\ Serving(child) /\ ~ busy
        /\ Set(child, "stopping")
        /\ Goto("vexit") /\ NoFault
     \/ /\ UNCHANGED proc
        /\ Goto("terminate")
        /\ IF disc = child /\ Serving(child) /\ ~ busy THEN Fault("lost") ELSE NoFault
  /\ UNCHANGED <<files, disc, busy, recovery, cleanup, attempt, served>>

VerifiedExits ==
  /\ pc = "vexit"
  /\ \/ Gone(child) /\ disc' = NoPid /\ Goto("commit") /\ NoFault
     \/ NotGone(child) /\ Goto("terminate") /\ UNCHANGED disc
  /\ UNCHANGED <<files, recovery, proc, busy, cleanup, attempt, served>>

\* terminate_update_child(p): killed, and no record but its own is found.
Killed(p) == Kill(p) /\ busy' = IF disc = p THEN FALSE ELSE busy

\* A child that could not be terminated is dropped, which tries again.
Terminate ==
  /\ pc = "terminate"
  /\ \/ Killed(child) /\ disc \in {NoPid, child} /\ disc' = NoPid
        /\ SafeToRollback /\ UNCHANGED reaping /\ NoFault
     \/ /\ \/ Killed(child) /\ disc \notin {NoPid, child} /\ NoFault
           \/ Alive(child) /\ UNCHANGED <<proc, busy>> /\ Fault("kill")
        /\ RecoveryRequired /\ reaping' = reaping \cup {child} /\ UNCHANGED disc
  /\ UNCHANGED <<files, cfailed, attempt, served>>

\* The task that the Drop of a child spawns.
Reap(p) ==
  /\ p \in reaping
  /\ \/ /\ Killed(p) /\ disc' = IF disc = p THEN NoPid ELSE disc
        /\ cfailed' = (cfailed \/ disc \notin {NoPid, p}) /\ NoFault
     \/ Alive(p) /\ cfailed' = TRUE /\ UNCHANGED services /\ Fault("kill")
  /\ reaping' = reaping \ {p}
  /\ UNCHANGED <<files, command, recovery, attempt, served>>

-----------------------------------------------------------------------------
(* The recovery task: recover_interrupted_stop.                            *)

Quiet == UNCHANGED <<files, command, cleanup, attempt, served>>

\* The fault of not waiting for the children that are being terminated.
RecoveryWaitsNot == TRUE

RecoveryWaits == reaping = {}

AwaitCleanup ==
  /\ guard = "cleanup" /\ RecoveryWaits
  /\ guard' = IF cfailed THEN "err" ELSE "cancel"
  /\ Quiet /\ UNCHANGED <<services, stopReq, answer, rchild, faults>>

\* POST drain/cancel: answered with the phase and the count of the requests
\* that are active now.
CancelDrain ==
  /\ guard = "cancel"
  /\ guard' = IF stopReq THEN "settle" ELSE "verify"
  /\ \/ /\ Alive(orig) /\ proc[orig].st \in {"draining", "awaiting"}
        /\ Set(orig, "running")
        /\ \/ answer' = (IF busy THEN "busy" ELSE "running") /\ NoFault
           \/ answer' = "error" /\ Fault("lost")
     \/ /\ UNCHANGED proc /\ answer' = "error"
        /\ IF Alive(orig) /\ proc[orig].st \in {"draining", "awaiting"} THEN Fault("lost") ELSE NoFault
  /\ Quiet /\ UNCHANGED <<disc, busy, stopReq, rchild>>

\* The stop may have been accepted: wait for the exit before starting again.
Settle ==
  /\ guard = "settle"
  /\ \/ Gone(orig) /\ disc' = NoPid /\ guard' = "spawn" /\ NoFault
     \/ ~ Alive(orig) /\ disc \notin {NoPid, orig} /\ guard' = "err" /\ UNCHANGED disc /\ NoFault
     \/ Alive(orig) /\ proc[orig].st # "stopping" /\ guard' = "verify" /\ UNCHANGED disc /\ NoFault
     \/ Alive(orig) /\ proc[orig].st = "stopping" /\ guard' = "verify" /\ UNCHANGED disc /\ Fault("slow")
  /\ Quiet /\ UNCHANGED <<proc, busy, stopReq, answer, rchild>>

\* recovered_old_service_matches.
OldServiceMatches ==
  answer = "running" /\ disc = orig /\ Serving(orig) /\ MatchesTarget(orig) /\ proc[orig].ver = from

VerifyOldService ==
  /\ guard = "verify"
  /\ guard' = IF OldServiceMatches THEN "ok" ELSE "err"
  /\ Quiet /\ UNCHANGED <<services, stopReq, answer, rchild, faults>>

RecoverySpawns ==
  /\ guard = "spawn"
  /\ \/ \E p \in Unused :
          /\ proc' = [proc EXCEPT ![p] = Started(attempt)]
          /\ rchild' = p /\ guard' = "ready" /\ NoFault
     \/ guard' = "err" /\ UNCHANGED <<proc, rchild>> /\ Fault("io")
  /\ Quiet /\ UNCHANGED <<disc, busy, stopReq, answer>>

\* The child of the recovery is verified and terminated like the command's.
RecoveryReady ==
  /\ guard = "ready"
  /\ \/ IsReady(rchild, from) /\ guard' = "ok" /\ NoFault /\ UNCHANGED services
     \/ NeverReady(rchild, from) /\ guard' = "terminate" /\ UNCHANGED services
  /\ Quiet /\ UNCHANGED <<stopReq, answer, rchild>>

RecoveryTerminates ==
  /\ guard = "terminate" /\ guard' = "err"
  /\ \/ Killed(rchild) /\ disc' = (IF disc = rchild THEN NoPid ELSE disc) /\ NoFault
     \/ Alive(rchild) /\ UNCHANGED services /\ Fault("kill")
  /\ Quiet /\ UNCHANGED <<stopReq, answer, rchild>>

RecoveryRuns ==
  \/ AwaitCleanup \/ CancelDrain \/ Settle \/ VerifyOldService
  \/ RecoverySpawns \/ RecoveryReady \/ RecoveryTerminates

-----------------------------------------------------------------------------
(* The end of the command.                                                 *)

Holding == pc \in {"spawn", "ready", "vstop", "vexit", "terminate"}
Transaction == goal = "verify" /\ Holding

\* InstallTransaction::drop.
TransactionDropped ==
  IF Transaction /\ PathsAreUnchanged
  THEN \/ target' = backup /\ backup' = NoFile /\ NoFault
       \/ UNCHANGED files /\ Fault("io")
  ELSE UNCHANGED files /\ NoFault

\* A control request that is dropped may have taken its effect.
InFlight ==
  \/ UNCHANGED proc
  \/ pc = "drain" /\ Serving(orig) /\ proc[orig].st = "running" /\ Set(orig, "draining")
  \/ pc = "stop" /\ Serving(orig) /\ ~ busy /\ Set(orig, "stopping")
  \/ pc = "vstop" /\ Serving(child) /\ ~ busy /\ Set(child, "stopping")

\* The future of the command is dropped at an await: the child first, then the
\* transaction, then the guard.
Cancel ==
  /\ pc \in {"connect", "drain", "stop", "exit", "recovering", "spawn", "ready", "vstop", "vexit", "terminate"}
  /\ pc' = "cancelled" /\ outcome' = "cancelled"
  /\ TransactionDropped
  /\ reaping' = IF pc \in {"ready", "vstop", "vexit", "terminate"} THEN reaping \cup {child} ELSE reaping
  /\ InFlight
  /\ Dropped /\ SameRecovery
  /\ UNCHANGED <<from, orig, child, goal, after, disc, busy, cfailed, attempt, served>>

\* The tasks that outlive the command have come to their end.
Settled == guard \in {"none", "ok", "err"} /\ reaping = {}

\* The process of the command ends: after a cancellation when its tasks are
\* done, after a return at once (main.rs exits), or killed.
Exit ==
  /\ \/ pc = "done" /\ NoFault /\ UNCHANGED outcome
     \/ pc = "cancelled" /\ Settled /\ NoFault /\ UNCHANGED outcome
     \/ pc \notin {"idle", "done"} /\ Fault("crash") /\ outcome' = "killed"
  /\ pc' = "idle" /\ orig' = NoPid /\ child' = NoPid /\ rchild' = NoPid
  /\ guard' = "none" /\ reaping' = {}
  /\ UNCHANGED <<files, services, from, goal, after, stopReq, answer, cfailed, attempt, served>>

CommandRuns ==
  \/ Connect \/ RequestDrain \/ RequestStop \/ WaitForExit \/ Recovered
  \/ Begin \/ LinkBackup \/ RenameCandidate \/ Commit \/ Rollback
  \/ SpawnService \/ WaitForReady \/ StopVerified \/ VerifiedExits \/ Terminate

ServiceRuns(p) == ServiceStarts(p) \/ ServiceExits(p)

UpdateNext ==
  \/ StartUpdate \/ CommandRuns \/ Cancel \/ Exit
  \/ RecoveryRuns \/ \E p \in Pids : Reap(p)
  \/ \E p \in Pids : ServiceRuns(p) \/ ServiceDies(p) \/ UserStarts(p)
  \/ Requests \/ ForeignReplaces

\* Tasks that can run do run, a process that starts or stops gets somewhere.
UpdateFairness ==
  /\ WF_updateVars(CommandRuns) /\ WF_updateVars(RecoveryRuns)
  /\ \A p \in Pids : WF_updateVars(Reap(p)) /\ WF_updateVars(ServiceRuns(p))

UpdateSpec == UpdateInit /\ [][UpdateNext]_updateVars /\ UpdateFairness

-----------------------------------------------------------------------------
(* Properties.                                                             *)

UpdateTypes ==
  /\ target \in Versions \cup {Foreign} /\ backup \in Versions \cup {NoFile, Foreign}
  /\ proc \in [Pids -> [ver : Versions \cup {NoFile, Foreign},
                        st : {"dead", "starting", "running", "draining", "awaiting", "stopping"},
                        by : 0..MaxAttempts]]
  /\ disc \in Pids \cup {NoPid} /\ busy \in BOOLEAN
  /\ pc \in {"idle", "connect", "drain", "stop", "exit", "recovering", "begin", "link", "rename",
             "spawn", "ready", "vstop", "vexit", "terminate", "commit", "rollback", "done", "cancelled"}
  /\ from \in Versions /\ {orig, child, rchild} \subseteq Pids \cup {NoPid}
  /\ goal \in {"none", "verify", "restore"}
  /\ {after, outcome} \subseteq {"none", "active", "failed", "rolled_back", "recovery", "installed",
                                 "cancelled", "killed"}
  /\ guard \in {"none", "armed", "cleanup", "cancel", "settle", "verify", "spawn", "ready", "terminate", "ok", "err"}
  /\ stopReq \in BOOLEAN /\ answer \in {"none", "running", "busy", "error"}
  /\ reaping \subseteq Pids /\ cfailed \in BOOLEAN
  /\ attempt \in 0..MaxAttempts /\ faults \in 0..MaxFaults /\ served \subseteq Versions \cup {Foreign}

\* There is always an executable at the target, and until an update is
\* installed the one that ran it is there or kept as its .previous copy, whichever call of the file system fails and
\* wherever the command is dropped or killed (rollback.rs links before it
\* renames; installer.rs removes the copy last).
OldIsThere ==
  /\ target # NoFile
  /\ outcome # "installed" /\ target # Foreign => from \in {target, backup}

\* Somebody else's executable at the target is never renamed away or over by
\* the command (paths_are_unchanged in commit, rollback and drop).
KeepsForeign == target = Foreign => target' = Foreign

\* "installed" is reported only for a version that came up and published its
\* own record during this run of the command.
InstalledWasServing == outcome = "installed" => Candidate \in served

\* The executable that ran the command is never lost, and "installed" is said only of a
\* version that served (InstallTransaction, verify_new_service).
OldExecutableKept == OldIsThere /\ InstalledWasServing

\* With no fault but a bad new version and requests in flight, what the
\* command reports is how it leaves the machine: the file, the service that
\* was running before and the discovery record.
Runs(version) == disc # NoPid /\ proc[disc].ver = version /\ proc[disc].st = "running"

OutcomeIsTheState ==
  pc = "done" /\ faults = 0 =>
    /\ outcome = "installed"
         => target = Candidate /\ backup = NoFile /\ (IF orig = NoPid THEN disc = NoPid ELSE Runs(Candidate))
    /\ outcome \in {"rolled_back", "active", "failed"}
         => target = from /\ (IF orig = NoPid THEN disc = NoPid ELSE Runs(from))
    /\ outcome # "recovery"

\* A cancelled command leaves the old executable, and once its tasks are done
\* the old service runs again if it ran before (the tests named cancelling_...).
CancelRestores ==
  pc = "cancelled" /\ faults = 0 =>
    /\ target = from
    /\ Settled /\ orig # NoPid => Runs(from)

\* A new version that was started for verification is not left running when
\* the command reports that it was rolled back, or was cancelled.
UnverifiedIsTerminated ==
  /\ pc = "done" /\ outcome = "rolled_back" =>
       \A p \in Pids : proc[p].ver = Candidate => proc[p].by # attempt
  /\ pc = "cancelled" /\ Settled /\ faults = 0 => \A p \in Pids : proc[p].ver # Candidate

\* What the command reports, or a cancellation leaves, is the state of the machine
\* (UpdateCommand::install, StopRecoveryGuard, ManagedUpdateChild).
OutcomeTellsTheState == OutcomeIsTheState /\ CancelRestores /\ UnverifiedIsTerminated

\* A service that was running when the command connected to it runs again,
\* unless something besides the new version failed.
ServiceComesBack ==
  orig # NoPid ~> ((\E p \in Pids : proc[p].st = "running") \/ faults > 0)

\* "active requests remain" is what a drain that timed out with requests in
\* flight is reported as, when nothing failed (test
\* update_real_lifecycle_cancels_drain_when_loopback_reports_active_requests).
ActiveRequestsAreReported ==
  pc = "done" /\ after = "active" /\ faults = 0 => outcome = "active"
=============================================================================
