------------------------- MODULE ProviderManagement -------------------------
(***************************************************************************)
(* The Provider configuration: management calls that commit, reload and    *)
(* change secrets under one mutation lock (server providers.rs), the file  *)
(* they replace (storage config/store.rs), and the snapshot they publish.  *)
(* An operator edits the file without any lock.  Every system call of the  *)
(* store may fail, the process may stop at any point, and a power failure  *)
(* may undo a rename whose directory was not synchronised.                 *)
(***************************************************************************)
EXTENDS Naturals, Sequences, Functions, FiniteSets

CONSTANTS
  Callers,      \* management requests, each in an owned task of its own
  Configs,      \* Provider and routing configurations of a valid shape
  Default,      \* the configuration of a missing file
  Refs,         \* the secret references in the accounts of a configuration
  Unbuildable,  \* configurations that RuntimeSnapshot::build rejects
  Malformed,    \* documents that do not parse, or have an invalid shape
  Secrets,      \* secret references
  Management,   \* the reference of the runtime management credential
  Ops,          \* the management operations that are called
  Faults,       \* what the environment may do: failures, power loss, edits
  MaxRevision   \* bound on revisions

ASSUME ConfigsAssumption ==
  /\ Default \in Configs \ Unbuildable /\ Malformed \notin Configs
  /\ Refs \in [Configs -> SUBSET Secrets] /\ Management \in Secrets \ Refs[Default]
  /\ MaxRevision \in Nat
  /\ Faults \subseteq {"write", "sync", "unlock", "load", "secret", "panic", "power", "edit"}

VARIABLES
  file,        \* the configuration file as the process sees it
  durable,     \* what of it survives a power failure
  up,          \* the service has started
  active,      \* ActiveConfiguration
  published,   \* the configuration of the published execution snapshot
  activeLock,  \* a writer of `active` is inside
  secrets,     \* the references the secret store holds
  queue,       \* the mutation lock: its holder, then the waiting calls in order
  call,        \* the progress of each management call
  stored       \* history: the file has had the document that the current call publishes

store == <<file, durable>>
runtime == <<active, published, activeLock>>
vars == <<store, up, runtime, secrets, queue, call, stored>>

Document == [revision : 0..MaxRevision, config : Configs \cup {Malformed}]
Task(pc, op, expected, config, secret, result) ==
  [pc |-> pc, op |-> op, expected |-> expected, config |-> config, secret |-> secret,
   result |-> result]
Idle == Task("idle", "none", 0, Default, Management, "none")

\* from_loaded: the published snapshot is that of the loaded document.
Loaded(document) ==
  [revision |-> document.revision, config |-> document.config, reload_status |-> "ready"]

Init ==
  /\ file = [revision |-> 0, config |-> Default] /\ durable = file /\ stored = FALSE
  /\ up = TRUE /\ active = Loaded(file) /\ published = Default /\ activeLock = FALSE
  /\ secrets = {Management} /\ queue = <<>> /\ call = [c \in Callers |-> Idle]

\* The secrets that protect_secret_ref reserves at startup.
protected == {Management}
Protects(config) == Refs[config] \cap protected # {}
Publishable(config) == config \notin Unbuildable \cup {Malformed} /\ ~ Protects(config)
Holds(c) == queue # <<>> /\ Head(queue) = c
At(c, pc) == up /\ Holds(c) /\ call[c].pc = pc

\* The document that a commit or a reload publishes.
Target(c) ==
  [revision |-> call[c].expected + (IF call[c].op = "commit" THEN 1 ELSE 0),
   config |-> call[c].config]

Moves(c, pc) ==
  call' = [call EXCEPT ![c] = Task(pc, @.op, @.expected, @.config, @.secret, @.result)]

\* The owned task ends and drops its guard, on every path.
Return(c, result) ==
  /\ call' = [call EXCEPT ![c] = Task("done", "none", 0, Default, Management, result)]
  /\ queue' = Tail(queue) /\ stored' = FALSE

\* A call reaches its mutex.  A commit builds its snapshot before that.
Call(c) ==
  /\ up /\ call[c].pc \in {"idle", "done"}
  /\ \E op \in Ops, expected \in 0..MaxRevision, config \in Configs, secret \in Secrets :
       /\ op # "commit" => expected = 0 /\ config = Default
       /\ op \in {"commit", "reload"} => secret = Management
       /\ op = "commit" => config \notin Unbuildable
       /\ call' = [call EXCEPT ![c] = Task("begin", op, expected, config, secret, "none")]
       /\ queue' = Append(queue, c)
  /\ UNCHANGED <<store, up, runtime, secrets, stored>>

\* commit_owned up to the call of the store.  Bound: MaxRevision.
CommitBegin(c) ==
  /\ At(c, "begin") /\ call[c].op = "commit"
  /\ IF Protects(call[c].config) \/ active.revision # call[c].expected
        \/ call[c].expected = MaxRevision
     THEN Return(c, "error")
     ELSE Moves(c, "check") /\ stored' = (file = Target(c)) /\ UNCHANGED queue
  /\ UNCHANGED <<store, up, runtime, secrets>>

\* commit_locked: the revision on disk is the one expected.  A lock file that
\* cannot be opened, or a document that cannot be read, is an Io error.
StoreCheck(c) ==
  /\ At(c, "check")
  /\ \/ file.config # Malformed /\ file.revision = call[c].expected
        /\ Moves(c, "rename") /\ UNCHANGED <<queue, stored>>
     \/ (file.config = Malformed \/ file.revision # call[c].expected) /\ Return(c, "error")
     \/ "load" \in Faults /\ Moves(c, "reconcile") /\ UNCHANGED <<queue, stored>>
  /\ UNCHANGED <<store, up, runtime, secrets>>

\* replace_atomically up to the rename.
StoreRename(c) ==
  /\ At(c, "rename")
  /\ \/ /\ file' = Target(c)
        /\ stored' = TRUE /\ Moves(c, "sync") /\ UNCHANGED durable
     \/ "write" \in Faults /\ Moves(c, "reconcile") /\ UNCHANGED <<store, stored>>
  /\ UNCHANGED <<queue, up, runtime, secrets>>

\* sync_parent_directory, and the unlock of the lock file.
StoreSync(c) ==
  /\ At(c, "sync")
  /\ \/ durable' = file /\ Moves(c, "install")
     \/ "unlock" \in Faults /\ durable' = file /\ Moves(c, "reconcile")
     \/ "sync" \in Faults /\ Moves(c, "reconcile") /\ UNCHANGED durable
  /\ UNCHANGED <<file, stored, queue, up, runtime, secrets>>

\* reconcile_indeterminate_commit: the file must hold this very commit.
Reconcile(c) ==
  /\ At(c, "reconcile")
  /\ \/ /\ file = Target(c)
        /\ Moves(c, "install") /\ UNCHANGED <<queue, stored>>
     \/ /\ \/ file # Target(c)
           \/ "load" \in Faults
        /\ Return(c, "error")
  /\ UNCHANGED <<store, up, runtime, secrets>>

\* reload_owned: load, reject and build; a failure only changes the status.
Reload(c) ==
  /\ At(c, "begin") /\ call[c].op = "reload"
  /\ \/ /\ Publishable(file.config)
        /\ call' = [call EXCEPT ![c] = Task("install", "reload", file.revision, file.config,
                                           @.secret, @.result)]
        /\ stored' = TRUE /\ UNCHANGED <<runtime, queue>>
     \/ /\ ~ Publishable(file.config) \/ "load" \in Faults
        /\ active' = [revision |-> active.revision, config |-> active.config,
                       reload_status |-> "failed"]
        /\ Return(c, "error") /\ UNCHANGED <<published, activeLock>>
  /\ UNCHANGED <<store, up, secrets>>

\* install: the lock of `active`, and the rebuilt health table, which panics
\* when the old one holds a record that restore rejects.
InstallBegin(c) ==
  /\ At(c, "install")
  /\ \/ activeLock' = TRUE /\ Moves(c, "publish") /\ UNCHANGED <<queue, stored>>
     \/ "panic" \in Faults /\ Return(c, "error") /\ UNCHANGED activeLock
  /\ UNCHANGED <<store, up, active, published, secrets>>

InstallUnlocked(c) ==
  /\ At(c, "publish") /\ published' = call[c].config /\ Moves(c, "assign")
  /\ activeLock' = FALSE /\ UNCHANGED <<store, up, active, secrets, queue, stored>>
InstallPublish(c) ==
  /\ At(c, "publish") /\ published' = call[c].config /\ Moves(c, "assign")
  /\ UNCHANGED <<store, up, active, activeLock, secrets, queue, stored>>

InstallAssign(c) ==
  /\ At(c, "assign")
  /\ active' = Loaded(Target(c))
  /\ activeLock' = FALSE /\ Return(c, "ok")
  /\ UNCHANGED <<store, up, published, secrets>>

\* create_secret_owned; the runtime scope is refused, as is other material.
CreateSecret(c) ==
  /\ At(c, "begin") /\ call[c].op = "create"
  /\ \/ /\ call[c].secret # Management /\ secrets' = secrets \cup {call[c].secret}
        /\ Return(c, "ok")
     \/ /\ call[c].secret = Management \/ call[c].secret \in secrets \/ "secret" \in Faults
        /\ Return(c, "error") /\ UNCHANGED secrets
  /\ UNCHANGED <<store, up, runtime>>

\* delete_secret_owned: the checks, get, and delete are separate awaits.
DeleteBegin(c) ==
  /\ At(c, "begin") /\ call[c].op = "delete"
  /\ IF call[c].secret \in protected \cup Refs[active.config]
     THEN Return(c, "error")
     ELSE Moves(c, "get") /\ UNCHANGED <<queue, stored>>
  /\ UNCHANGED <<store, up, runtime, secrets>>

DeleteGet(c) ==
  /\ At(c, "get")
  /\ \/ call[c].secret \in secrets /\ Moves(c, "delete") /\ UNCHANGED <<queue, stored>>
     \/ (call[c].secret \notin secrets \/ "secret" \in Faults) /\ Return(c, "error")
  /\ UNCHANGED <<store, up, runtime, secrets>>

DeleteSecret(c) ==
  /\ At(c, "delete")
  /\ \/ secrets' = secrets \ {call[c].secret} /\ Return(c, "ok")
     \/ "secret" \in Faults /\ Return(c, "error") /\ UNCHANGED secrets
  /\ UNCHANGED <<store, up, runtime>>

\* An operator saves any document, with the old revision or the next.
EditFile ==
  /\ "edit" \in Faults
  /\ \E revision \in {file.revision, file.revision + 1}, config \in Configs \cup {Malformed} :
       /\ revision <= MaxRevision
       /\ file' = [revision |-> revision, config |-> config]
  /\ durable' = file'
  /\ stored' = (stored \/ (queue # <<>> /\ file' = Target(Head(queue))))
  /\ UNCHANGED <<up, runtime, secrets, queue, call>>

\* The process stops; with the machine, the file may fall back.
Stop ==
  /\ up /\ up' = FALSE
  /\ queue' = <<>> /\ call' = [c \in Callers |-> Idle] /\ activeLock' = FALSE
  /\ file' \in {file} \cup (IF "power" \in Faults THEN {durable} ELSE {})
  /\ durable' \in {durable, file'}
  /\ stored' = FALSE /\ UNCHANGED <<active, published, secrets>>

\* start_service: load, build, and protect the management credential.
Start ==
  /\ ~ up /\ up' = TRUE
  /\ Publishable(file.config)
  /\ active' = Loaded(file) /\ published' = file.config
  /\ UNCHANGED <<store, activeLock, secrets, queue, call, stored>>

Serve(c) ==
  \/ CommitBegin(c) \/ StoreCheck(c) \/ StoreRename(c) \/ StoreSync(c) \/ Reconcile(c)
  \/ Reload(c) \/ InstallBegin(c) \/ InstallPublish(c) \/ InstallAssign(c)
  \/ CreateSecret(c) \/ DeleteBegin(c) \/ DeleteGet(c) \/ DeleteSecret(c)

Next == (\E c \in Callers : Call(c) \/ Serve(c)) \/ EditFile \/ Stop \/ Start

Spec == Init /\ [][Next]_vars

-----------------------------------------------------------------------------

\* The state has its shape; the calls inside or waiting for the mutation lock
\* are exactly those in progress, once each.
TypeOK ==
  /\ file \in Document /\ durable \in Document /\ stored \in BOOLEAN
  /\ up \in BOOLEAN /\ activeLock \in BOOLEAN /\ published \in Configs
  /\ active \in [revision : 0..MaxRevision, config : Configs, reload_status : {"ready", "failed"}]
  /\ secrets \subseteq Secrets
  /\ call \in [Callers -> [pc : {"idle", "begin", "check", "rename", "sync", "reconcile", "install",
                                 "publish", "assign", "get", "delete", "done"},
                           op : Ops \cup {"none"}, expected : 0..MaxRevision, config : Configs,
                           secret : Secrets, result : {"none", "ok", "error"}]]
  /\ IsInjective(queue)
  /\ {queue[i] : i \in DOMAIN queue} = {c \in Callers : call[c].pc \notin {"idle", "done"}}

\* Whoever can read `active` (status, runtime_metadata_batch) finds the
\* snapshot of that very configuration published.
PublishedIsActive == up /\ ~ activeLock => published = active.config

\* What a call publishes was, during that call, the complete content of the
\* file, revision and all: an indeterminate commit is never published on a
\* guess, and an edit in the middle makes no mixture.
PublishedWasStored ==
  \A c \in Callers : call[c].pc \in {"publish", "assign"} => stored

\* Neither a commit nor an edited file brings the management credential into
\* the published configuration, and no call removes it.
ManagementStaysOut ==
  /\ up => ~ Protects(active.config) /\ ~ Protects(published)
  /\ Management \in secrets

\* The three together: at every moment status, snapshot, file and protected
\* credential agree as install, commit and reload promise.
PublishedIsSound == PublishedIsActive /\ PublishedWasStored /\ ManagementStaysOut

\* A secret is deleted only while the active configuration does not use it:
\* no commit slips in between the check and the deletion.
DeletesUnused ==
  \A s \in secrets \ secrets' : s \notin Refs[active.config] \cup Refs[published]
=============================================================================
