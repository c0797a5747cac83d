----------------------------- MODULE Management -----------------------------
(***************************************************************************)
(* What an operator does to an installation: the management of Providers   *)
(* in the running service, and the update of its executable.  They share   *)
(* no variable, so one of them runs while the other waits in its initial   *)
(* state.  The configurations are an empty one, one that uses a secret,    *)
(* one that uses the management credential and one that does not build.    *)
(***************************************************************************)
EXTENDS ProviderManagement, Update, TLAPS

CONSTANT Parts

VARIABLE part

UsedSecrets == {"key", "management"}
UsedRefs ==
  [c \in Configs |-> CASE c = "keyed" -> {"key"} [] c = "reserved" -> {"management"} [] OTHER -> {}]

ManagementInit ==
  part \in Parts /\ Init /\ UpdateInit /\ (part = "providers" => disc = NoPid)
ManagementNext ==
  /\ UNCHANGED part
  /\ \/ part = "providers" /\ Next /\ UNCHANGED updateVars
     \/ part = "update" /\ UpdateNext /\ UNCHANGED vars
ManagementSpec ==
  ManagementInit /\ [][ManagementNext]_<<part, vars, updateVars>> /\ UpdateFairness

-----------------------------------------------------------------------------
\* Update: somebody else's executable stays; ProviderManagement: a secret in use stays
\* (paths_are_unchanged, delete_secret_owned).
ForeignIsKept == [][KeepsForeign /\ DeletesUnused]_<<vars, updateVars>>

-----------------------------------------------------------------------------
(* ProviderManagement.  The mutation lock is what makes the checks of a    *)
(* call good until it uses them: whoever is past the lock is the head of   *)
(* the queue, so what it checked only changes by its own steps, and by the *)
(* operator's edits, which `stored` records.                               *)

InStore == {"check", "rename", "sync", "reconcile"}
Installing == {"install", "publish", "assign"}
Deleting == {"get", "delete"}
Outside == {"idle", "begin", "done"}

Tasks ==
  [pc : Outside \cup InStore \cup Installing \cup Deleting, op : Ops \cup {"none"},
   expected : 0..MaxRevision, config : Configs, secret : Secrets,
   result : {"none", "ok", "error"}]

Types ==
  /\ file \in Document /\ durable \in Document /\ stored \in BOOLEAN
  /\ up \in BOOLEAN /\ activeLock \in BOOLEAN /\ published \in Configs
  /\ active \in [revision : 0..MaxRevision, config : Configs, reload_status : {"ready", "failed"}]
  /\ queue \in Seq(Callers)
  /\ call \in [Callers -> Tasks]

\* What a call has established once it is past the lock.
CallInv(c) ==
  /\ call[c].pc \notin Outside => up /\ Holds(c)
  /\ call[c].pc \in InStore \cup Installing => ~ Protects(call[c].config)
  /\ call[c].pc \in InStore => call[c].expected < MaxRevision /\ call[c].op = "commit"
  /\ call[c].pc = "sync" \/ call[c].pc \in Installing => stored
  /\ call[c].pc \in InStore /\ file = Target(c) => stored
  /\ call[c].pc \in Installing => Target(c).revision <= MaxRevision
  /\ call[c].pc \in {"publish", "assign"} => activeLock
  /\ call[c].pc = "assign" => published = call[c].config
  /\ call[c].pc \in Deleting => call[c].secret \notin protected \cup Refs[active.config]

RuntimeInv ==
  /\ ~ up => \A c \in Callers : call[c].pc = "idle"
  /\ activeLock => \E c \in Callers : call[c].pc \in {"publish", "assign"}
  /\ up /\ published # active.config => \E c \in Callers : call[c].pc = "assign"
  /\ ManagementStaysOut

IInv == Types /\ RuntimeInv /\ \A c \in Callers : CallInv(c)

\* What the queue of the mutation lock does to its head.
LEMMA QueueFacts ==
  ASSUME Types
  PROVE  /\ \A c \in Callers : Holds(c) => Tail(queue) \in Seq(Callers)
         /\ \A c \in Callers : Append(queue, c) \in Seq(Callers)
         /\ \A c, d \in Callers : Holds(d) => Append(queue, c) # <<>> /\ Head(Append(queue, c)) = d
         /\ queue # <<>> => Head(queue) \in Callers
<1> USE DEF Types, Holds
<1>1. \A c \in Callers : Append(queue, c) \in Seq(Callers)
  BY SMTT(60)
<1>2. \A c \in Callers : Holds(c) => Tail(queue) \in Seq(Callers)
  BY SMTT(60)
<1>3. queue # <<>> => Head(queue) \in Callers
  BY SMTT(60)
<1>4. ASSUME NEW c \in Callers, NEW d \in Callers, Holds(d)
      PROVE  Append(queue, c) # <<>> /\ Head(Append(queue, c)) = d
  <2>1. Len(queue) \in Nat \ {0}
    BY SMTT(60), <1>4
  <2>2. Len(Append(queue, c)) = Len(queue) + 1 /\ Append(queue, c)[1] = queue[1]
    BY SMTT(60), <2>1
  <2> QED
    BY SMTT(60), <1>4, <2>1, <2>2
<1> QED
  BY ZenonT(60), <1>1, <1>2, <1>3, <1>4

\* A call goes on to another step and keeps everything else.
LEMMA Moved ==
  ASSUME Types, NEW c \in Callers,
         NEW label \in Outside \cup InStore \cup Installing \cup Deleting,
         Moves(c, label)
  PROVE  /\ call' \in [Callers -> Tasks]
         /\ \A d \in Callers : d # c => call'[d] = call[d]
         /\ call'[c].pc = label /\ call'[c].op = call[c].op /\ call'[c].expected = call[c].expected
         /\ call'[c].config = call[c].config /\ call'[c].secret = call[c].secret
  BY ZenonT(60) DEF Types, Moves, Task, Tasks

\* A call that returns leaves nobody past the lock.
LEMMA Returned ==
  ASSUME IInv, NEW c \in Callers, Holds(c), NEW r \in {"ok", "error"}, Return(c, r)
  PROVE  /\ call' \in [Callers -> Tasks] /\ queue' \in Seq(Callers) /\ stored' = FALSE
         /\ \A d \in Callers : call'[d].pc \in Outside
<1>1. call' \in [Callers -> Tasks]
  BY SMTT(60), ConfigsAssumption DEF IInv, Types, Return, Task, Tasks, Outside
<1>2. queue' \in Seq(Callers) /\ stored' = FALSE
  BY ZenonT(60), QueueFacts DEF IInv, Return
<1>3. ASSUME NEW d \in Callers PROVE call'[d].pc \in Outside
  BY ZenonT(60) DEF IInv, Types, Return, Task, Outside, CallInv, Holds
<1> QED
  BY ZenonT(60), <1>1, <1>2, <1>3

\* While a call that is not installing has the lock, nobody is inside `active`.
LEMMA NobodyInstalls ==
  ASSUME IInv, NEW c \in Callers, Holds(c), call[c].pc \notin {"publish", "assign"}
  PROVE  activeLock = FALSE /\ (up => published = active.config)
  BY ZenonT(60) DEF IInv, Types, RuntimeInv, CallInv, Holds, Outside

\* Whatever a call has done, its return keeps the invariant.
LEMMA ReturnKeepsInv ==
  ASSUME IInv, NEW c \in Callers, Holds(c), up, NEW r \in {"ok", "error"}, Return(c, r),
         UNCHANGED <<store, up, published>>, activeLock' = FALSE, Management \in secrets',
         active' \in [revision : 0..MaxRevision, config : Configs, reload_status : {"ready", "failed"}],
         active'.config = published
  PROVE  IInv'
<1>1. Types'
  BY ZenonT(60), Returned DEF IInv, Types, store
<1>2. ~ Protects(published)
  BY ZenonT(60) DEF IInv, RuntimeInv, ManagementStaysOut
<1>3. RuntimeInv'
  BY ZenonT(60), <1>2, Returned DEF RuntimeInv, ManagementStaysOut, Protects, protected
<1>4. \A d \in Callers : CallInv(d)'
  BY ZenonT(60), Returned DEF CallInv, Outside, InStore, Installing, Deleting
<1> QED
  BY ZenonT(60), <1>1, <1>3, <1>4 DEF IInv

\* What is left to show of a call that goes on: what it has established itself.
LEMMA MoveKeepsInv ==
  ASSUME IInv, NEW c \in Callers, Holds(c), up,
         NEW label \in InStore \cup Installing \cup Deleting, Moves(c, label),
         UNCHANGED <<up, queue, active, secrets>>,
         file' \in Document, durable' \in Document, stored' \in BOOLEAN,
         published' \in Configs, ~ Protects(published'),
         activeLock' \in BOOLEAN, activeLock' <=> label \in {"publish", "assign"},
         published' # active.config => label = "assign",
         CallInv(c)'
  PROVE  IInv'
<1>1. Types'
  BY ZenonT(60), Moved DEF IInv, Types
<1>2. RuntimeInv'
  BY ZenonT(60), Moved DEF IInv, RuntimeInv, ManagementStaysOut, Protects, protected
<1>3. ASSUME NEW d \in Callers, d # c PROVE CallInv(d)'
  <2>1. call'[d].pc \in Outside
    BY ZenonT(60), <1>3, Moved DEF IInv, CallInv, Holds
  <2> QED
    BY ZenonT(60), <2>1 DEF CallInv, Outside, InStore, Installing, Deleting
<1> QED
  BY ZenonT(60), <1>1, <1>2, <1>3 DEF IInv

\* A step of a management call keeps the invariant.
LEMMA CallKeepsInv ==
  ASSUME IInv, NEW c \in Callers, Call(c) \/ Serve(c)
  PROVE  IInv'
<1> USE DEF store, runtime
<1>a. CallInv(c) /\ Types /\ ManagementStaysOut
  BY ZenonT(60) DEF IInv, RuntimeInv
<1>t. /\ call[c] \in Tasks /\ active.config \in Configs /\ published \in Configs
      /\ file \in Document /\ durable \in Document /\ stored \in BOOLEAN
  BY ZenonT(60), <1>a DEF Types
<1>r. ASSUME up, Holds(c), call[c].pc \notin {"publish", "assign"}, NEW r \in {"ok", "error"},
             Return(c, r), UNCHANGED <<store, up, active, published, activeLock>>,
             Management \in secrets'
      PROVE  IInv'
  BY ZenonT(60), <1>r, <1>a, NobodyInstalls, ReturnKeepsInv DEF Types
<1>m. ASSUME up, Holds(c), call[c].pc \notin {"publish", "assign"},
             NEW label \in InStore \cup Deleting \cup {"install"}, Moves(c, label),
             UNCHANGED <<up, queue, active, published, activeLock, secrets>>,
             file' \in Document, durable' \in Document, stored' \in BOOLEAN,
             CallInv(c)'
      PROVE  IInv'
  <2>1. label \notin {"publish", "assign"} /\ label \in InStore \cup Installing \cup Deleting
    BY ZenonT(60) DEF InStore, Installing, Deleting
  <2>2. activeLock' = FALSE /\ published' = active.config /\ ~ Protects(published')
    BY ZenonT(60), <1>m, <1>a, NobodyInstalls DEF ManagementStaysOut, Protects, protected
  <2> QED
    BY ZenonT(60), <1>m, <1>t, <2>1, <2>2, MoveKeepsInv
<1>s. Management \in secrets
  BY ZenonT(60), <1>a DEF ManagementStaysOut
<1> USE DEF InStore, Installing, Deleting, Outside
<1>1. CASE Call(c)
  <2>1. Types'
    BY SMTT(60), <1>1, <1>a, QueueFacts DEF Call, Types, Task, Tasks
  <2>2. RuntimeInv'
    BY ZenonT(60), <1>1, <1>a DEF Call, IInv, Types, RuntimeInv, ManagementStaysOut, Task
  <2>3. ASSUME NEW d \in Callers PROVE CallInv(d)'
    BY SMTT(60), <1>1, <1>a, QueueFacts DEF Call, IInv, Types, CallInv, Holds, Target, Task
  <2> QED
    BY ZenonT(60), <2>1, <2>2, <2>3 DEF IInv
<1>2. CASE CommitBegin(c)
  <2>1. CASE Return(c, "error")
    BY ZenonT(60), <1>2, <1>r, <1>s, <2>1 DEF CommitBegin, At
  <2>2. CASE /\ Moves(c, "check") /\ stored' = (file = Target(c)) /\ UNCHANGED queue
             /\ ~ Protects(call[c].config) /\ call[c].expected # MaxRevision
    <3>1. call[c].expected < MaxRevision /\ call[c].op = "commit"
      BY SMTT(60), <1>2, <1>t, <2>2, ConfigsAssumption DEF CommitBegin, Tasks
    <3>2. Target(c)' = Target(c) /\ (file' = Target(c)' => stored') /\ Holds(c)' /\ up'
      BY ZenonT(60), <1>2, <2>2, Moved, <1>a DEF CommitBegin, At, Target, Holds
    <3>3. CallInv(c)'
      BY SMTT(60), <1>a, <2>2, <3>1, <3>2, Moved DEF CallInv, Protects
    <3> QED
      BY ZenonT(60), <1>2, <1>m, <1>t, <2>2, <3>3 DEF CommitBegin, At
  <2> QED
    BY ZenonT(60), <1>2, <2>1, <2>2 DEF CommitBegin
<1>3. CASE StoreCheck(c)
  <2>1. CASE Return(c, "error")
    BY ZenonT(60), <1>3, <1>r, <1>s, <2>1 DEF StoreCheck, At
  <2>2. ASSUME NEW label \in {"rename", "reconcile"}, Moves(c, label), UNCHANGED <<queue, stored>>
        PROVE  IInv'
    <3>1. CallInv(c)'
      BY ZenonT(60), <1>3, <1>a, <2>2, Moved DEF StoreCheck, At, CallInv, Holds, Target,
         Protects
    <3> QED
      BY ZenonT(60), <1>3, <1>m, <1>t, <2>2, <3>1 DEF StoreCheck, At
  <2> QED
    BY ZenonT(60), <1>3, <2>1, <2>2 DEF StoreCheck
<1>4. CASE StoreRename(c)
  <2>1. Target(c) \in Document
    BY SMTT(60), <1>4, <1>a, <1>t, ConfigsAssumption
       DEF StoreRename, At, CallInv, Target, Document,
       Tasks
  <2>2. ASSUME NEW label \in {"sync", "reconcile"}, Moves(c, label), stored' \in {stored, TRUE},
               label = "sync" => stored', file' = file \/ stored' PROVE CallInv(c)'
    BY SMTT(60), <1>4, <1>a, <2>2, Moved DEF StoreRename, At, CallInv, Holds, Target,
       Protects
  <2> QED
    BY ZenonT(60), <1>4, <1>m, <1>t, <2>1, <2>2 DEF StoreRename, At
<1>5. CASE StoreSync(c)
  <2>1. ASSUME NEW label \in {"install", "reconcile"}, Moves(c, label) PROVE CallInv(c)'
    BY SMTT(60), <1>5, <1>a, <1>t, <2>1, Moved, ConfigsAssumption
    DEF StoreSync, At, CallInv, Holds, Target, Protects, Tasks
  <2> QED
    BY ZenonT(60), <1>5, <1>m, <1>t, <2>1 DEF StoreSync, At
<1>6. CASE Reconcile(c)
  <2>1. CASE Return(c, "error")
    BY ZenonT(60), <1>6, <1>r, <1>s, <2>1 DEF Reconcile, At
  <2>2. CASE file = Target(c) /\ Moves(c, "install") /\ UNCHANGED <<queue, stored>>
    <3>1. CallInv(c)'
      BY SMTT(60), <1>6, <1>a, <1>t, <2>2, Moved, ConfigsAssumption
      DEF Reconcile, At, CallInv, Holds, Target, Protects, Tasks
    <3> QED
      BY ZenonT(60), <1>6, <1>m, <1>t, <2>2, <3>1 DEF Reconcile, At
  <2> QED
    BY ZenonT(60), <1>6, <2>1, <2>2 DEF Reconcile
<1>7. CASE Reload(c)
  <2>0. up /\ Holds(c) /\ call[c].pc = "begin" /\ UNCHANGED <<store, up, secrets>>
    BY ZenonT(60), <1>7 DEF Reload, At
  <2>1. CASE /\ active' = [revision |-> active.revision, config |-> active.config,
                           reload_status |-> "failed"]
             /\ Return(c, "error") /\ UNCHANGED <<published, activeLock>>
    <3>1. active' \in [revision : 0..MaxRevision, config : Configs, reload_status : {"ready", "failed"}]
          /\ active'.config = active.config
      BY ZenonT(60), <1>a, <2>1 DEF Types
    <3> QED
      BY ZenonT(60), <1>s, <2>0, <2>1, <3>1, NobodyInstalls, ReturnKeepsInv
  <2>2. CASE /\ Publishable(file.config)
             /\ call' = [call EXCEPT ![c] = Task("install", "reload", file.revision, file.config,
                                                @.secret, @.result)]
             /\ stored' = TRUE /\ UNCHANGED <<runtime, queue>>
    <3>1. file.config \in Configs /\ file.revision \in 0..MaxRevision /\ call[c].op = "reload"
      BY ZenonT(60), <1>7, <1>t, <2>2 DEF Reload, Publishable, Document
    <3>2. /\ call' \in [Callers -> Tasks] /\ call'[c].pc = "install" /\ call'[c].op = "reload"
          /\ call'[c].config = file.config /\ call'[c].expected = file.revision
          /\ \A d \in Callers : d # c => call'[d] = call[d]
      BY ZenonT(60), <1>a, <1>t, <2>2, <3>1 DEF Types, Task, Tasks
    <3>3. Types'
      BY ZenonT(60), <1>a, <2>0, <2>2, <3>2 DEF Types
    <3>4. RuntimeInv'
      BY ZenonT(60), <2>0, <2>2, <3>2, NobodyInstalls
         DEF IInv, RuntimeInv, ManagementStaysOut,
         Protects, protected
    <3>5. CallInv(c)'
      BY SMTT(60), <1>a, <2>0, <2>2, <3>1, <3>2 DEF CallInv, Holds, Target, Publishable,
         Protects,
         Tasks
    <3>6. ASSUME NEW d \in Callers, d # c PROVE CallInv(d)'
      <4>1. call'[d].pc \in Outside
        BY ZenonT(60), <2>0, <3>2, <3>6 DEF IInv, CallInv, Holds
      <4> QED
        BY ZenonT(60), <4>1 DEF CallInv
    <3> QED
      BY ZenonT(60), <3>3, <3>4, <3>5, <3>6 DEF IInv
  <2> QED
    BY ZenonT(60), <1>7, <2>1, <2>2 DEF Reload
<1>8. CASE InstallBegin(c)
  <2>1. CASE Return(c, "error") /\ UNCHANGED activeLock
    BY ZenonT(60), <1>8, <1>r, <1>s, <2>1 DEF InstallBegin, At
  <2>2. CASE activeLock' = TRUE /\ Moves(c, "publish") /\ UNCHANGED <<queue, stored>>
    <3>1. CallInv(c)'
      BY ZenonT(60), <1>8, <1>a, <2>2, Moved DEF InstallBegin, At, CallInv, Holds, Target,
         Protects
    <3> QED
      BY ZenonT(60), <1>8, <1>a, <1>t, <2>2, <3>1, NobodyInstalls, MoveKeepsInv
      DEF InstallBegin, At, ManagementStaysOut
  <2> QED
    BY ZenonT(60), <1>8, <2>1, <2>2 DEF InstallBegin
<1>9. CASE InstallPublish(c)
  <2>1. CallInv(c)' /\ activeLock = TRUE /\ call[c].config \in Configs /\ ~ Protects(call[c].config)
    BY SMTT(60), <1>9, <1>a, <1>t, Moved DEF InstallPublish, At, Types, CallInv, Holds,
       Target,
       Protects, Tasks
  <2> QED
    BY ZenonT(60), <1>9, <1>t, <2>1, MoveKeepsInv DEF InstallPublish, At
<1>10. CASE InstallAssign(c)
  <2>1. Target(c).config = published /\ Target(c).revision \in 0..MaxRevision
    BY SMTT(60), <1>10, <1>a, <1>t, ConfigsAssumption
       DEF InstallAssign, At, CallInv, Target, Tasks
  <2>2. active' \in [revision : 0..MaxRevision, config : Configs, reload_status : {"ready", "failed"}]
        /\ active'.config = published
    BY ZenonT(60), <1>10, <1>t, <2>1 DEF InstallAssign, Loaded
  <2> QED
    BY ZenonT(60), <1>10, <1>s, <2>2, ReturnKeepsInv DEF InstallAssign, At
<1>11. CASE CreateSecret(c)
  BY ZenonT(60), <1>11, <1>r, <1>s DEF CreateSecret, At
<1>12. CASE DeleteBegin(c)
  <2>1. CASE Return(c, "error")
    BY ZenonT(60), <1>12, <1>r, <1>s, <2>1 DEF DeleteBegin, At
  <2>2. CASE /\ Moves(c, "get") /\ UNCHANGED <<queue, stored>>
             /\ call[c].secret \notin protected \cup Refs[active.config]
    <3>1. CallInv(c)'
      BY SMTT(60), <1>12, <1>a, <2>2, Moved DEF DeleteBegin, At, CallInv, Holds, protected
    <3> QED
      BY ZenonT(60), <1>12, <1>m, <1>t, <2>2, <3>1 DEF DeleteBegin, At
  <2> QED
    BY ZenonT(60), <1>12, <2>1, <2>2 DEF DeleteBegin
<1>13. CASE DeleteGet(c)
  <2>1. CASE Return(c, "error")
    BY ZenonT(60), <1>13, <1>r, <1>s, <2>1 DEF DeleteGet, At
  <2>2. CASE Moves(c, "delete") /\ UNCHANGED <<queue, stored>>
    <3>1. CallInv(c)'
      BY SMTT(60), <1>13, <1>a, <2>2, Moved DEF DeleteGet, At, CallInv, Holds, protected
    <3> QED
      BY ZenonT(60), <1>13, <1>m, <1>t, <2>2, <3>1 DEF DeleteGet, At
  <2> QED
    BY ZenonT(60), <1>13, <2>1, <2>2 DEF DeleteGet
<1>14. CASE DeleteSecret(c)
  <2>1. call[c].secret # Management
    BY ZenonT(60), <1>14, <1>a DEF DeleteSecret, At, CallInv, protected
  <2> QED
    BY ZenonT(60), <1>14, <1>r, <1>s, <2>1 DEF DeleteSecret, At
<1> QED
  BY ZenonT(60), <1>1, <1>2, <1>3, <1>4, <1>5, <1>6, <1>7, <1>8, <1>9, <1>10, <1>11, <1>12,
     <1>13, <1>14
  DEF Serve

LEMMA IdleIsATask == Idle \in Tasks
  BY SMTT(60), ConfigsAssumption DEF Idle, Task, Tasks, Outside

\* The operator's edits, a stop at any point and the next start keep it.
LEMMA SurroundingsKeepInv ==
  ASSUME IInv, EditFile \/ Stop \/ Start
  PROVE  IInv'
<1> USE DEF store, runtime
<1>1. CASE EditFile
  <2>1. Types'
    BY SMTT(60), <1>1, ConfigsAssumption DEF EditFile, IInv, Types, Document
  <2>2. RuntimeInv'
    BY ZenonT(60), <1>1 DEF EditFile, IInv, RuntimeInv, ManagementStaysOut
  <2>3. ASSUME NEW c \in Callers PROVE CallInv(c)'
    <3>1. CASE call[c].pc \in Outside
      BY ZenonT(60), <1>1, <3>1 DEF EditFile, CallInv, Outside, InStore, Installing,
         Deleting
    <3>2. CASE call[c].pc \notin Outside
      <4>1. Holds(c) /\ CallInv(c)
        BY ZenonT(60), <3>2 DEF IInv, CallInv
      <4>2. (stored => stored') /\ (file' = Target(c)' => stored')
        BY ZenonT(60), <1>1, <4>1 DEF EditFile, Holds, Target
      <4>3. UNCHANGED <<up, runtime, secrets, queue, call>>
        BY ZenonT(60), <1>1 DEF EditFile
      <4> QED
        BY ZenonT(60), <4>1, <4>2, <4>3 DEF CallInv, Holds, Target, Protects
    <3> QED
      BY ZenonT(60), <3>1, <3>2
  <2> QED
    BY ZenonT(60), <2>1, <2>2, <2>3 DEF IInv
<1>2. CASE Stop
  <2>1. \A c \in Callers : call'[c].pc = "idle"
    BY ZenonT(60), <1>2 DEF Stop, Idle, Task
  <2>2. Types'
    <3>1. file' \in Document /\ durable' \in Document
      BY ZenonT(60), <1>2 DEF Stop, IInv, Types
    <3>2. (call \in [Callers -> Tasks])'
      BY ZenonT(60), <1>2, IdleIsATask DEF Stop
    <3>3. queue' \in Seq(Callers)
      BY SMTT(60), <1>2 DEF Stop
    <3> QED
      BY ZenonT(60), <1>2, <3>1, <3>2, <3>3 DEF Stop, IInv, Types
  <2>3. RuntimeInv'
    BY ZenonT(60), <1>2, <2>1 DEF Stop, IInv, RuntimeInv, ManagementStaysOut
  <2>4. \A c \in Callers : CallInv(c)'
    BY ZenonT(60), <2>1 DEF CallInv, Outside, InStore, Installing, Deleting
  <2> QED
    BY ZenonT(60), <2>2, <2>3, <2>4 DEF IInv
<1>3. CASE Start
  <2>1. file.config \in Configs /\ file.revision \in 0..MaxRevision /\ ~ Protects(file.config)
    BY ZenonT(60), <1>3 DEF Start, IInv, Types, Document, Publishable
  <2>2. Types'
    BY ZenonT(60), <1>3, <2>1 DEF Start, IInv, Types, Loaded
  <2>3. RuntimeInv'
    BY ZenonT(60), <1>3, <2>1 DEF Start, IInv, Types, RuntimeInv, ManagementStaysOut,
       Loaded, Protects,
       protected
  <2>4. \A c \in Callers : CallInv(c)'
    BY ZenonT(60), <1>3 DEF Start, IInv, RuntimeInv, CallInv, Outside, InStore, Installing,
       Deleting
  <2> QED
    BY ZenonT(60), <2>2, <2>3, <2>4 DEF IInv
<1> QED
  BY ZenonT(60), <1>1, <1>2, <1>3

LEMMA InitInv == Init => IInv
<1> SUFFICES ASSUME Init PROVE IInv
  BY ZenonT(60)
<1>1. Types
  <2>1. file \in Document /\ durable \in Document
    BY SMTT(60), ConfigsAssumption DEF Init, Document
  <2>2. active \in [revision : 0..MaxRevision, config : Configs, reload_status : {"ready", "failed"}]
    BY SMTT(60), ConfigsAssumption DEF Init, Loaded
  <2>3. call \in [Callers -> Tasks]
    BY ZenonT(60), IdleIsATask DEF Init
  <2>4. queue \in Seq(Callers)
    BY SMTT(60) DEF Init
  <2> QED
    BY ZenonT(60), <2>1, <2>2, <2>3, <2>4, ConfigsAssumption DEF Init, Types
<1>2. RuntimeInv
  BY ZenonT(60), ConfigsAssumption
  DEF Init, RuntimeInv, ManagementStaysOut, Protects, protected, Loaded, Idle, Task
<1>3. \A c \in Callers : CallInv(c)
  BY ZenonT(60) DEF Init, CallInv, Idle, Task, Outside, InStore, Installing, Deleting
<1> QED
  BY ZenonT(60), <1>1, <1>2, <1>3 DEF IInv

LEMMA NextInv == IInv /\ [Next]_vars => IInv'
<1> SUFFICES ASSUME IInv, [Next]_vars PROVE IInv'
  BY ZenonT(60)
<1>1. CASE UNCHANGED vars
  BY ZenonT(60), <1>1 DEF vars, store, runtime, IInv, Types, RuntimeInv,
     ManagementStaysOut, Protects,
              protected, CallInv, Holds, Target
<1> QED
  BY ZenonT(60), <1>1, CallKeepsInv, SurroundingsKeepInv DEF Next

LEMMA Invariance == Spec => []IInv
  BY InitInv, NextInv, PTL DEF Spec

\* Status, snapshot, file and protected credential agree at every moment, for
\* any number of calls and configurations, whatever fails between the steps of
\* commit_owned and reload_owned and whatever the operator does to the file.
THEOREM PublishedSoundly == Spec => []PublishedIsSound
<1>1. IInv => PublishedIsSound
  BY ZenonT(60) DEF IInv, RuntimeInv, CallInv, Installing, PublishedIsSound,
     PublishedIsActive,
     PublishedWasStored
<1> QED
  BY <1>1, Invariance, PTL

\* delete_secret_owned removes no secret that the active or the published
\* configuration refers to, although its checks, the read and the deletion are
\* separate awaits.
LEMMA UsedStay == IInv /\ [Next]_vars => [DeletesUnused]_vars
<1> SUFFICES ASSUME IInv, [Next]_vars, NEW s \in secrets, s \notin secrets'
             PROVE  s \notin Refs[active.config] \cup Refs[published]
  BY ZenonT(60) DEF DeletesUnused
<1> USE DEF store, runtime
<1>1. PICK c \in Callers : DeleteSecret(c)
  BY ZenonT(60) DEF Next, vars, Call, Serve, CommitBegin, StoreCheck, StoreRename,
     StoreSync,
     Reconcile,
         Reload, InstallBegin, InstallPublish, InstallAssign, CreateSecret, DeleteBegin,
         DeleteGet, EditFile, Stop, Start
<1>2. s = call[c].secret /\ up /\ Holds(c) /\ call[c].pc = "delete"
  BY ZenonT(60), <1>1 DEF DeleteSecret, At
<1> QED
  BY ZenonT(60), <1>2, NobodyInstalls DEF IInv, CallInv, Deleting
-----------------------------------------------------------------------------
(* Update.  The target is replaced only while the old executable has its   *)
(* second name, and renamed back only when both paths are as they were     *)
(* left; a child publishes its version before it can be found ready.       *)

Stages == {"idle", "connect", "drain", "stop", "exit", "recovering", "begin", "link", "rename",
           "spawn", "ready", "vstop", "vexit", "terminate", "commit", "rollback", "done", "cancelled"}

FilesInv ==
  /\ target \in Versions \cup {Foreign} /\ backup \in Versions \cup {NoFile, Foreign}
  /\ from \in Versions
  /\ pc \in Stages
  /\ pc # "idle" => from < MaxVersion
  /\ pc \in {"link", "rename"} => target = from
  /\ pc = "rename" => backup = from
  /\ after # "installed"
  /\ outcome = "installed" => pc \in {"done", "idle"}
  /\ OldIsThere

Processes ==
  [ver : Versions \cup {NoFile, Foreign},
   st : {"dead", "starting", "running", "draining", "awaiting", "stopping"}, by : Nat]

ServedInv ==
  /\ proc \in [Pids -> Processes]
  /\ disc \in Pids \cup {NoPid} /\ orig \in Pids \cup {NoPid}
  /\ child \in Pids \cup {NoPid} /\ rchild \in Pids \cup {NoPid}
  /\ attempt \in Nat
  /\ Serving(child) => proc[child].ver \in served
  /\ pc \in {"vstop", "vexit", "commit"} => Candidate \in served
  /\ InstalledWasServing

UpdateInv == FilesInv /\ ServedInv

\* A process that serves after the step served before, as the same version.
ProcsKept ==
  /\ proc' \in [Pids -> Processes]
  /\ \A p \in Pids : Serving(p)' => Serving(p) /\ proc'[p].ver = proc[p].ver

LEMMA SetKeeps ==
  ASSUME ServedInv, NEW p \in Pids \cup {NoPid}, Serving(p),
         NEW st \in {"running", "draining", "awaiting", "stopping"}, Set(p, st)
  PROVE  ProcsKept
  BY DEF ServedInv, ProcsKept, Set, Process, Processes, Serving

LEMMA KillKeeps ==
  ASSUME ServedInv, NEW p, Kill(p)
  PROVE  ProcsKept
  BY DEF ServedInv, ProcsKept, Kill, Dead, Process, Processes, Serving

LEMMA SpawnKeeps ==
  ASSUME ServedInv, FilesInv, NEW p \in Pids, NEW who \in Nat,
         proc' = [proc EXCEPT ![p] = Started(who)]
  PROVE  ProcsKept /\ proc'[p].st = "starting"
  BY DEF ServedInv, FilesInv, ProcsKept, Started, Process, Processes, Serving

LEMMA SameKeeps ==
  ASSUME ServedInv, UNCHANGED proc
  PROVE  ProcsKept
  BY DEF ServedInv, ProcsKept, Serving

\* Steps that leave the two files alone.
FilesKept ==
  /\ UNCHANGED <<target, backup, from>>
  /\ \/ UNCHANGED <<pc, after, outcome>>
     \/ /\ pc \notin {"idle", "done"} /\ pc' \in Stages \ {"idle", "link", "rename"}
        /\ after' # "installed" /\ (outcome' = "installed" => pc' = "done")

LEMMA FilesFrame ==
  ASSUME FilesInv, FilesKept
  PROVE  FilesInv'
  BY DEF FilesInv, FilesKept, OldIsThere, Versions, Foreign, Stages

\* Steps after which what is ready or installed has served.
ServedKept ==
  /\ disc' \in Pids \cup {NoPid} /\ orig' \in Pids \cup {NoPid} /\ rchild' \in Pids \cup {NoPid}
  /\ attempt' \in Nat
  /\ UNCHANGED from /\ served \subseteq served'
  /\ child' = child \/ (child' \in Pids \cup {NoPid} /\ (child' = NoPid \/ proc'[child'].st = "starting"))
  /\ pc' \in {"vstop", "vexit", "commit"} =>
       pc \in {"vstop", "vexit", "commit"} \/ Candidate \in served
  /\ outcome' = "installed" => outcome = "installed" \/ Candidate \in served

LEMMA ServedFrame ==
  ASSUME ServedInv, ProcsKept, ServedKept
  PROVE  ServedInv'
  <1>1. Serving(child)' => proc'[child'].ver \in served'
    BY DEF ServedInv, ProcsKept, ServedKept, Serving
  <1>2. /\ pc' \in {"vstop", "vexit", "commit"} => Candidate' \in served'
        /\ InstalledWasServing'
    BY DEF ServedInv, ServedKept, InstalledWasServing, Candidate
  <1>3. QED
    BY <1>1, <1>2 DEF ServedInv, ProcsKept, ServedKept

\* The command up to the file transaction.
LEMMA ConnectKeeps ==
  ASSUME UpdateInv, Connect
  PROVE  UpdateInv'
  <1>0. FilesInv /\ ServedInv
    BY DEF UpdateInv
  <1>1. FilesKept
    BY <1>0 DEF FilesKept, FilesInv, Connect, Goto, Finish, Returns, Recover, Disarmed,
       Dropped, SameRecovery, Fault, NoFault, files, services, command, recovery, cleanup,
       history, Stages
  <1>2. ProcsKept
    BY <1>0, SameKeeps DEF Connect, Goto, Finish, Returns, Recover, Disarmed, Dropped,
       SameRecovery, Fault, NoFault, files, services, command, recovery, cleanup, history,
       Stages
  <1>3. ServedKept
    BY <1>0 DEF ServedKept, ServedInv, FilesInv, Connect, Goto, Finish, Returns, Recover,
       Disarmed, Dropped, SameRecovery, Fault, NoFault, files, services, command, recovery,
       cleanup, history, Stages
  <1>4. QED
    BY <1>0, <1>1, <1>2, <1>3, FilesFrame, ServedFrame DEF UpdateInv

LEMMA RequestDrainKeeps ==
  ASSUME UpdateInv, RequestDrain
  PROVE  UpdateInv'
  <1>0. FilesInv /\ ServedInv
    BY DEF UpdateInv
  <1>1. FilesKept
    BY <1>0 DEF FilesKept, FilesInv, RequestDrain, Goto, Finish, Returns, Recover,
       Disarmed, Dropped, SameRecovery, Fault, NoFault, files, services, command, recovery,
       cleanup, history, Stages
  <1>2. ProcsKept
    <2>1. CASE UNCHANGED proc
      BY <1>0, <2>1, SameKeeps
    <2>2. CASE Serving(orig) /\ Set(orig, DrainedTo(proc[orig].st))
      BY <1>0, <2>2, SetKeeps DEF ServedInv, Processes, DrainedTo, Serving
    <2>3. QED
      BY <1>0, <2>1, <2>2 DEF RequestDrain, Goto, Finish, Returns, Recover, Disarmed,
         Dropped, SameRecovery, Fault, NoFault, files, services, command, recovery,
         cleanup, history, Stages
  <1>3. ServedKept
    BY <1>0 DEF ServedKept, ServedInv, FilesInv, RequestDrain, Goto, Finish, Returns,
       Recover, Disarmed, Dropped, SameRecovery, Fault, NoFault, files, services, command,
       recovery, cleanup, history, Stages
  <1>4. QED
    BY <1>0, <1>1, <1>2, <1>3, FilesFrame, ServedFrame DEF UpdateInv

LEMMA RequestStopKeeps ==
  ASSUME UpdateInv, RequestStop
  PROVE  UpdateInv'
  <1>0. FilesInv /\ ServedInv
    BY DEF UpdateInv
  <1>1. FilesKept
    BY <1>0 DEF FilesKept, FilesInv, RequestStop, Goto, Finish, Returns, Recover, Disarmed,
       Dropped, SameRecovery, Fault, NoFault, files, services, command, recovery, cleanup,
       history, Stages
  <1>2. ProcsKept
    <2>1. CASE UNCHANGED proc
      BY <1>0, <2>1, SameKeeps
    <2>2. CASE Serving(orig) /\ Set(orig, "stopping")
      BY <1>0, <2>2, SetKeeps DEF ServedInv
    <2>3. QED
      BY <1>0, <2>1, <2>2 DEF RequestStop, Goto, Finish, Returns, Recover, Disarmed,
         Dropped, SameRecovery, Fault, NoFault, files, services, command, recovery,
         cleanup, history, Stages
  <1>3. ServedKept
    BY <1>0 DEF ServedKept, ServedInv, FilesInv, RequestStop, Goto, Finish, Returns,
       Recover, Disarmed, Dropped, SameRecovery, Fault, NoFault, files, services, command,
       recovery, cleanup, history, Stages
  <1>4. QED
    BY <1>0, <1>1, <1>2, <1>3, FilesFrame, ServedFrame DEF UpdateInv

LEMMA WaitForExitKeeps ==
  ASSUME UpdateInv, WaitForExit
  PROVE  UpdateInv'
  <1>0. FilesInv /\ ServedInv
    BY DEF UpdateInv
  <1>1. FilesKept
    BY <1>0 DEF FilesKept, FilesInv, WaitForExit, Goto, Finish, Returns, Recover, Disarmed,
       Dropped, SameRecovery, Fault, NoFault, files, services, command, recovery, cleanup,
       history, Stages
  <1>2. ProcsKept
    BY <1>0, SameKeeps DEF WaitForExit, Goto, Finish, Returns, Recover, Disarmed, Dropped,
       SameRecovery, Fault, NoFault, files, services, command, recovery, cleanup, history,
       Stages
  <1>3. ServedKept
    BY <1>0 DEF ServedKept, ServedInv, FilesInv, WaitForExit, Goto, Finish, Returns,
       Recover, Disarmed, Dropped, SameRecovery, Fault, NoFault, files, services, command,
       recovery, cleanup, history, Stages
  <1>4. QED
    BY <1>0, <1>1, <1>2, <1>3, FilesFrame, ServedFrame DEF UpdateInv

LEMMA RecoveredKeeps ==
  ASSUME UpdateInv, Recovered
  PROVE  UpdateInv'
  <1>0. FilesInv /\ ServedInv
    BY DEF UpdateInv
  <1>1. FilesKept
    BY <1>0 DEF FilesKept, FilesInv, Recovered, Goto, Finish, Returns, Recover, Disarmed,
       Dropped, SameRecovery, Fault, NoFault, files, services, command, recovery, cleanup,
       history, Stages
  <1>2. ProcsKept
    BY <1>0, SameKeeps DEF Recovered, Goto, Finish, Returns, Recover, Disarmed, Dropped,
       SameRecovery, Fault, NoFault, files, services, command, recovery, cleanup, history,
       Stages
  <1>3. ServedKept
    BY <1>0 DEF ServedKept, ServedInv, FilesInv, Recovered, Goto, Finish, Returns, Recover,
       Disarmed, Dropped, SameRecovery, Fault, NoFault, files, services, command, recovery,
       cleanup, history, Stages
  <1>4. QED
    BY <1>0, <1>1, <1>2, <1>3, FilesFrame, ServedFrame DEF UpdateInv

\* The verification of a child.
LEMMA SpawnServiceKeeps ==
  ASSUME UpdateInv, SpawnService
  PROVE  UpdateInv'
  <1>0. FilesInv /\ ServedInv
    BY DEF UpdateInv
  <1>1. FilesKept
    BY <1>0 DEF FilesKept, FilesInv, SpawnService, SafeToRollback, Goto, Finish, Returns,
       Recover, Disarmed, Dropped, SameRecovery, Fault, NoFault, files, services, command,
       recovery, cleanup, history, Stages
  <1>2. ProcsKept
    <2>1. CASE UNCHANGED proc
      BY <1>0, <2>1, SameKeeps
    <2>2. CASE \E p \in Unused : proc' = [proc EXCEPT ![p] = Started(attempt)]
      BY <1>0, <2>2, SpawnKeeps DEF ServedInv, Unused
    <2>3. QED
      BY <1>0, <2>1, <2>2 DEF SpawnService, SafeToRollback, Goto, Finish, Returns, Recover,
         Disarmed, Dropped, SameRecovery, Fault, NoFault, files, services, command,
         recovery, cleanup, history, Stages
  <1>3. ServedKept
    BY <1>0 DEF ServedKept, ServedInv, FilesInv, SpawnService, SafeToRollback, Unused,
       Started, Process, Goto, Finish, Returns, Recover, Disarmed, Dropped, SameRecovery,
       Fault, NoFault, files, services, command, recovery, cleanup, history, Stages
  <1>4. QED
    BY <1>0, <1>1, <1>2, <1>3, FilesFrame, ServedFrame DEF UpdateInv

LEMMA WaitForReadyKeeps ==
  ASSUME UpdateInv, WaitForReady
  PROVE  UpdateInv'
  <1>0. FilesInv /\ ServedInv
    BY DEF UpdateInv
  <1>1. FilesKept
    BY <1>0 DEF FilesKept, FilesInv, WaitForReady, Verified, Goto, Finish, Returns,
       Recover, Disarmed, Dropped, SameRecovery, Fault, NoFault, files, services, command,
       recovery, cleanup, history, Stages
  <1>2. ProcsKept
    BY <1>0, SameKeeps DEF WaitForReady, Goto, Finish, Returns, Recover, Disarmed, Dropped,
       SameRecovery, Fault, NoFault, files, services, command, recovery, cleanup, history,
       Stages
  <1>3. ServedKept
    BY <1>0 DEF ServedKept, ServedInv, FilesInv, WaitForReady, Verified, IsReady, Expected,
       Goto, Finish, Returns, Recover, Disarmed, Dropped, SameRecovery, Fault, NoFault,
       files, services, command, recovery, cleanup, history, Stages
  <1>4. QED
    BY <1>0, <1>1, <1>2, <1>3, FilesFrame, ServedFrame DEF UpdateInv

LEMMA StopVerifiedKeeps ==
  ASSUME UpdateInv, StopVerified
  PROVE  UpdateInv'
  <1>0. FilesInv /\ ServedInv
    BY DEF UpdateInv
  <1>1. FilesKept
    BY <1>0 DEF FilesKept, FilesInv, StopVerified, Goto, Finish, Returns, Recover,
       Disarmed, Dropped, SameRecovery, Fault, NoFault, files, services, command, recovery,
       cleanup, history, Stages
  <1>2. ProcsKept
    <2>1. CASE UNCHANGED proc
      BY <1>0, <2>1, SameKeeps
    <2>2. CASE Serving(child) /\ Set(child, "stopping")
      BY <1>0, <2>2, SetKeeps DEF ServedInv
    <2>3. QED
      BY <1>0, <2>1, <2>2 DEF StopVerified, Goto, Finish, Returns, Recover, Disarmed,
         Dropped, SameRecovery, Fault, NoFault, files, services, command, recovery,
         cleanup, history, Stages
  <1>3. ServedKept
    BY <1>0 DEF ServedKept, ServedInv, FilesInv, StopVerified, Goto, Finish, Returns,
       Recover, Disarmed, Dropped, SameRecovery, Fault, NoFault, files, services, command,
       recovery, cleanup, history, Stages
  <1>4. QED
    BY <1>0, <1>1, <1>2, <1>3, FilesFrame, ServedFrame DEF UpdateInv

LEMMA VerifiedExitsKeeps ==
  ASSUME UpdateInv, VerifiedExits
  PROVE  UpdateInv'
  <1>0. FilesInv /\ ServedInv
    BY DEF UpdateInv
  <1>1. FilesKept
    BY <1>0 DEF FilesKept, FilesInv, VerifiedExits, Goto, Finish, Returns, Recover,
       Disarmed, Dropped, SameRecovery, Fault, NoFault, files, services, command, recovery,
       cleanup, history, Stages
  <1>2. ProcsKept
    BY <1>0, SameKeeps DEF VerifiedExits, Goto, Finish, Returns, Recover, Disarmed,
       Dropped, SameRecovery, Fault, NoFault, files, services, command, recovery, cleanup,
       history, Stages
  <1>3. ServedKept
    BY <1>0 DEF ServedKept, ServedInv, FilesInv, VerifiedExits, Goto, Finish, Returns,
       Recover, Disarmed, Dropped, SameRecovery, Fault, NoFault, files, services, command,
       recovery, cleanup, history, Stages
  <1>4. QED
    BY <1>0, <1>1, <1>2, <1>3, FilesFrame, ServedFrame DEF UpdateInv

LEMMA TerminateKeeps ==
  ASSUME UpdateInv, Terminate
  PROVE  UpdateInv'
  <1>0. FilesInv /\ ServedInv
    BY DEF UpdateInv
  <1>1. FilesKept
    BY <1>0 DEF FilesKept, FilesInv, Terminate, SafeToRollback, RecoveryRequired, Killed,
       Goto, Finish, Returns, Recover, Disarmed, Dropped, SameRecovery, Fault, NoFault,
       files, services, command, recovery, cleanup, history, Stages
  <1>2. ProcsKept
    <2>1. CASE UNCHANGED proc
      BY <1>0, <2>1, SameKeeps
    <2>2. CASE Kill(child)
      BY <1>0, <2>2, KillKeeps
    <2>3. QED
      BY <1>0, <2>1, <2>2 DEF Terminate, SafeToRollback, RecoveryRequired, Killed, Goto,
         Finish, Returns, Recover, Disarmed, Dropped, SameRecovery, Fault, NoFault, files,
         services, command, recovery, cleanup, history, Stages
  <1>3. ServedKept
    BY <1>0 DEF ServedKept, ServedInv, FilesInv, Terminate, SafeToRollback,
       RecoveryRequired, Killed, Goto, Finish, Returns, Recover, Disarmed, Dropped,
       SameRecovery, Fault, NoFault, files, services, command, recovery, cleanup, history,
       Stages
  <1>4. QED
    BY <1>0, <1>1, <1>2, <1>3, FilesFrame, ServedFrame DEF UpdateInv

\* The recovery task and the tasks of dropped children.
LEMMA ReapKeeps ==
  ASSUME UpdateInv, NEW p \in Pids, Reap(p)
  PROVE  UpdateInv'
  <1>0. FilesInv /\ ServedInv
    BY DEF UpdateInv
  <1>1. FilesKept
    BY <1>0 DEF FilesKept, FilesInv, Reap, Goto, Finish, Returns, Recover, Disarmed,
       Dropped, SameRecovery, Fault, NoFault, files, services, command, recovery, cleanup,
       history, Stages
  <1>2. ProcsKept
    <2>1. CASE UNCHANGED proc
      BY <1>0, <2>1, SameKeeps
    <2>2. CASE Kill(p)
      BY <1>0, <2>2, KillKeeps
    <2>3. QED
      BY <1>0, <2>1, <2>2 DEF Reap, Killed, Goto, Finish, Returns, Recover, Disarmed,
         Dropped, SameRecovery, Fault, NoFault, files, services, command, recovery,
         cleanup, history, Stages
  <1>3. ServedKept
    BY <1>0 DEF ServedKept, ServedInv, FilesInv, Reap, Goto, Finish, Returns, Recover,
       Disarmed, Dropped, SameRecovery, Fault, NoFault, files, services, command, recovery,
       cleanup, history, Stages
  <1>4. QED
    BY <1>0, <1>1, <1>2, <1>3, FilesFrame, ServedFrame DEF UpdateInv

LEMMA AwaitCleanupKeeps ==
  ASSUME UpdateInv, AwaitCleanup
  PROVE  UpdateInv'
  <1>0. FilesInv /\ ServedInv
    BY DEF UpdateInv
  <1>1. FilesKept
    BY <1>0 DEF FilesKept, FilesInv, AwaitCleanup, Quiet, Goto, Finish, Returns, Recover,
       Disarmed, Dropped, SameRecovery, Fault, NoFault, files, services, command, recovery,
       cleanup, history, Stages
  <1>2. ProcsKept
    BY <1>0, SameKeeps DEF AwaitCleanup, Goto, Finish, Returns, Recover, Disarmed, Dropped,
       SameRecovery, Fault, NoFault, files, services, command, recovery, cleanup, history,
       Stages
  <1>3. ServedKept
    BY <1>0 DEF ServedKept, ServedInv, FilesInv, AwaitCleanup, Quiet, Goto, Finish,
       Returns, Recover, Disarmed, Dropped, SameRecovery, Fault, NoFault, files, services,
       command, recovery, cleanup, history, Stages
  <1>4. QED
    BY <1>0, <1>1, <1>2, <1>3, FilesFrame, ServedFrame DEF UpdateInv

LEMMA CancelDrainKeeps ==
  ASSUME UpdateInv, CancelDrain
  PROVE  UpdateInv'
  <1>0. FilesInv /\ ServedInv
    BY DEF UpdateInv
  <1>1. FilesKept
    BY <1>0 DEF FilesKept, FilesInv, CancelDrain, Quiet, Goto, Finish, Returns, Recover,
       Disarmed, Dropped, SameRecovery, Fault, NoFault, files, services, command, recovery,
       cleanup, history, Stages
  <1>2. ProcsKept
    <2>1. CASE UNCHANGED proc
      BY <1>0, <2>1, SameKeeps
    <2>2. CASE Alive(orig) /\ proc[orig].st \in {"draining", "awaiting"} /\ Set(orig, "running")
      BY <1>0, <2>2, SetKeeps DEF ServedInv, Alive, Serving
    <2>3. QED
      BY <1>0, <2>1, <2>2 DEF CancelDrain, Quiet, Goto, Finish, Returns, Recover, Disarmed,
         Dropped, SameRecovery, Fault, NoFault, files, services, command, recovery,
         cleanup, history, Stages
  <1>3. ServedKept
    BY <1>0 DEF ServedKept, ServedInv, FilesInv, CancelDrain, Quiet, Goto, Finish, Returns,
       Recover, Disarmed, Dropped, SameRecovery, Fault, NoFault, files, services, command,
       recovery, cleanup, history, Stages
  <1>4. QED
    BY <1>0, <1>1, <1>2, <1>3, FilesFrame, ServedFrame DEF UpdateInv

LEMMA SettleKeeps ==
  ASSUME UpdateInv, Settle
  PROVE  UpdateInv'
  <1>0. FilesInv /\ ServedInv
    BY DEF UpdateInv
  <1>1. FilesKept
    BY <1>0 DEF FilesKept, FilesInv, Settle, Quiet, Goto, Finish, Returns, Recover,
       Disarmed, Dropped, SameRecovery, Fault, NoFault, files, services, command, recovery,
       cleanup, history, Stages
  <1>2. ProcsKept
    BY <1>0, SameKeeps DEF Settle, Goto, Finish, Returns, Recover, Disarmed, Dropped,
       SameRecovery, Fault, NoFault, files, services, command, recovery, cleanup, history,
       Stages
  <1>3. ServedKept
    BY <1>0 DEF ServedKept, ServedInv, FilesInv, Settle, Quiet, Goto, Finish, Returns,
       Recover, Disarmed, Dropped, SameRecovery, Fault, NoFault, files, services, command,
       recovery, cleanup, history, Stages
  <1>4. QED
    BY <1>0, <1>1, <1>2, <1>3, FilesFrame, ServedFrame DEF UpdateInv

LEMMA VerifyOldServiceKeeps ==
  ASSUME UpdateInv, VerifyOldService
  PROVE  UpdateInv'
  <1>0. FilesInv /\ ServedInv
    BY DEF UpdateInv
  <1>1. FilesKept
    BY <1>0 DEF FilesKept, FilesInv, VerifyOldService, Quiet, Goto, Finish, Returns,
       Recover, Disarmed, Dropped, SameRecovery, Fault, NoFault, files, services, command,
       recovery, cleanup, history, Stages
  <1>2. ProcsKept
    BY <1>0, SameKeeps DEF VerifyOldService, Goto, Finish, Returns, Recover, Disarmed,
       Dropped, SameRecovery, Fault, NoFault, files, services, command, recovery, cleanup,
       history, Stages
  <1>3. ServedKept
    BY <1>0 DEF ServedKept, ServedInv, FilesInv, VerifyOldService, Quiet, Goto, Finish,
       Returns, Recover, Disarmed, Dropped, SameRecovery, Fault, NoFault, files, services,
       command, recovery, cleanup, history, Stages
  <1>4. QED
    BY <1>0, <1>1, <1>2, <1>3, FilesFrame, ServedFrame DEF UpdateInv

LEMMA RecoverySpawnsKeeps ==
  ASSUME UpdateInv, RecoverySpawns
  PROVE  UpdateInv'
  <1>0. FilesInv /\ ServedInv
    BY DEF UpdateInv
  <1>1. FilesKept
    BY <1>0 DEF FilesKept, FilesInv, RecoverySpawns, Quiet, Unused, Goto, Finish, Returns,
       Recover, Disarmed, Dropped, SameRecovery, Fault, NoFault, files, services, command,
       recovery, cleanup, history, Stages
  <1>2. ProcsKept
    <2>1. CASE UNCHANGED proc
      BY <1>0, <2>1, SameKeeps
    <2>2. CASE \E p \in Unused : proc' = [proc EXCEPT ![p] = Started(attempt)]
      BY <1>0, <2>2, SpawnKeeps DEF ServedInv, Unused
    <2>3. QED
      BY <1>0, <2>1, <2>2 DEF RecoverySpawns, Quiet, Unused, Goto, Finish, Returns,
         Recover, Disarmed, Dropped, SameRecovery, Fault, NoFault, files, services,
         command, recovery, cleanup, history, Stages
  <1>3. ServedKept
    BY <1>0 DEF ServedKept, ServedInv, FilesInv, RecoverySpawns, Quiet, Unused, Goto,
       Finish, Returns, Recover, Disarmed, Dropped, SameRecovery, Fault, NoFault, files,
       services, command, recovery, cleanup, history, Stages
  <1>4. QED
    BY <1>0, <1>1, <1>2, <1>3, FilesFrame, ServedFrame DEF UpdateInv

LEMMA RecoveryReadyKeeps ==
  ASSUME UpdateInv, RecoveryReady
  PROVE  UpdateInv'
  <1>0. FilesInv /\ ServedInv
    BY DEF UpdateInv
  <1>1. FilesKept
    BY <1>0 DEF FilesKept, FilesInv, RecoveryReady, Quiet, Goto, Finish, Returns, Recover,
       Disarmed, Dropped, SameRecovery, Fault, NoFault, files, services, command, recovery,
       cleanup, history, Stages
  <1>2. ProcsKept
    BY <1>0, SameKeeps DEF RecoveryReady, Goto, Finish, Returns, Recover, Disarmed,
       Dropped, SameRecovery, Fault, NoFault, files, services, command, recovery, cleanup,
       history, Stages
  <1>3. ServedKept
    BY <1>0 DEF ServedKept, ServedInv, FilesInv, RecoveryReady, Quiet, Goto, Finish,
       Returns, Recover, Disarmed, Dropped, SameRecovery, Fault, NoFault, files, services,
       command, recovery, cleanup, history, Stages
  <1>4. QED
    BY <1>0, <1>1, <1>2, <1>3, FilesFrame, ServedFrame DEF UpdateInv

LEMMA RecoveryTerminatesKeeps ==
  ASSUME UpdateInv, RecoveryTerminates
  PROVE  UpdateInv'
  <1>0. FilesInv /\ ServedInv
    BY DEF UpdateInv
  <1>1. FilesKept
    BY <1>0 DEF FilesKept, FilesInv, RecoveryTerminates, Quiet, Killed, Goto, Finish,
       Returns, Recover, Disarmed, Dropped, SameRecovery, Fault, NoFault, files, services,
       command, recovery, cleanup, history, Stages
  <1>2. ProcsKept
    <2>1. CASE UNCHANGED proc
      BY <1>0, <2>1, SameKeeps
    <2>2. CASE Kill(rchild)
      BY <1>0, <2>2, KillKeeps
    <2>3. QED
      BY <1>0, <2>1, <2>2 DEF RecoveryTerminates, Quiet, Killed, Goto, Finish, Returns,
         Recover, Disarmed, Dropped, SameRecovery, Fault, NoFault, files, services,
         command, recovery, cleanup, history, Stages
  <1>3. ServedKept
    BY <1>0 DEF ServedKept, ServedInv, FilesInv, RecoveryTerminates, Quiet, Killed, Goto,
       Finish, Returns, Recover, Disarmed, Dropped, SameRecovery, Fault, NoFault, files,
       services, command, recovery, cleanup, history, Stages
  <1>4. QED
    BY <1>0, <1>1, <1>2, <1>3, FilesFrame, ServedFrame DEF UpdateInv

\* The service processes, the user and the requests.
LEMMA ServiceExitsKeeps ==
  ASSUME UpdateInv, NEW p \in Pids, ServiceExits(p)
  PROVE  UpdateInv'
  <1>0. FilesInv /\ ServedInv
    BY DEF UpdateInv
  <1>1. FilesKept
    BY <1>0 DEF FilesKept, FilesInv, ServiceExits, World, Goto, Finish, Returns, Recover,
       Disarmed, Dropped, SameRecovery, Fault, NoFault, files, services, command, recovery,
       cleanup, history, Stages
  <1>2. ProcsKept
    <2>1. CASE Kill(p)
      BY <1>0, <2>1, KillKeeps
    <2>2. QED
      BY <1>0, <2>1 DEF ServiceExits, World, Goto, Finish, Returns, Recover, Disarmed,
         Dropped, SameRecovery, Fault, NoFault, files, services, command, recovery,
         cleanup, history, Stages
  <1>3. ServedKept
    BY <1>0 DEF ServedKept, ServedInv, FilesInv, ServiceExits, World, Goto, Finish,
       Returns, Recover, Disarmed, Dropped, SameRecovery, Fault, NoFault, files, services,
       command, recovery, cleanup, history, Stages
  <1>4. QED
    BY <1>0, <1>1, <1>2, <1>3, FilesFrame, ServedFrame DEF UpdateInv

LEMMA ServiceDiesKeeps ==
  ASSUME UpdateInv, NEW p \in Pids, ServiceDies(p)
  PROVE  UpdateInv'
  <1>0. FilesInv /\ ServedInv
    BY DEF UpdateInv
  <1>1. FilesKept
    BY <1>0 DEF FilesKept, FilesInv, ServiceDies, World, Goto, Finish, Returns, Recover,
       Disarmed, Dropped, SameRecovery, Fault, NoFault, files, services, command, recovery,
       cleanup, history, Stages
  <1>2. ProcsKept
    <2>1. CASE Kill(p)
      BY <1>0, <2>1, KillKeeps
    <2>2. QED
      BY <1>0, <2>1 DEF ServiceDies, World, Goto, Finish, Returns, Recover, Disarmed,
         Dropped, SameRecovery, Fault, NoFault, files, services, command, recovery,
         cleanup, history, Stages
  <1>3. ServedKept
    BY <1>0 DEF ServedKept, ServedInv, FilesInv, ServiceDies, World, Goto, Finish, Returns,
       Recover, Disarmed, Dropped, SameRecovery, Fault, NoFault, files, services, command,
       recovery, cleanup, history, Stages
  <1>4. QED
    BY <1>0, <1>1, <1>2, <1>3, FilesFrame, ServedFrame DEF UpdateInv

LEMMA RequestsKeeps ==
  ASSUME UpdateInv, Requests
  PROVE  UpdateInv'
  <1>0. FilesInv /\ ServedInv
    BY DEF UpdateInv
  <1>1. FilesKept
    BY <1>0 DEF FilesKept, FilesInv, Requests, World, Goto, Finish, Returns, Recover,
       Disarmed, Dropped, SameRecovery, Fault, NoFault, files, services, command, recovery,
       cleanup, history, Stages
  <1>2. ProcsKept
    BY <1>0, SameKeeps DEF Requests, Goto, Finish, Returns, Recover, Disarmed, Dropped,
       SameRecovery, Fault, NoFault, files, services, command, recovery, cleanup, history,
       Stages
  <1>3. ServedKept
    BY <1>0 DEF ServedKept, ServedInv, FilesInv, Requests, World, Goto, Finish, Returns,
       Recover, Disarmed, Dropped, SameRecovery, Fault, NoFault, files, services, command,
       recovery, cleanup, history, Stages
  <1>4. QED
    BY <1>0, <1>1, <1>2, <1>3, FilesFrame, ServedFrame DEF UpdateInv

LEMMA UserStartsKeeps ==
  ASSUME UpdateInv, NEW p \in Pids, UserStarts(p)
  PROVE  UpdateInv'
  <1>0. FilesInv /\ ServedInv
    BY DEF UpdateInv
  <1>1. FilesKept
    BY <1>0 DEF FilesKept, FilesInv, UserStarts, World, Unused, Goto, Finish, Returns,
       Recover, Disarmed, Dropped, SameRecovery, Fault, NoFault, files, services, command,
       recovery, cleanup, history, Stages
  <1>2. ProcsKept
    <2>1. CASE proc' = [proc EXCEPT ![p] = Started(0)]
      BY <1>0, <2>1, SpawnKeeps
    <2>2. QED
      BY <1>0, <2>1 DEF UserStarts, World, Unused, Goto, Finish, Returns, Recover,
         Disarmed, Dropped, SameRecovery, Fault, NoFault, files, services, command,
         recovery, cleanup, history, Stages
  <1>3. ServedKept
    BY <1>0 DEF ServedKept, ServedInv, FilesInv, UserStarts, World, Unused, Goto, Finish,
       Returns, Recover, Disarmed, Dropped, SameRecovery, Fault, NoFault, files, services,
       command, recovery, cleanup, history, Stages
  <1>4. QED
    BY <1>0, <1>1, <1>2, <1>3, FilesFrame, ServedFrame DEF UpdateInv
\* A service that comes up publishes its version.
LEMMA ServiceStartsKeeps ==
  ASSUME UpdateInv, NEW p \in Pids, ServiceStarts(p)
  PROVE  UpdateInv'
  <1>0. FilesInv /\ ServedInv
    BY DEF UpdateInv
  <1>1. FilesKept
    BY DEF FilesKept, ServiceStarts, World, files, command
  <1>2. CASE Kill(p) /\ UNCHANGED <<disc, served>>
    <2>1. ProcsKept
      BY <1>0, <1>2, KillKeeps
    <2>2. ServedKept
      BY <1>0, <1>2 DEF ServedKept, ServedInv, ServiceStarts, World, command, recovery
    <2>3. QED
      BY <1>0, <1>1, <2>1, <2>2, FilesFrame, ServedFrame DEF UpdateInv
  <1>3. CASE Set(p, "running") /\ disc' = p /\ served' = served \cup {proc[p].ver}
    <2>1. /\ proc' \in [Pids -> Processes] /\ proc'[p].ver = proc[p].ver
          /\ \A q \in Pids : q # p => proc'[q] = proc[q]
      BY <1>0, <1>3 DEF ServedInv, Set, Process, Processes
    <2>2. UNCHANGED <<pc, from, orig, child, rchild, outcome, attempt>>
      BY DEF ServiceStarts, World, command, recovery
    <2>3. Serving(child)' => proc'[child].ver \in served'
      BY <1>0, <1>3, <2>1, <2>2 DEF ServedInv, Serving
    <2>4. InstalledWasServing' /\ Candidate' = Candidate /\ served \subseteq served'
      BY <1>0, <1>3, <2>2 DEF ServedInv, InstalledWasServing, Candidate
    <2>5. ServedInv'
      BY <1>0, <1>3, <2>1, <2>2, <2>3, <2>4 DEF ServedInv
    <2>6. QED
      BY <1>0, <1>1, <2>5, FilesFrame DEF UpdateInv
  <1>4. QED
    BY <1>2, <1>3 DEF ServiceStarts

\* The steps of the file transaction leave the processes alone.
LEMMA TransactionServes ==
  ASSUME UpdateInv, Begin \/ LinkBackup \/ RenameCandidate \/ Commit \/ Rollback
  PROVE  ServedInv'
  <1>0. FilesInv /\ ServedInv
    BY DEF UpdateInv
  <1>1. UNCHANGED <<proc, disc, attempt, served, orig, child, rchild, from>>
    BY DEF Begin, LinkBackup, RenameCandidate, Commit, Rollback, Restore, Returns, Goto,
       Finish,
           SameRecovery, services, recovery
  <1>2. /\ pc' \notin {"vstop", "vexit", "commit"}
        /\ outcome' = "installed" => outcome = "installed" \/ pc = "commit"
    BY <1>0 DEF Begin, LinkBackup, RenameCandidate, Commit, Rollback, Restore, Returns,
       Goto, Finish
  <1>3. ServedKept
    BY <1>0, <1>1, <1>2 DEF ServedKept, ServedInv
  <1>4. QED
    BY <1>0, <1>1, <1>3, SameKeeps, ServedFrame

\* What the transaction reports and goes on with when it does not install.
LEMMA TransactionEnds ==
  ASSUME FilesInv, NEW o \in {"failed", "recovery", "rolled_back"}, pc \notin {"idle",
         "done"},
         Restore(o) \/ Returns(o)
  PROVE  /\ from' = from /\ pc' \in {"spawn", "done"}
         /\ after' # "installed" /\ outcome' # "installed"
  BY DEF FilesInv, Restore, Returns, Finish

\* The files of a transaction that goes on, or ends without an update.
LEMMA TransactionKeeps ==
  ASSUME Bounds, FilesInv, pc \notin {"idle", "done"}, from' = from,
         pc' \in {"spawn", "done", "link", "rename"}, after' # "installed", outcome' # "installed",
         target' \in Versions \cup {Foreign}, backup' \in Versions \cup {NoFile, Foreign},
         target' = Foreign \/ from \in {target', backup'},
         pc' \in {"link", "rename"} => target' = from, pc' = "rename" => backup' = from
  PROVE  FilesInv'
  BY DEF FilesInv, OldIsThere, Bounds, Versions, Foreign, NoFile, Stages

\* PreparedInstall::begin drops a stale copy only while the target is the
\* command's own version.
LEMMA BeginKeeps ==
  ASSUME Bounds, FilesInv, Begin
  PROVE  FilesInv'
  <1>0. pc = "begin" /\ outcome # "installed"
    BY DEF Begin, FilesInv
  <1>1. CASE Returns("recovery") /\ UNCHANGED files
    <2>1. FilesKept
      BY <1>0, <1>1 DEF FilesKept, FilesInv, Returns, Finish, Stages, files
    <2>2. QED
      BY <2>1, FilesFrame
  <1>2. CASE target = from /\ backup' = NoFile /\ Goto("link") /\ UNCHANGED target
    <2>1. /\ from' = from /\ pc' = "link" /\ after' # "installed" /\ outcome' # "installed"
      BY <1>0, <1>2 DEF Goto, FilesInv
    <2>2. QED
      BY <1>0, <1>2, <2>1, TransactionKeeps DEF FilesInv
  <1>3. CASE target = from /\ Restore("failed") /\ UNCHANGED <<target, backup>>
    BY <1>0, <1>3, TransactionEnds, TransactionKeeps DEF FilesInv
  <1>4. QED
    BY <1>1, <1>2, <1>3 DEF Begin

LEMMA LinkKeeps ==
  ASSUME Bounds, FilesInv, LinkBackup
  PROVE  FilesInv'
  BY DEF FilesInv, LinkBackup, Returns, Goto, Finish, Restore, OldIsThere, Bounds,
     Versions,
         Foreign, NoFile, Stages

\* The rename finds the old executable under both names.
LEMMA RenameKeeps ==
  ASSUME Bounds, FilesInv, RenameCandidate
  PROVE  FilesInv'
  <1>0. /\ pc = "rename" /\ outcome # "installed" /\ backup = from /\ target = from
        /\ Candidate \in Versions /\ from \in Versions
    BY DEF RenameCandidate, FilesInv, Candidate, Versions, Bounds
  <1>1. CASE target' = Candidate /\ UNCHANGED backup
    <2>1. CASE Returns("recovery")
      BY <1>0, <1>1, <2>1, TransactionEnds, TransactionKeeps DEF FilesInv
    <2>2. CASE pc' = "spawn" /\ UNCHANGED <<from, after, outcome>>
      BY <1>0, <1>1, <2>2, TransactionKeeps DEF FilesInv
    <2>3. CASE Restore("failed")
      BY <1>0, <1>1, <2>3, TransactionEnds, TransactionKeeps DEF FilesInv
    <2>4. QED
      BY <2>1, <2>2, <2>3 DEF RenameCandidate
  <1>2. CASE Restore("failed") /\ UNCHANGED <<target, backup>>
    BY <1>0, <1>2, TransactionEnds, TransactionKeeps DEF FilesInv
  <1>3. CASE Restore("failed") /\ target' = backup /\ backup' = NoFile
    BY <1>0, <1>3, TransactionEnds, TransactionKeeps DEF FilesInv
  <1>4. QED
    BY <1>1, <1>2, <1>3 DEF RenameCandidate, files

LEMMA CommitKeeps ==
  ASSUME Bounds, FilesInv, Commit
  PROVE  FilesInv'
  BY DEF FilesInv, Commit, PathsAreUnchanged, Candidate, Returns, Finish,
     OldIsThere, Bounds,
         Versions, Foreign, NoFile, Stages

LEMMA RollbackKeeps ==
  ASSUME Bounds, FilesInv, Rollback
  PROVE  FilesInv'
  <1>0. pc = "rollback" /\ outcome # "installed" /\ from \in Versions
    BY DEF Rollback, FilesInv
  <1>1. CASE (Returns("recovery") \/ Returns("failed")) /\ UNCHANGED files
    <2>1. FilesKept
      BY <1>0, <1>1 DEF FilesKept, FilesInv, Returns, Finish, Stages, files
    <2>2. QED
      BY <2>1, FilesFrame
  <1>2. CASE PathsAreUnchanged /\ target' = backup /\ backup' = NoFile
    <2>1. target' = from /\ (Restore("rolled_back") \/ Restore("recovery") \/ Returns("failed"))
      BY <1>2 DEF Rollback, PathsAreUnchanged
    <2>2. QED
      BY <1>0, <1>2, <2>1, TransactionEnds, TransactionKeeps
  <1>3. QED
    BY <1>1, <1>2 DEF Rollback

\* The drop of a transaction rolls back what is as it was left.
LEMMA CancelKeeps ==
  ASSUME Bounds, UpdateInv, Cancel
  PROVE  UpdateInv'
  <1>0. FilesInv /\ ServedInv
    BY DEF UpdateInv
  <1>1. FilesInv'
    BY <1>0 DEF FilesInv, Cancel, TransactionDropped, PathsAreUnchanged, Candidate,
                OldIsThere, Bounds, Versions, Foreign, NoFile, Stages, files
  <1>2. ProcsKept
    <2>1. CASE UNCHANGED proc
      BY <1>0, <2>1, SameKeeps
    <2>2. CASE Serving(orig) /\ (Set(orig, "draining") \/ Set(orig, "stopping"))
      BY <1>0, <2>2, SetKeeps DEF ServedInv
    <2>3. CASE Serving(child) /\ Set(child, "stopping")
      BY <1>0, <2>3, SetKeeps DEF ServedInv
    <2>4. QED
      BY <2>1, <2>2, <2>3 DEF Cancel, InFlight
  <1>3. ServedKept
    BY <1>0 DEF Cancel, ServedKept, ServedInv, SameRecovery
  <1>4. QED
    BY <1>0, <1>1, <1>2, <1>3, ServedFrame DEF UpdateInv

\* A run of the command begins, and its process ends.
LEMMA StartKeeps ==
  ASSUME Bounds, UpdateInv, StartUpdate
  PROVE  UpdateInv'
  <1>0. FilesInv /\ ServedInv
    BY DEF UpdateInv
  <1>1. FilesInv'
    BY <1>0 DEF FilesInv, StartUpdate, OldIsThere, Bounds, Versions, Foreign, NoFile,
       Stages, files
  <1>2. ServedInv'
    BY <1>0 DEF ServedInv, StartUpdate, InstalledWasServing, Serving, NoPid, services, files
  <1>3. QED
    BY <1>1, <1>2 DEF UpdateInv

LEMMA ExitKeeps ==
  ASSUME Bounds, UpdateInv, Exit
  PROVE  UpdateInv'
  <1>0. FilesInv /\ ServedInv
    BY DEF UpdateInv
  <1>1. FilesInv'
    BY <1>0 DEF FilesInv, Exit, OldIsThere, Bounds, Versions, Foreign, NoFile,
       Stages, files
  <1>2. ServedInv'
    BY <1>0 DEF ServedInv, Exit, InstalledWasServing, Candidate, Serving, NoPid, services
  <1>3. QED
    BY <1>1, <1>2 DEF UpdateInv

LEMMA ForeignKeeps ==
  ASSUME Bounds, UpdateInv, ForeignReplaces
  PROVE  UpdateInv'
  <1>0. FilesInv /\ ServedInv
    BY DEF UpdateInv
  <1>1. FilesInv'
    BY <1>0 DEF FilesInv, ForeignReplaces, OldIsThere, Bounds, Versions, Foreign,
       NoFile,
                Stages, command
  <1>2. ServedKept /\ UNCHANGED proc
    BY <1>0 DEF ForeignReplaces, ServedKept, ServedInv, services, command, recovery
  <1>3. QED
    BY <1>0, <1>1, <1>2, SameKeeps, ServedFrame DEF UpdateInv

LEMMA UpdateBegins ==
  ASSUME Bounds, UpdateInit
  PROVE  UpdateInv
  <1>1. FilesInv
    BY DEF FilesInv, UpdateInit, OldIsThere, Bounds, Versions, Foreign, NoFile, Stages
  <1>2. proc \in [Pids -> Processes] /\ 1 \in Pids
    BY DEF UpdateInit, Dead, Process, Processes, Pids, Bounds, Versions, NoFile
  <1>3. ServedInv
    BY <1>2 DEF ServedInv, UpdateInit, Serving, InstalledWasServing, NoPid
  <1>4. QED
    BY <1>1, <1>3 DEF UpdateInv

LEMMA UpdateSteps ==
  ASSUME Bounds, UpdateInv, [UpdateNext]_updateVars
  PROVE  UpdateInv'
  <1>0. FilesInv /\ ServedInv
    BY DEF UpdateInv
  <1>1. CASE Begin \/ LinkBackup \/ RenameCandidate \/ Commit \/ Rollback
    BY <1>0, <1>1, TransactionServes, BeginKeeps, LinkKeeps, RenameKeeps, CommitKeeps,
       RollbackKeeps
       DEF UpdateInv
  <1>2. CASE CommandRuns
    BY <1>1, <1>2, ConnectKeeps, RequestDrainKeeps, RequestStopKeeps, WaitForExitKeeps,
       RecoveredKeeps, SpawnServiceKeeps, WaitForReadyKeeps, StopVerifiedKeeps, VerifiedExitsKeeps,
       TerminateKeeps DEF CommandRuns
  <1>3. CASE RecoveryRuns
    BY <1>3, AwaitCleanupKeeps, CancelDrainKeeps, SettleKeeps, VerifyOldServiceKeeps,
       RecoverySpawnsKeeps, RecoveryReadyKeeps, RecoveryTerminatesKeeps DEF RecoveryRuns
  <1>4. ASSUME NEW p \in Pids, Reap(p) \/ ServiceRuns(p) \/ ServiceDies(p) \/ UserStarts(p)
        PROVE  UpdateInv'
    BY <1>4, ReapKeeps, ServiceStartsKeeps, ServiceExitsKeeps, ServiceDiesKeeps,
       UserStartsKeeps
       DEF ServiceRuns
  <1>5. CASE UNCHANGED updateVars
    <2>1. FilesKept
      BY <1>5 DEF FilesKept, updateVars, files, command
    <2>2. ServedKept /\ UNCHANGED proc
      BY <1>0, <1>5 DEF ServedKept, ServedInv, updateVars, services, command, recovery, history
    <2>3. QED
      BY <1>0, <2>1, <2>2, FilesFrame, SameKeeps, ServedFrame DEF UpdateInv
  <1>6. QED
    BY <1>2, <1>3, <1>4, <1>5, StartKeeps, CancelKeeps, ExitKeeps, RequestsKeeps,
       ForeignKeeps
       DEF UpdateNext

LEMMA UpdateInvariance ==
  ASSUME Bounds
  PROVE  UpdateSpec => []UpdateInv
  <1>1. UpdateInit => UpdateInv
    BY UpdateBegins
  <1>2. UpdateInv /\ [UpdateNext]_updateVars => UpdateInv'
    BY UpdateSteps
  <1>3. QED
    BY <1>1, <1>2, PTL DEF UpdateSpec

\* For any number of versions, processes, runs and faults: there is always an
\* executable, the one that ran the command is not lost before an update is
\* installed, and "installed" is said only of a version that served.
THEOREM ExecutableIsKept == UpdateSpec => []OldExecutableKept
  <1>1. UpdateInv => OldExecutableKept
    BY DEF UpdateInv, FilesInv, ServedInv, OldExecutableKept
  <1>2. QED
    BY <1>1, UpdateInvariance, UpdateBounds, PTL

\* paths_are_unchanged in commit, rollback and drop: an executable that
\* somebody else put at the target stays there.
LEMMA ForeignStays ==
  ASSUME Bounds
  PROVE  UpdateInv /\ [UpdateNext]_updateVars => [KeepsForeign]_updateVars
  <1> SUFFICES ASSUME UpdateInv, UpdateNext, target = Foreign
               PROVE  target' = Foreign
    BY DEF KeepsForeign
  <1>1. FilesInv /\ target # from /\ (pc # "idle" => target # Candidate)
    BY DEF UpdateInv, FilesInv, Foreign, Candidate, Versions, Bounds
  <1>2. CASE Begin \/ LinkBackup \/ RenameCandidate \/ Commit \/ Rollback
    BY <1>1, <1>2 DEF FilesInv, Begin, LinkBackup, RenameCandidate, Commit, Rollback,
       PathsAreUnchanged, files
  <1>3. CASE CommandRuns
    BY <1>2, <1>3 DEF CommandRuns, Connect, RequestDrain, RequestStop, WaitForExit,
       Recovered,
       SpawnService, WaitForReady, StopVerified, VerifiedExits, Terminate, files
  <1>4. CASE Cancel
    BY <1>1, <1>4 DEF Cancel, TransactionDropped, PathsAreUnchanged, Transaction,
       Holding, files
  <1>5. CASE RecoveryRuns
    BY <1>5 DEF RecoveryRuns, AwaitCleanup, CancelDrain, Settle, VerifyOldService,
       RecoverySpawns,
       RecoveryReady, RecoveryTerminates, Quiet, files
  <1>6. ASSUME NEW p \in Pids, Reap(p) \/ ServiceRuns(p) \/ ServiceDies(p) \/ UserStarts(p)
        PROVE  target' = Foreign
    BY <1>6 DEF Reap, ServiceRuns, ServiceStarts, ServiceExits, ServiceDies, UserStarts,
       World,
       files
  <1>7. QED
    BY <1>3, <1>4, <1>5, <1>6 DEF UpdateNext, StartUpdate, Exit, Requests, ForeignReplaces, World,
       files
-----------------------------------------------------------------------------
\* For any number of calls, configurations, versions, processes, runs and faults: no step
\* of the command takes somebody else's executable from its place, and no step of a
\* management call deletes a secret that the active or the published configuration uses
\* (paths_are_unchanged, delete_secret_owned).
THEOREM NothingOfOthersIsLost == ManagementSpec => ForeignIsKept
  <1>1. ManagementInit => IInv /\ UpdateInv
    BY InitInv, UpdateBegins, UpdateBounds DEF ManagementInit
  <1>2. [ManagementNext]_<<part, vars, updateVars>> => [Next]_vars /\ [UpdateNext]_updateVars
    BY DEF ManagementNext
  <1>3. IInv /\ [Next]_vars => IInv' /\ [DeletesUnused]_vars
    BY NextInv, UsedStay
  <1>4. UpdateInv /\ [UpdateNext]_updateVars => UpdateInv' /\ [KeepsForeign]_updateVars
    BY UpdateSteps, ForeignStays, UpdateBounds
  <1>5. [DeletesUnused]_vars /\ [KeepsForeign]_updateVars
        => [KeepsForeign /\ DeletesUnused]_<<vars, updateVars>>
    BY DEF KeepsForeign, DeletesUnused, vars, updateVars, store, runtime, files
  <1>6. QED
    BY <1>1, <1>2, <1>3, <1>4, <1>5, PTL DEF ManagementSpec, ForeignIsKept
=============================================================================
