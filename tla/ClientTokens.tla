---------------------------- MODULE ClientTokens ----------------------------
(***************************************************************************)
(* Credentials of the local API: the start of AuthRegistry from the state  *)
(* store and the secret store, the request middleware that classifies a    *)
(* route, checks the credential against the in-memory map and enters the   *)
(* admission, and the token operations that persist first and publish a    *)
(* copy of the map afterwards.  Requests run concurrently, their clients   *)
(* disappear, storage fails and the process crashes and starts again.      *)
(***************************************************************************)
EXTENDS Integers, Sequences, TLAPS

CONSTANTS Requests,       \* connections
          Asks,           \* what a body may name: token id, client, scope
          MaxIssued,      \* bound on generated tokens
          MaxArrivals,    \* bound on requests
          MaxStarts       \* bound on starts of the process

Nobody == 0
ASSUME NobodyIsNoRequest == Nobody \notin Requests

VARIABLES rows,           \* client_tokens with client_token_scopes, by token
          binding,        \* runtime_secret_bindings: <<>> or <<secret>>
          secrets,        \* the secret store
          orphans,        \* orphan_secrets
          boot,           \* where AuthRegistry::bootstrap is
          starts,         \* starts so far; also names the secret put by a start
          fate,           \* secrets a crash or a reported error accounts for
          clients,        \* the published map: the tokens accepted
          mutation,       \* the holder of the mutation lock
          phase, active,  \* the lifecycle phase and the admitted work
          request,        \* the requests in progress
          arrivals,       \* requests so far
          answered,       \* tokens whose issue was answered
          gone            \* tokens whose revocation was answered

stored == <<rows, binding, secrets, orphans>>
starting == <<boot, starts, fate>>
history == <<arrivals, answered, gone>>
vars == <<stored, starting, clients, mutation, phase, active, request, history>>

Request(place, route, token, late, status) ==
    [pc |-> place, route |-> route, token |-> token, late |-> late,
     id |-> "none", client |-> "none", scopes |-> {}, made |-> 0,
     copy |-> {}, dropped |-> FALSE, status |-> status]
Idle == Request("idle", "none", 0, FALSE, 0)

\* A token is its place in rows: the digest is a fresh random value.
Active(table) == {t \in 1..Len(table) : ~table[t].revoked}

\* The store of a first start, or that of an earlier run that issued a token.
Init ==
    /\ \/ rows = <<>> /\ binding = <<>> /\ secrets = {}
       \/ /\ \E ask \in Asks : rows = <<[id |-> ask.id, client |-> ask.client,
                                        scopes |-> ask.scopes, revoked |-> FALSE]>>
          /\ binding = <<0>> /\ secrets = {0}
    /\ orphans = {}
    /\ boot = "down" /\ starts = 0 /\ fate = {}
    /\ clients = {} /\ mutation = Nobody /\ phase = "running" /\ active = {}
    /\ request = [r \in Requests |-> Idle]
    /\ arrivals = 0 /\ answered = Active(rows) /\ gone = {}

-----------------------------------------------------------------------------
(* AuthRegistry::bootstrap, a task of its own                              *)

Boot(place) ==
    /\ boot' = place
    /\ UNCHANGED <<starts, clients, mutation, phase, active, request, history>>

Start ==
    /\ boot = "down" /\ starts < MaxStarts
    /\ boot' = "reading" /\ starts' = starts + 1
    /\ UNCHANGED <<stored, fate, clients, mutation, phase, active, request, history>>

ReadBinding ==
    /\ boot = "reading"
    /\ \/ Boot(IF binding = <<>> THEN "putting" ELSE "getting")
       \/ Boot("down")
    /\ UNCHANGED <<stored, fate>>

PutSecret ==
    /\ boot = "putting"
    /\ \/ secrets' = secrets \cup {starts} /\ Boot("binding")
       \/ secrets' = secrets /\ Boot("down")
    /\ UNCHANGED <<rows, binding, orphans, fate>>

\* bind_runtime_secret_if_absent: one transaction, refused when there is one.
Bind ==
    /\ boot = "binding"
    /\ \/ binding = <<>> /\ binding' = <<starts>> /\ Boot("getting")
       \/ binding' = binding /\ Boot("orphaning")
    /\ UNCHANGED <<rows, secrets, orphans, fate>>

\* The secret is recorded for recovery, or the error carries its reference.
RecordOrphan ==
    /\ boot = "orphaning"
    /\ \/ orphans' = orphans \cup {starts} /\ fate' = fate
       \/ orphans' = orphans /\ fate' = fate \cup {starts}
    /\ Boot("down")
    /\ UNCHANGED <<rows, binding, secrets>>

GetSecret ==
    /\ boot = "getting"
    /\ \/ binding[1] \in secrets /\ Boot("loading")
       \/ Boot("down")
    /\ UNCHANGED <<stored, fate>>

\* active_client_map of the rows without a revocation date.
LoadClients ==
    /\ boot = "loading"
    /\ \/ boot' = "up" /\ clients' = Active(rows)
       \/ boot' = "down" /\ clients' = clients
    /\ phase' = "running"
    /\ UNCHANGED <<stored, starts, fate, mutation, active, request, history>>

Bootstrap ==
    Start \/ ReadBinding \/ PutSecret \/ Bind \/ RecordOrphan \/ GetSecret \/ LoadClients

-----------------------------------------------------------------------------
(* enforce_request_security                                                *)

Routes == {"authorize", "revoke", "token_status", "service_status", "other", "chat"}
Management == 0           \* the credential that is the management token
Nothing == -1             \* no credential, or one that is no token
ClassScope(route) ==
    CASE route \in {"authorize", "revoke", "token_status"} -> {"clients.manage"}
      [] route = "service_status" -> {"service.read"}
      [] route = "chat" -> {"proxy.use"}
      [] OTHER -> {}
Mutates(route) == route \in {"authorize", "revoke"}
Guarded(route) == Mutates(route) \/ route = "chat"

Put(r, fields) == request' = [request EXCEPT ![r] = fields]
Quiet(r, fields) ==
    /\ Put(r, fields)
    /\ UNCHANGED <<stored, starting, clients, mutation, phase, active, history>>

\* An answer is kept while it is one to a client's token.
Refused(q, status) ==
    IF q.token \notin answered THEN Idle
    ELSE Request("answered", q.route, q.token, q.late, status)

\* Where the middleware goes once a credential is accepted: the data plane's
\* own checks and the admission, the admission of a metadata mutation, or the
\* phase check of a GET.
Passed(q) ==
    IF Guarded(q.route) THEN [q EXCEPT !.pc = "admitting"]
    ELSE IF phase # "running" /\ q.route # "service_status"
    THEN Refused(q, 503)
    ELSE IF q.route = "token_status" THEN [q EXCEPT !.pc = "waiting"] ELSE Refused(q, 200)

\* Authority, origin, route class and credential: everything up to the first
\* look at the map.  A client only has tokens it was given.
Arrive(r) ==
    /\ boot = "up" /\ request[r].pc = "idle" /\ arrivals < MaxArrivals
    /\ \E route \in Routes, token \in answered \cup {Management, Nothing} :
         LET q == Request("idle", route, token, token \in gone, 0) IN
         \/ Put(r, IF token = Nothing THEN Refused(q, 401)
                   ELSE IF token = Management /\ route # "chat" THEN Passed(q)
                   ELSE IF route = "other" \/ token = Management THEN Refused(q, 401)
                   ELSE [q EXCEPT !.pc = "scope"])
         \/ token = Nothing /\ Put(r, Refused(q, 400))
    /\ arrivals' = IF request'[r] = Idle THEN arrivals ELSE arrivals + 1
    /\ UNCHANGED <<stored, starting, clients, mutation, phase, active, answered, gone>>

\* validate_client_scope looks at one map, validate_any_client at the map of a
\* later moment.
ScopeCheck(r) ==
    /\ request[r].pc = "scope"
    /\ LET q == request[r] IN
       Quiet(r, IF q.token \in clients /\ ClassScope(q.route) \subseteq rows[q.token].scopes
                THEN Passed(q) ELSE [q EXCEPT !.pc = "any"])

AnyCheck(r) ==
    /\ request[r].pc = "any"
    /\ Quiet(r, Refused(request[r], IF request[r].token \in clients THEN 403 ELSE 401))

\* A data-plane request is served by the connection's future, a mutation by a
\* task of its own that owns the guard.
Admit(r) ==
    /\ request[r].pc = "admitting"
    /\ LET q == request[r] IN
       \/ /\ phase = "running"
          /\ active' = active \cup {r}
          /\ Put(r, [q EXCEPT !.pc = IF q.route = "chat" THEN "serving" ELSE "reading"])
       \/ /\ phase # "running" /\ active' = active
          /\ Put(r, Refused(q, 503))
       \/ /\ q.route = "chat" /\ active' = active
          /\ Put(r, Refused(q, 415))
    /\ UNCHANGED <<stored, starting, clients, mutation, phase, history>>

\* The end of a request: the guard goes with the task, the answer to whoever is
\* still there.
Ends(r, status) ==
    /\ active' = active \ {r}
    /\ Put(r, IF request[r].dropped THEN Idle ELSE Refused(request[r], status))

Serve(r) ==
    /\ request[r].pc = "serving"
    /\ Ends(r, 200)
    /\ UNCHANGED <<stored, starting, clients, mutation, phase, history>>

-----------------------------------------------------------------------------
(* The handlers: authorize, revoke, client_token_status                    *)

\* The bounded body, the scopes and identifiers it names, the time source.
ReadBody(r) ==
    /\ request[r].pc = "reading"
    /\ \/ /\ \E ask \in Asks :
               Put(r, [request[r] EXCEPT !.pc = "waiting", !.id = ask.id, !.client = ask.client,
                          !.scopes = IF request[r].route = "authorize" THEN ask.scopes ELSE {}])
          /\ active' = active
       \/ Ends(r, 400)
    /\ UNCHANGED <<stored, starting, clients, mutation, phase, history>>

Lock(r) ==
    /\ request[r].pc = "waiting" /\ mutation = Nobody
    /\ IF request[r].route = "token_status"
       THEN Put(r, Refused(request[r], 200)) /\ mutation' = mutation
       ELSE Put(r, [request[r] EXCEPT !.pc = "persisting"]) /\ mutation' = r
    /\ UNCHANGED <<stored, starting, clients, phase, active, history>>

\* Mutant: the revocation is left to the map.
PersistForgetsRevocation(r) ==
    /\ request[r].pc = "persisting"
    /\ LET q == request[r] IN
       \/ /\ q.route = "authorize" /\ Len(rows) < MaxIssued
          /\ \A t \in 1..Len(rows) : rows[t].id # q.id
          /\ rows' = Append(rows, [id |-> q.id, client |-> q.client,
                                   scopes |-> q.scopes, revoked |-> FALSE])
          /\ Put(r, [q EXCEPT !.pc = "loading", !.made = Len(rows) + 1])
       \/ q.route = "revoke" /\ rows' = rows /\ Put(r, [q EXCEPT !.pc = "loading"])
    /\ UNCHANGED <<binding, secrets, orphans, starting, clients, mutation, phase, active, history>>

\* A failed transaction leaves store and map as they were.
Persist(r) ==
    /\ request[r].pc = "persisting"
    /\ LET q == request[r] IN
       \/ /\ q.route = "authorize" /\ Len(rows) < MaxIssued
          /\ \A t \in 1..Len(rows) : rows[t].id # q.id
          /\ rows' = Append(rows, [id |-> q.id, client |-> q.client,
                                   scopes |-> q.scopes, revoked |-> FALSE])
          /\ Put(r, [q EXCEPT !.pc = "loading", !.made = Len(rows) + 1])
          /\ UNCHANGED <<mutation, active>>
       \/ /\ q.route = "revoke"
          /\ rows' = [t \in 1..Len(rows) |->
                        IF rows[t].id = q.id /\ rows[t].client = q.client
                        THEN [rows[t] EXCEPT !.revoked = TRUE] ELSE rows[t]]
          /\ Put(r, [q EXCEPT !.pc = "loading"])
          /\ UNCHANGED <<mutation, active>>
       \/ rows' = rows /\ mutation' = Nobody /\ Ends(r, 500)
    /\ UNCHANGED <<binding, secrets, orphans, starting, clients, phase, history>>

CopyClients(r) ==
    /\ request[r].pc = "loading"
    /\ LET q == request[r] IN
       Quiet(r, [q EXCEPT !.pc = "storing",
                   !.copy = IF q.route = "authorize" THEN clients \cup {q.made}
                            ELSE {t \in clients : rows[t].id # q.id \/ rows[t].client # q.client}])

Matching(q) == {t \in 1..Len(rows) : rows[t].id = q.id /\ rows[t].client = q.client}

StoreClients(r) ==
    /\ request[r].pc = "storing"
    /\ clients' = request[r].copy
    /\ mutation' = Nobody
    /\ Ends(r, IF request[r].route = "authorize" THEN 201 ELSE 200)
    /\ answered' = IF request[r].route = "authorize" /\ ~request[r].dropped
                   THEN answered \cup {request[r].made} ELSE answered
    /\ gone' = IF request[r].route = "revoke" THEN gone \cup Matching(request[r]) ELSE gone
    /\ UNCHANGED <<stored, starting, phase, arrivals>>

-----------------------------------------------------------------------------
(* The surroundings                                                        *)

\* Mutant: a dropped client takes the guard of its operation along.
DropReleasesTheGuard(r) ==
    /\ request[r].pc \notin {"idle", "answered"} /\ ~request[r].dropped
    /\ Put(r, IF Mutates(request[r].route) /\ request[r].pc \notin {"scope", "any", "admitting"}
              THEN [request[r] EXCEPT !.dropped = TRUE] ELSE Idle)
    /\ active' = active \ {r}
    /\ UNCHANGED <<stored, starting, clients, mutation, phase, history>>

\* The client of a request goes away.  A future is dropped where it stands, an
\* owned task goes on.
Drop(r) ==
    LET q == request[r]
        owned == Mutates(q.route) /\ q.pc \in {"reading", "waiting", "persisting", "loading", "storing"}
    IN  /\ q.pc \notin {"idle", "answered"} /\ ~q.dropped
        /\ Put(r, IF owned THEN [q EXCEPT !.dropped = TRUE] ELSE Idle)
        /\ active' = IF owned THEN active ELSE active \ {r}
        /\ UNCHANGED <<stored, starting, clients, mutation, phase, history>>

Return(r) == request[r].pc = "answered" /\ Quiet(r, Idle)

\* The lifecycle, as ServiceLifecycle has it: a drain keeps new work out, and
\* the service stops when the admitted work is done.
Drain ==
    /\ boot = "up"
    /\ phase' = IF phase = "running" THEN "draining" ELSE "running"
    /\ UNCHANGED <<stored, starting, clients, mutation, active, request, history>>

Ended ==
    /\ boot' = "down" /\ clients' = {} /\ mutation' = Nobody /\ active' = {}
    /\ request' = [r \in Requests |-> Idle]
    /\ phase' = "running"
    /\ UNCHANGED <<stored, starts, history>>

Stop == boot = "up" /\ phase = "draining" /\ active = {} /\ fate' = fate /\ Ended

Crash ==
    /\ boot # "down"
    /\ fate' = IF boot \in {"binding", "orphaning"} THEN fate \cup {starts} ELSE fate
    /\ Ended

Handle(r) ==
    \/ ScopeCheck(r) \/ AnyCheck(r) \/ Admit(r) \/ Serve(r) \/ ReadBody(r)
    \/ Lock(r) \/ Persist(r) \/ CopyClients(r) \/ StoreClients(r) \/ Return(r)

Next ==
    \/ Bootstrap \/ Drain \/ Stop \/ Crash
    \/ \E r \in Requests : Arrive(r) \/ Handle(r) \/ Drop(r)

Spec == Init /\ [][Next]_vars

-----------------------------------------------------------------------------
Accepted == {"admitting", "serving", "reading", "waiting", "persisting", "loading", "storing"}

\* What a client is told is what it is due.  A token is refused as unknown only
\* when it is revoked in the store, refused for its scope only when it was
\* issued without it, and a request that arrives after a revocation of its token
\* was answered is never accepted: not by a copy of the map that a concurrent
\* operation publishes late, and not after a crash and a new start
\* (enforce_request_security, AuthRegistry::issue_with_scopes and revoke).
VerdictsAreDue ==
    \A r \in Requests :
        LET q == request[r] IN
        q.token \in answered =>
            /\ q.pc \in Accepted => ~q.late
            /\ q.pc = "answered" =>
                 /\ q.late => q.status = 401
                 /\ q.status = 401 => rows[q.token].revoked \/ q.route = "other"
                 /\ q.status = 403 => ~(ClassScope(q.route) \subseteq rows[q.token].scopes)

\* When nothing is admitted, no token operation is under way and the map is that
\* of the store.
MapIsTheStore ==
    boot = "up" /\ active = {} => mutation = Nobody /\ clients = Active(rows)

\* A secret that a start put into the secret store is the bound one, or recorded
\* as an orphan, or named by the error of that start, or in the hands of the
\* start, or lost with a process; a binding always has its secret.
SecretsAreAccounted ==
    /\ \A s \in secrets :
          \/ binding = <<s>> \/ s \in orphans \cup fate
          \/ s = starts /\ boot \in {"binding", "orphaning"}
    /\ binding # <<>> => binding[1] \in secrets /\ binding[1] \notin orphans

\* Nothing is half done when nothing is admitted, so that a drained service stops
\* with the store and the map alike although the client of an operation may long
\* be gone; and no secret of a start is lost without a trace (AuthRegistry,
\* bootstrap_owned).
DrainedIsSettled == MapIsTheStore /\ SecretsAreAccounted

-----------------------------------------------------------------------------
(* Proofs.  The mutation lock makes the map follow the store by one step:  *)
(* while an operation is between its transaction and the publication of    *)
(* its copy, the two differ by the tokens of that operation alone.         *)

Working == {"persisting", "loading", "storing"}
Places == {"idle", "scope", "any", "answered"} \cup Accepted
Table == [id : {a.id : a \in Asks}, client : {a.client : a \in Asks},
          scopes : {a.scopes : a \in Asks}, revoked : BOOLEAN]
Progress == [pc : Places, route : Routes \cup {"none"}, token : Int, late : BOOLEAN,
             id : {a.id : a \in Asks} \cup {"none"}, client : {a.client : a \in Asks} \cup {"none"},
             scopes : {a.scopes : a \in Asks} \cup {{}}, made : Nat, copy : SUBSET Nat,
             dropped : BOOLEAN, status : Nat]

TypeOK ==
    /\ rows \in Seq(Table)
    /\ boot \in {"down", "reading", "putting", "binding", "orphaning", "getting", "loading", "up"}
    /\ starts \in Nat
    /\ clients \subseteq 1..Len(rows) /\ answered \subseteq 1..Len(rows) /\ gone \subseteq 1..Len(rows)
    /\ mutation \in Requests \cup {Nobody}
    /\ active \subseteq Requests
    /\ request \in [Requests -> Progress]

Asked(q) == \E ask \in Asks : q.id = ask.id /\ q.client = ask.client /\ q.scopes = ask.scopes

\* What holds of a request at each of its steps.
Due(r, q) ==
    /\ q.token \in answered \cup {Management, Nothing}
    /\ q.late => q.token \in gone
    /\ q.pc \in {"scope", "any", "answered"} => q.token \in answered
    /\ q.pc = "admitting" => Guarded(q.route)
    /\ q.pc \in {"reading"} \cup Working \/ (q.pc = "waiting" /\ q.route # "token_status")
       => Mutates(q.route) /\ r \in active
    /\ q.pc \in {"waiting", "persisting"} /\ q.route = "authorize" => Asked(q)
    /\ q.pc \in Accepted => ~q.late
    /\ q.pc \in Working <=> mutation = r
    /\ q.pc = "any" => \/ ~(ClassScope(q.route) \subseteq rows[q.token].scopes)
                       \/ q.token \notin clients /\ rows[q.token].revoked
    /\ q.pc = "answered" =>
         /\ q.late => q.status = 401
         /\ q.status = 401 => rows[q.token].revoked \/ q.route = "other"
         /\ q.status = 403 => ~(ClassScope(q.route) \subseteq rows[q.token].scopes)

\* How far the map is behind the store while an operation is under way.
Behind(q) ==
    /\ q.pc = "persisting" => clients = Active(rows)
    /\ q.pc = "loading" /\ q.route = "authorize" =>
         q.made \in Active(rows) /\ clients = Active(rows) \ {q.made}
    /\ q.pc = "loading" /\ q.route = "revoke" => Active(rows) = clients \ Matching(q)
    /\ q.pc = "storing" => q.copy = Active(rows)
    /\ q.pc = "storing" /\ q.route = "authorize" => q.made \in Active(rows)
    /\ q.pc = "storing" /\ q.route = "revoke" => Active(rows) \cap Matching(q) = {}
    /\ q.pc \in {"loading", "storing"} /\ q.route = "authorize" => q.made \notin answered

MapInv ==
    /\ \A t \in gone : rows[t].revoked /\ t \notin clients
    /\ boot # "up" => /\ clients = {} /\ active = {} /\ mutation = Nobody
                      /\ \A r \in Requests : request[r] = Idle
    /\ boot = "up" => \A t \in answered : t \in clients \/ rows[t].revoked
    /\ boot = "up" /\ mutation = Nobody => clients = Active(rows)

\* The secret of the start that is under way.
StartInv ==
    /\ SecretsAreAccounted
    /\ \A s \in orphans : s <= starts
    /\ orphans \subseteq Nat
    /\ boot \in {"reading", "putting", "binding", "orphaning"} => starts \notin orphans
    /\ boot \in {"putting", "binding", "orphaning"} => binding = <<>>
    /\ boot = "binding" => starts \in secrets

IInv ==
    /\ TypeOK /\ StartInv /\ MapInv
    /\ \A r \in Requests : Due(r, request[r]) /\ Behind(request[r])

\* The tokens of a table that are not revoked.
LEMMA ActiveTokens ==
  ASSUME NEW table
  PROVE  Active(table) = {t \in 1..Len(table) : ~table[t].revoked}
  BY Zenon DEF Active

LEMMA IdleIsDue ==
  /\ Idle \in Progress
  /\ \A r \in Requests : mutation # r => Due(r, Idle)
  /\ Behind(Idle)
<1>1. Idle \in Progress
  BY DEF Idle, Request, Progress, Places
<1>2. Idle.pc = "idle" /\ Idle.token = Management /\ Idle.late = FALSE
  BY DEF Idle, Request, Management
<1>3. \A r \in Requests : mutation # r => Due(r, Idle)
  BY <1>2 DEF Due, Working, Accepted
<1>4. Behind(Idle)
  BY <1>2 DEF Behind
<1> QED
  BY <1>1, <1>3, <1>4

LEMMA Begins == Init => IInv
<1> SUFFICES ASSUME Init PROVE IInv
  OBVIOUS
<1>1. /\ clients = {} /\ active = {} /\ mutation = Nobody /\ gone = {} /\ boot = "down"
      /\ starts = 0 /\ orphans = {} /\ request = [r \in Requests |-> Idle] /\ answered = Active(rows)
  BY Zenon DEF Init
<1>2. rows \in Seq(Table)
  <2>1. CASE rows = <<>>
    BY <2>1
  <2>2. ASSUME NEW ask \in Asks,
               rows = <<[id |-> ask.id, client |-> ask.client,
                         scopes |-> ask.scopes, revoked |-> FALSE]>>
        PROVE  rows \in Seq(Table)
    <3>1. [id |-> ask.id, client |-> ask.client, scopes |-> ask.scopes, revoked |-> FALSE] \in Table
      BY DEF Table
    <3> QED
      BY <2>2, <3>1
  <2> QED
    BY <2>1, <2>2 DEF Init
<1>3. TypeOK
  BY <1>1, <1>2, IdleIsDue, ActiveTokens DEF TypeOK
<1>4. StartInv
  BY <1>1 DEF Init, StartInv, SecretsAreAccounted
<1>5. MapInv
  BY <1>1 DEF MapInv
<1>6. \A r \in Requests : Due(r, request[r]) /\ Behind(request[r])
  BY <1>1, IdleIsDue, NobodyIsNoRequest
<1> QED
  BY <1>3, <1>4, <1>5, <1>6 DEF IInv

\* A request that a step leaves alone is due what it was due.
LEMMA KeptDue ==
  ASSUME NEW r \in Requests, Due(r, request[r]), Behind(request[r]),
         request'[r] = request[r],
         UNCHANGED <<rows, clients, answered, gone>>,
         mutation = r <=> mutation' = r, r \in active => r \in active'
  PROVE  (Due(r, request[r]) /\ Behind(request[r]))'
<1>1. Due(r, request[r])'
  BY DEF Due, Working, Accepted, Guarded, Mutates
<1>2. Behind(request[r])'
  <2>1. Active(rows)' = Active(rows) /\ Matching(request[r])' = Matching(request[r])
    BY Zenon DEF Active, Matching
  <2> QED
    BY Zenon, <2>1 DEF Behind
<1> QED
  BY <1>1, <1>2

\* One that is over is due nothing.
LEMMA IdleNext ==
  ASSUME NEW r \in Requests, request'[r] = Idle, mutation' # r
  PROVE  (Due(r, request[r]) /\ Behind(request[r]))'
<1>1. Idle.pc = "idle" /\ Idle.token = Management /\ Idle.late = FALSE
  BY DEF Idle, Request, Management
<1>2. Due(r, request[r])'
  BY <1>1 DEF Due, Working, Accepted
<1>3. Behind(request[r])'
  BY <1>1 DEF Behind
<1> QED
  BY <1>2, <1>3

\* The steps of a start before the map is loaded: ReadBinding to GetSecret.
LEMMA StartKeeps ==
  ASSUME IInv, Start \/ ReadBinding \/ PutSecret \/ Bind \/ RecordOrphan \/ GetSecret
  PROVE  IInv'
<1>1. /\ UNCHANGED <<rows, clients, mutation, active, request, answered, gone>>
      /\ boot # "up" /\ boot' # "up"
  BY DEF Start, ReadBinding, PutSecret, Bind, RecordOrphan, GetSecret, Boot, stored, history
<1>2. TypeOK'
  BY <1>1 DEF IInv, TypeOK, Start, ReadBinding, PutSecret, Bind, RecordOrphan, GetSecret,
     Boot,
     stored, history
<1>3. MapInv'
  BY <1>1 DEF IInv, MapInv
<1>4. StartInv'
  <2> USE DEF IInv, StartInv, SecretsAreAccounted, TypeOK, stored
  <2>1. CASE Start
    BY <2>1 DEF Start
  <2>2. CASE ReadBinding
    BY <2>2 DEF ReadBinding, Boot
  <2>3. CASE PutSecret
    BY <2>3 DEF PutSecret, Boot
  <2>4. CASE Bind
    BY <2>4 DEF Bind, Boot
  <2>5. CASE RecordOrphan
    <3>1. /\ boot = "orphaning" /\ boot' = "down" /\ binding = <<>>
          /\ UNCHANGED <<binding, secrets, starts>>
          /\ orphans \cup fate \cup {starts} = orphans' \cup fate'
          /\ orphans' \subseteq orphans \cup {starts}
      BY <2>5 DEF RecordOrphan, Boot
    <3>2. SecretsAreAccounted'
      BY <3>1
    <3> QED
      BY <3>1, <3>2
  <2>6. CASE GetSecret
    BY <2>6 DEF GetSecret, Boot
  <2> QED
    BY <2>1, <2>2, <2>3, <2>4, <2>5, <2>6
<1>5. \A r \in Requests : (Due(r, request[r]) /\ Behind(request[r]))'
  BY <1>1, KeptDue DEF IInv
<1> QED
  BY <1>2, <1>3, <1>4, <1>5 DEF IInv

\* active_client_map of the rows is the map of the store.
LEMMA LoadKeeps ==
  ASSUME IInv, LoadClients
  PROVE  IInv'
<1>1. /\ UNCHANGED <<rows, binding, secrets, orphans, starts, fate, mutation, active, request,
                    answered, gone>>
      /\ boot = "loading"
  BY Zenon DEF LoadClients, stored, history
<1>2. /\ clients = {} /\ active = {} /\ mutation = Nobody
      /\ \A r \in Requests : request[r] = Idle
  BY Zenon, <1>1 DEF IInv, MapInv
<1>3. \/ boot' = "up" /\ clients' = Active(rows)
      \/ boot' = "down" /\ clients' = clients
  BY Zenon DEF LoadClients
<1>4. TypeOK'
  BY Zenon, <1>1, <1>3, ActiveTokens DEF IInv, TypeOK
<1>5. StartInv'
  BY <1>1, <1>3 DEF IInv, StartInv, SecretsAreAccounted
<1>6. MapInv'
  <2>1. Active(rows)' = Active(rows)
    BY Zenon, <1>1 DEF Active
  <2>2. \A t \in gone : rows[t].revoked
    BY Zenon DEF IInv, MapInv
  <2>3. answered \subseteq 1..Len(rows)
    BY Zenon DEF IInv, TypeOK
  <2> QED
    BY <1>1, <1>2, <1>3, <2>1, <2>2, <2>3, ActiveTokens DEF MapInv
<1>7. \A r \in Requests : (Due(r, request[r]) /\ Behind(request[r]))'
  BY <1>1, <1>2, NobodyIsNoRequest, IdleNext
<1> QED
  BY <1>4, <1>5, <1>6, <1>7 DEF IInv

\* The process ends, by Stop or by Crash: nothing of it is left but the store.
LEMMA EndKeeps ==
  ASSUME IInv, Stop \/ Crash
  PROVE  IInv'
<1>1. /\ boot' = "down" /\ clients' = {} /\ mutation' = Nobody /\ active' = {}
      /\ request' = [r \in Requests |-> Idle]
      /\ UNCHANGED <<rows, binding, secrets, orphans, starts, answered, gone>>
  BY Zenon DEF Stop, Crash, Ended, stored, history
<1>2. TypeOK'
  BY <1>1, IdleIsDue DEF IInv, TypeOK
<1>3. StartInv'
  BY <1>1 DEF IInv, StartInv, SecretsAreAccounted, Stop, Crash
<1>4. MapInv'
  BY <1>1 DEF IInv, MapInv
<1>5. \A r \in Requests : (Due(r, request[r]) /\ Behind(request[r]))'
  BY <1>1, NobodyIsNoRequest, IdleNext
<1> QED
  BY <1>2, <1>3, <1>4, <1>5 DEF IInv

\* A step of the lifecycle, or none at all.
LEMMA DrainKeeps ==
  ASSUME IInv, Drain \/ UNCHANGED vars
  PROVE  IInv'
<1>1. UNCHANGED <<rows, binding, secrets, orphans, boot, starts, fate, clients, mutation, active,
                  request, answered, gone>>
  BY Zenon DEF Drain, vars, stored, starting, history
<1>2. TypeOK' /\ StartInv' /\ MapInv'
  BY Zenon, <1>1 DEF IInv, TypeOK, StartInv, SecretsAreAccounted, MapInv, Active
<1>3. \A r \in Requests : (Due(r, request[r]) /\ Behind(request[r]))'
  BY <1>1, KeptDue DEF IInv
<1> QED
  BY <1>2, <1>3 DEF IInv

\* Only a service that is up has requests.
LEMMA Up ==
  ASSUME IInv, NEW r \in Requests, request[r].pc # "idle"
  PROVE  boot = "up"
<1>1. Idle.pc = "idle"
  BY DEF Idle, Request
<1> QED
  BY <1>1 DEF IInv, MapInv

\* A step of one request that leaves the store and the map alone.
LEMMA MoveKeeps ==
  ASSUME IInv, NEW r \in Requests, boot = "up",
         request' = [request EXCEPT ![r] = request'[r]], request'[r] \in Progress,
         (Due(r, request[r]) /\ Behind(request[r]))',
         UNCHANGED <<stored, starting, clients, mutation, answered, gone>>,
         active' \in {active, active \cup {r}, active \ {r}}
  PROVE  IInv'
<1>1. UNCHANGED <<rows, binding, secrets, orphans, boot, starts, fate, clients, mutation,
                  answered, gone>>
  BY Zenon DEF stored, starting
<1>2. request \in [Requests -> Progress] /\ active \subseteq Requests
  BY Zenon DEF IInv, TypeOK
<1>3. request' \in [Requests -> Progress] /\ active' \subseteq Requests
  BY <1>2
<1>4. TypeOK'
  BY Zenon, <1>1, <1>3 DEF IInv, TypeOK
<1>5. StartInv'
  BY Zenon, <1>1 DEF IInv, StartInv, SecretsAreAccounted
<1>6. MapInv'
  BY Zenon, <1>1 DEF IInv, MapInv, Active
<1>7. ASSUME NEW s \in Requests, s # r
      PROVE  (Due(s, request[s]) /\ Behind(request[s]))'
  <2>1. request'[s] = request[s] /\ (s \in active => s \in active')
    BY <1>2, <1>7
  <2> QED
    BY <1>1, <2>1, KeptDue DEF IInv
<1> QED
  BY <1>4, <1>5, <1>6, <1>7 DEF IInv

\* An answer is due whoever it refuses, for what the step knows of the token.
LEMMA RefusalIsDue ==
  ASSUME NEW r \in Requests, NEW q \in Progress, NEW status \in Nat,
         request'[r] = Refused(q, status), mutation' # r, rows' = rows,
         answered \subseteq answered', gone \subseteq gone',
         q.late => q.token \in gone,
         q.token \in answered =>
           /\ q.late => status = 401
           /\ status = 401 => rows[q.token].revoked \/ q.route = "other"
           /\ status = 403 => ~(ClassScope(q.route) \subseteq rows[q.token].scopes)
  PROVE  request'[r] \in Progress /\ (Due(r, request[r]) /\ Behind(request[r]))'
<1>1. CASE q.token \notin answered
  BY <1>1, IdleNext, IdleIsDue DEF Refused
<1>2. CASE q.token \in answered
  <2> DEFINE a == Request("answered", q.route, q.token, q.late, status)
  <2>1. request'[r] = a
    BY Zenon, <1>2 DEF Refused
  <2>2. /\ a \in Progress /\ a.pc = "answered" /\ a.status = status
        /\ a.route = q.route /\ a.token = q.token /\ a.late = q.late
    <3>1. q.route \in Routes \cup {"none"} /\ q.token \in Int /\ q.late \in BOOLEAN
      BY Zenon DEF Progress
    <3> QED
      BY <3>1 DEF Request, Progress, Places
  <2> HIDE DEF a
  <2>3. Due(r, request[r])'
    BY <1>2, <2>1, <2>2 DEF Due, Working, Accepted
  <2>4. Behind(request[r])'
    BY <2>1, <2>2 DEF Behind
  <2> QED
    BY <2>1, <2>2, <2>3, <2>4
<1> QED
  BY <1>1, <1>2

\* A credential that is not late may pass.
LEMMA PassingIsDue ==
  ASSUME NEW r \in Requests, NEW q \in Progress, request'[r] = Passed(q), ~q.late,
         q.token \in answered \cup {Management, Nothing}, mutation # r, mutation' = mutation,
         UNCHANGED <<rows, answered, gone>>
  PROVE  request'[r] \in Progress /\ (Due(r, request[r]) /\ Behind(request[r]))'
<1>1. \/ \E label \in {"admitting", "waiting"} : 
           /\ request'[r] = [q EXCEPT !.pc = label]
           /\ label = "admitting" => Guarded(q.route)
           /\ label = "waiting" => q.route = "token_status"
      \/ \E status \in {503, 200} : request'[r] = Refused(q, status)
  BY Zenon DEF Passed
<1>2. ASSUME NEW label \in {"admitting", "waiting"}, request'[r] = [q EXCEPT !.pc = label],
             label = "admitting" => Guarded(q.route), label = "waiting" => q.route = "token_status"
      PROVE  request'[r] \in Progress /\ (Due(r, request[r]) /\ Behind(request[r]))'
  <2>1. /\ request'[r] \in Progress /\ request'[r].pc = label /\ request'[r].route = q.route
        /\ request'[r].token = q.token /\ request'[r].late = q.late
    BY <1>2 DEF Progress, Places, Accepted
  <2>2. Due(r, request[r])'
    BY <1>2, <2>1 DEF Due, Working, Accepted
  <2>3. Behind(request[r])'
    BY <1>2, <2>1 DEF Behind
  <2> QED
    BY <2>1, <2>2, <2>3
<1>3. ASSUME NEW status \in {503, 200}, request'[r] = Refused(q, status)
      PROVE  request'[r] \in Progress /\ (Due(r, request[r]) /\ Behind(request[r]))'
  BY <1>3, RefusalIsDue
<1> QED
  BY <1>1, <1>2, <1>3

\* What is known of a request and its token.
LEMMA Known ==
  ASSUME IInv, NEW r \in Requests
  PROVE  /\ request[r] \in Progress /\ Due(r, request[r]) /\ Behind(request[r])
         /\ request[r].token \in answered \cup {Management, Nothing}
         /\ Management \notin answered \cup gone /\ Nothing \notin answered \cup gone
         /\ \A t \in gone : rows[t].revoked /\ t \notin clients
         /\ answered \cup {Management, Nothing} \subseteq Int
         /\ request \in [Requests -> Progress]
<1>1. /\ request \in [Requests -> Progress] /\ Due(r, request[r]) /\ Behind(request[r])
      /\ answered \subseteq 1..Len(rows) /\ gone \subseteq 1..Len(rows) /\ rows \in Seq(Table)
      /\ \A t \in gone : rows[t].revoked /\ t \notin clients
  BY Zenon DEF IInv, TypeOK, MapInv
<1>2. Len(rows) \in Nat
  BY <1>1
<1>3. /\ Management \notin answered \cup gone /\ Nothing \notin answered \cup gone
      /\ answered \cup {Management, Nothing} \subseteq Int
  BY <1>1, <1>2 DEF Management, Nothing
<1>4. request[r].token \in answered \cup {Management, Nothing}
  BY Zenon, <1>1 DEF Due
<1> QED
  BY Zenon, <1>1, <1>3, <1>4

\* The middleware up to the first look at the map.
LEMMA ArriveKeeps ==
  ASSUME IInv, NEW r \in Requests, Arrive(r)
  PROVE  IInv'
<1>1. PICK route \in Routes, token \in answered \cup {Management, Nothing} :
        LET q == Request("idle", route, token, token \in gone, 0) IN
         \/ Put(r, IF token = Nothing THEN Refused(q, 401)
                   ELSE IF token = Management /\ route # "chat" THEN Passed(q)
                   ELSE IF route = "other" \/ token = Management THEN Refused(q, 401)
                   ELSE [q EXCEPT !.pc = "scope"])
         \/ token = Nothing /\ Put(r, Refused(q, 400))
  BY Zenon DEF Arrive
<1> DEFINE q == Request("idle", route, token, token \in gone, 0)
<1>2. /\ boot = "up" /\ request[r].pc = "idle"
      /\ UNCHANGED <<stored, starting, clients, mutation, active, answered, gone>>
  BY Zenon DEF Arrive
<1>3. mutation # r /\ mutation' = mutation /\ UNCHANGED <<rows, answered, gone>>
  BY Zenon, <1>2, Known DEF Due, Working, stored
<1>4. q.late = (token \in gone) /\ q.route = route /\ q.token = token
  BY Zenon DEF Request
<1>5. q \in Progress
  <2>1. (token \in gone) \in BOOLEAN /\ token \in Int
    BY Known
  <2>2. ASSUME NEW late \in BOOLEAN PROVE Request("idle", route, token, late, 0) \in Progress
    BY <2>1 DEF Request, Progress, Places
  <2> QED
    BY Zenon, <2>1, <2>2
<1>6. request' = [request EXCEPT ![r] = request'[r]] /\ request \in [Requests -> Progress]
  BY <1>1, Known DEF Put
<1> HIDE DEF q
<1>7. \/ token = Nothing /\ request'[r] = Refused(q, 401)
      \/ token = Nothing /\ request'[r] = Refused(q, 400)
      \/ token = Management /\ request'[r] = Passed(q)
      \/ (route = "other" \/ token = Management) /\ request'[r] = Refused(q, 401)
      \/ token \in answered /\ request'[r] = [q EXCEPT !.pc = "scope"]
  BY <1>1, <1>6 DEF Put, q
<1>8. request'[r] \in Progress /\ (Due(r, request[r]) /\ Behind(request[r]))'
  <2>1. ASSUME NEW status \in {401, 400}, request'[r] = Refused(q, status),
               status = 401 => token \notin answered \/ route = "other",
               status = 400 => token \notin answered
        PROVE  request'[r] \in Progress /\ (Due(r, request[r]) /\ Behind(request[r]))'
    <3>1. q.late => q.token \in gone
      BY Zenon, <1>4
    <3>2. q.token = token /\ q.route = route
      BY Zenon, <1>4
    <3>3. q.token \in answered =>
           /\ q.late => status = 401
           /\ status = 401 => rows[q.token].revoked \/ q.route = "other"
           /\ status = 403 => ~(ClassScope(q.route) \subseteq rows[q.token].scopes)
      BY <2>1, <3>2
    <3> QED
      BY <2>1, <1>3, <1>5, <3>1, <3>3, RefusalIsDue
  <2>2. CASE token = Management /\ request'[r] = Passed(q)
    BY Zenon, <2>2, <1>3, <1>4, <1>5, Known, PassingIsDue
  <2>3. CASE token \in answered /\ request'[r] = [q EXCEPT !.pc = "scope"]
    <3>1. /\ request'[r] \in Progress /\ request'[r].pc = "scope" /\ request'[r].token = token
          /\ request'[r].late = (token \in gone)
      BY <2>3, <1>4, <1>5 DEF Progress, Places
    <3>2. Due(r, request[r])'
      BY Zenon, <2>3, <1>3, <3>1 DEF Due, Working, Accepted
    <3>3. Behind(request[r])'
      BY <3>1 DEF Behind
    <3> QED
      BY <3>1, <3>2, <3>3
  <2> QED
    BY <1>7, <2>1, <2>2, <2>3, Known
<1> QED
  BY <1>2, <1>6, <1>8, MoveKeeps

\* The two looks at the map, of two moments.
LEMMA CheckKeeps ==
  ASSUME IInv, NEW r \in Requests, ScopeCheck(r) \/ AnyCheck(r)
  PROVE  IInv'
<1> DEFINE q == request[r]
<1>0. /\ q.pc \in {"scope", "any"} /\ UNCHANGED <<stored, starting, clients, mutation, active, history>>
      /\ \E new : request' = [request EXCEPT ![r] = new]
  BY Zenon DEF ScopeCheck, AnyCheck, Quiet, Put
<1>1. UNCHANGED <<rows, clients, mutation, answered, gone, active>>
  BY Zenon, <1>0 DEF stored, history
<1>2. /\ q \in Progress /\ q.token \in answered /\ Due(r, q) /\ mutation # r /\ boot = "up"
      /\ q.late => q.token \in gone
      /\ q.token \in clients \/ rows[q.token].revoked
  <2>1. q \in Progress /\ q.token \in answered /\ Due(r, q) /\ mutation # r /\ boot = "up"
    BY <1>0, Known, Up DEF Due, Working
  <2> QED
    BY <2>1 DEF Due, IInv, MapInv
<1>3. request' = [request EXCEPT ![r] = request'[r]] /\ request \in [Requests -> Progress]
  BY Zenon, <1>0, Known
<1>4. request'[r] \in Progress /\ (Due(r, request[r]) /\ Behind(request[r]))'
  <2>1. CASE q.pc = "scope" /\ request'[r] = Passed(q) /\ q.token \in clients
    <3>1. ~q.late
      BY Zenon, <1>2, <2>1, Known
    <3> QED
      BY <1>1, <1>2, <2>1, <3>1, PassingIsDue
  <2>2. CASE /\ q.pc = "scope" /\ request'[r] = [q EXCEPT !.pc = "any"]
             /\ ~(q.token \in clients /\ ClassScope(q.route) \subseteq rows[q.token].scopes)
    <3>1. /\ request'[r] \in Progress /\ request'[r].pc = "any" /\ request'[r].token = q.token
          /\ request'[r].late = q.late /\ request'[r].route = q.route
      BY <2>2, <1>2 DEF Progress, Places
    <3>2. Due(r, request[r])'
      BY <2>2, <1>1, <1>2, <3>1 DEF Due, Working, Accepted
    <3>3. Behind(request[r])'
      BY <3>1 DEF Behind
    <3> QED
      BY <3>1, <3>2, <3>3
  <2>3. CASE q.pc = "any" /\ request'[r] = Refused(q, 403) /\ q.token \in clients
    <3>1. ~(ClassScope(q.route) \subseteq rows[q.token].scopes) /\ ~q.late
      BY <1>2, <2>3, Known DEF Due
    <3> QED
      BY <1>1, <1>2, <2>3, <3>1, RefusalIsDue
  <2>4. CASE q.pc = "any" /\ request'[r] = Refused(q, 401) /\ q.token \notin clients
    BY <1>1, <1>2, <2>4, RefusalIsDue
  <2> QED
    BY <1>3, <2>1, <2>2, <2>3, <2>4 DEF ScopeCheck, AnyCheck, Quiet, Put
<1> QED
  BY Zenon, <1>0, <1>1, <1>2, <1>3, <1>4, MoveKeeps DEF history

\* The end of an accepted request.
LEMMA EndsIsDue ==
  ASSUME IInv, NEW r \in Requests, NEW status \in Nat \ {401, 403}, Ends(r, status),
         request[r].pc \in Accepted, mutation' # r, rows' = rows,
         answered \subseteq answered', gone \subseteq gone'
  PROVE  /\ request'[r] \in Progress /\ (Due(r, request[r]) /\ Behind(request[r]))'
         /\ request' = [request EXCEPT ![r] = request'[r]]
<1>1. /\ request[r] \in Progress /\ Due(r, request[r]) /\ request \in [Requests -> Progress]
  BY Zenon, Known
<1>2. request' = [request EXCEPT ![r] = request'[r]]
  BY <1>1 DEF Ends, Put
<1>3. request'[r] = Idle \/ request'[r] = Refused(request[r], status)
  BY <1>1 DEF Ends, Put
<1>4. ~request[r].late
  BY Zenon, <1>1 DEF Due
<1>5. CASE request'[r] = Idle
  BY <1>2, <1>5, IdleNext, IdleIsDue
<1>6. CASE request'[r] = Refused(request[r], status)
  BY <1>1, <1>2, <1>4, <1>6, RefusalIsDue
<1> QED
  BY <1>3, <1>5, <1>6

\* A request goes on to its next place with what it had.
LEMMA PlacedIsDue ==
  ASSUME NEW r \in Requests, NEW q \in Progress, NEW place \in Accepted \ Working, Due(r,
         q),
         q.pc \in Accepted \ Working, request'[r] \in Progress,
         request'[r].pc = place, request'[r].token = q.token, request'[r].late = q.late,
         request'[r].route = q.route,
         place # "admitting", place \in {"reading", "waiting"} => Mutates(q.route) /\ r \in active',
         place = "waiting" /\ q.route = "authorize" => Asked(request'[r]),
         UNCHANGED <<rows, mutation, answered, gone>>
  PROVE  (Due(r, request[r]) /\ Behind(request[r]))'
<1>1. Due(r, request[r])'
  BY DEF Due, Working, Accepted
<1>2. Behind(request[r])'
  BY DEF Behind, Working, Accepted
<1> QED
  BY <1>1, <1>2

\* The admission, the data plane, and the body of a mutation.
LEMMA ServeKeeps ==
  ASSUME IInv, NEW r \in Requests, Admit(r) \/ Serve(r) \/ ReadBody(r)
  PROVE  IInv'
<1> DEFINE q == request[r]
<1>1. /\ q.pc \in {"admitting", "serving", "reading"}
      /\ UNCHANGED <<stored, starting, clients, mutation, history>>
  BY Zenon DEF Admit, Serve, ReadBody
<1>2. UNCHANGED <<rows, clients, mutation, answered, gone>>
  BY Zenon, <1>1 DEF stored, history
<1>3. /\ q \in Progress /\ Due(r, q) /\ ~q.late /\ mutation # r /\ boot = "up"
      /\ q.token \in answered \cup {Management, Nothing} /\ q.pc \in Accepted \ Working
      /\ request \in [Requests -> Progress]
  BY Zenon, <1>1, Known, Up DEF Due, Working, Accepted
<1> DEFINE Goal == /\ request' = [request EXCEPT ![r] = request'[r]] /\ request'[r] \in Progress
                   /\ (Due(r, request[r]) /\ Behind(request[r]))'
                   /\ active' \in {active, active \cup {r}, active \ {r}}
<1> HIDE DEF Goal
<1>4. ASSUME NEW status \in Nat \ {401, 403}, Ends(r, status)
      PROVE  Goal
  BY <1>2, <1>3, <1>4, EndsIsDue DEF Ends, Working, Goal
<1>5. ASSUME Admit(r) PROVE Goal
  <2>1. request' = [request EXCEPT ![r] = request'[r]]
        /\ active' \in {active, active \cup {r}, active \ {r}}
    BY <1>3, <1>5 DEF Admit, Put
  <2>2. CASE /\ active' = active \cup {r}
             /\ request'[r] = [q EXCEPT !.pc = IF q.route = "chat" THEN "serving" ELSE "reading"]
    <3> DEFINE place == IF q.route = "chat" THEN "serving" ELSE "reading"
    <3>1. place \in Accepted \ Working /\ place # "admitting" /\ place # "waiting"
      BY DEF Accepted, Working
    <3>2. place \in {"reading", "waiting"} => Mutates(q.route) /\ r \in active'
      BY <1>3, <1>5, <2>2 DEF Due, Guarded, Admit
    <3> HIDE DEF place
    <3>3. request'[r] = [q EXCEPT !.pc = place]
      BY Zenon, <2>2 DEF place
    <3>4. /\ request'[r] \in Progress /\ request'[r].pc = place /\ request'[r].token = q.token
          /\ request'[r].late = q.late /\ request'[r].route = q.route
      BY <1>3, <3>1, <3>3 DEF Progress, Places
    <3>5. (Due(r, request[r]) /\ Behind(request[r]))'
      BY <1>2, <1>3, <3>1, <3>2, <3>4, PlacedIsDue
    <3> QED
      BY <2>1, <3>4, <3>5 DEF Goal
  <2>3. ASSUME NEW status \in {503, 415}, request'[r] = Refused(q, status)
        PROVE  Goal
    BY <1>2, <1>3, <2>1, <2>3, RefusalIsDue DEF Goal
  <2> QED
    BY <1>3, <1>5, <2>2, <2>3 DEF Admit, Put
<1>6. ASSUME Serve(r) PROVE Goal
  BY <1>4, <1>6 DEF Serve
<1>7. ASSUME ReadBody(r) PROVE Goal
  <2>1. ASSUME NEW ask \in Asks, active' = active,
               Put(r, [q EXCEPT !.pc = "waiting", !.id = ask.id, !.client = ask.client,
                          !.scopes = IF q.route = "authorize" THEN ask.scopes ELSE {}])
        PROVE  Goal
    <3>1. request' = [request EXCEPT ![r] = request'[r]] /\ request'[r] \in Progress
      BY Zenon, <1>3, <2>1 DEF Put, Progress, Places, Accepted
    <3>2. /\ request'[r].pc = "waiting" /\ request'[r].token = q.token
          /\ request'[r].late = q.late /\ request'[r].route = q.route
      BY <1>3, <2>1 DEF Put, Progress
    <3>3. Mutates(q.route) /\ r \in active'
      BY Zenon, <1>3, <1>7, <2>1 DEF Due, ReadBody
    <3>4. q.route = "authorize" => Asked(request'[r])
      <4>1. q.route = "authorize" =>
              /\ request'[r].id = ask.id /\ request'[r].client = ask.client
              /\ request'[r].scopes = ask.scopes
        BY <1>3, <2>1 DEF Put, Progress
      <4> QED
        BY <4>1 DEF Asked
    <3>5. (Due(r, request[r]) /\ Behind(request[r]))'
      BY <1>2, <1>3, <3>1, <3>2, <3>3, <3>4, PlacedIsDue DEF Accepted, Working
    <3> QED
      BY <2>1, <3>1, <3>5 DEF Goal
  <2> QED
    <3>1. 400 \in Nat \ {401, 403}
      OBVIOUS
    <3>2. ASSUME Ends(r, 400) PROVE Goal
      BY <1>4, <3>1, <3>2
    <3>3. ASSUME ~Ends(r, 400) PROVE Goal
      <4>1. PICK ask \in Asks :
              Put(r, [q EXCEPT !.pc = "waiting", !.id = ask.id, !.client = ask.client,
                         !.scopes = IF q.route = "authorize" THEN ask.scopes ELSE {}])
        BY Zenon, <1>7, <3>3 DEF ReadBody
      <4>2. active' = active
        BY Zenon, <1>7, <3>3 DEF ReadBody
      <4> QED
        BY Zenon, <2>1, <4>1, <4>2
    <3> QED
      BY <3>2, <3>3
<1>8. Goal
  BY <1>5, <1>6, <1>7
<1> QED
  BY <1>1, <1>2, <1>3, <1>8, MoveKeeps DEF history, Goal

\* A request that holds no lock, when the store and the map change in favour of
\* what was said of it.
LEMMA OthersAreDue ==
  ASSUME NEW s \in Requests, Due(s, request[s]), request'[s] = request[s],
         mutation # s, mutation' # s, s \in active => s \in active',
         answered \subseteq answered', gone \subseteq gone',
         \A t \in answered : rows'[t].scopes = rows[t].scopes
                             /\ (rows[t].revoked => rows'[t].revoked)
                             /\ (rows[t].revoked /\ t \notin clients => t \notin clients')
  PROVE  (Due(s, request[s]) /\ Behind(request[s]))'
<1>1. Due(s, request[s])'
  BY DEF Due, Working, Accepted
<1>2. Behind(request[s])'
  <2>1. request[s].pc \notin Working
    BY DEF Due
  <2> QED
    BY <2>1 DEF Behind, Working
<1> QED
  BY <1>1, <1>2

\* The start and the secrets are not touched by a token operation.
LEMMA StartKept ==
  ASSUME IInv, UNCHANGED <<binding, secrets, orphans, starting>>
  PROVE  StartInv'
  BY Zenon DEF IInv, StartInv, SecretsAreAccounted, starting

\* The lock is taken over a map that is that of the store.
LEMMA LockKeeps ==
  ASSUME IInv, NEW r \in Requests, Lock(r)
  PROVE  IInv'
<1> DEFINE q == request[r]
<1>1. /\ q.pc = "waiting" /\ mutation = Nobody
      /\ UNCHANGED <<stored, starting, clients, active, history>>
  BY Zenon DEF Lock
<1>2. UNCHANGED <<rows, clients, active, answered, gone, boot, starts>>
  BY Zenon, <1>1 DEF stored, history, starting
<1>3. /\ q \in Progress /\ Due(r, q) /\ ~q.late /\ boot = "up" /\ mutation # r
      /\ request \in [Requests -> Progress] /\ clients = Active(rows)
  <2>1. boot = "up" /\ mutation # r
    BY Zenon, <1>1, Up, NobodyIsNoRequest
  <2> QED
    BY Zenon, <1>1, <2>1, Known DEF Due, Accepted, IInv, MapInv
<1>4. CASE q.route = "token_status"
  <2>1. /\ request' = [request EXCEPT ![r] = request'[r]] /\ mutation' = mutation
        /\ request'[r] = Refused(q, 200)
    BY <1>3, <1>4 DEF Lock, Put
  <2>2. request'[r] \in Progress /\ (Due(r, request[r]) /\ Behind(request[r]))'
    <3>1. /\ q.late => q.token \in gone
          /\ q.token \in answered =>
               /\ q.late => 200 = 401
               /\ 200 = 401 => rows[q.token].revoked \/ q.route = "other"
               /\ 200 = 403 => ~(ClassScope(q.route) \subseteq rows[q.token].scopes)
      BY <1>3
    <3>2. 200 \in Nat /\ rows' = rows /\ mutation' # r
          /\ answered \subseteq answered' /\ gone \subseteq gone'
      BY <1>2, <1>3, <2>1
    <3> QED
      BY Zenon, <1>3, <2>1, <3>1, <3>2, RefusalIsDue
  <2> QED
    BY <1>1, <1>2, <1>3, <2>1, <2>2, MoveKeeps DEF history
<1>5. CASE q.route # "token_status"
  <2>1. request' = [request EXCEPT ![r] = [q EXCEPT !.pc = "persisting"]] /\ mutation' = r
    BY Zenon, <1>5 DEF Lock, Put
  <2>2. /\ request'[r] \in Progress /\ request' \in [Requests -> Progress]
        /\ request'[r].pc = "persisting" /\ request'[r].token = q.token
        /\ request'[r].late = q.late /\ request'[r].route = q.route
        /\ request'[r].id = q.id /\ request'[r].client = q.client /\ request'[r].scopes = q.scopes
    BY <1>3, <2>1 DEF Progress, Places, Accepted
  <2>3. Due(r, request[r])'
    BY <1>1, <1>2, <1>3, <1>5, <2>1, <2>2 DEF Due, Asked, Working, Accepted
  <2>4. Behind(request[r])'
    <3>1. Active(rows)' = Active(rows)
      BY Zenon, <1>2 DEF Active
    <3> QED
      BY <1>2, <1>3, <2>2, <3>1 DEF Behind
  <2>5. ASSUME NEW s \in Requests, s # r PROVE (Due(s, request[s]) /\ Behind(request[s]))'
    <3>1. request'[s] = request[s] /\ mutation # s /\ mutation' # s
      BY <1>1, <1>3, <2>1, <2>5, NobodyIsNoRequest
    <3> QED
      BY <1>2, <3>1, OthersAreDue, Known
  <2>6. TypeOK'
    BY <1>2, <2>1, <2>2 DEF IInv, TypeOK
  <2>7. StartInv'
    BY <1>1, StartKept DEF stored
  <2>8. MapInv'
    <3>1. boot' = "up" /\ mutation' # Nobody
      BY <1>2, <1>3, <2>1, NobodyIsNoRequest
    <3>2. UNCHANGED <<rows, clients, gone, answered>>
      BY <1>2
    <3> QED
      BY Zenon, <1>3, <3>1, <3>2 DEF IInv, MapInv
  <2> QED
    BY Zenon, <2>3, <2>4, <2>5, <2>6, <2>7, <2>8 DEF IInv
<1> QED
  BY <1>4, <1>5

\* What a new row and a revocation do to the table.
LEMMA RowsIssue ==
  ASSUME rows \in Seq(Table), NEW row \in Table, row.revoked = FALSE, rows' = Append(rows,
         row)
  PROVE  /\ rows' \in Seq(Table) /\ Len(rows') = Len(rows) + 1 /\ Len(rows) \in Nat
         /\ \A t \in 1..Len(rows) : rows'[t] = rows[t]
         /\ Active(rows)' = Active(rows) \cup {Len(rows) + 1}
<1>1. /\ rows' \in Seq(Table) /\ Len(rows') = Len(rows) + 1 /\ Len(rows) \in Nat
      /\ \A t \in 1..Len(rows) : rows'[t] = rows[t]
      /\ rows'[Len(rows) + 1] = row
  OBVIOUS
<1>2. \A t \in 1..Len(rows') : t \in 1..Len(rows) \/ t = Len(rows) + 1
  BY <1>1
<1>3. 1..Len(rows) \subseteq 1..Len(rows') /\ Len(rows) + 1 \in 1..Len(rows')
  BY <1>1
<1>4. Active(rows)' = Active(rows) \cup {Len(rows) + 1}
  BY Zenon, <1>1, <1>2, <1>3 DEF Active
<1> QED
  BY <1>1, <1>4

LEMMA RowsRevoke ==
  ASSUME rows \in Seq(Table), NEW q,
         rows' = [t \in 1..Len(rows) |->
                    IF rows[t].id = q.id /\ rows[t].client = q.client
                    THEN [rows[t] EXCEPT !.revoked = TRUE] ELSE rows[t]]
  PROVE  /\ rows' \in Seq(Table) /\ Len(rows') = Len(rows)
         /\ \A t \in 1..Len(rows) : /\ rows'[t].id = rows[t].id /\ rows'[t].client = rows[t].client
                                    /\ rows'[t].scopes = rows[t].scopes
                                    /\ rows[t].revoked => rows'[t].revoked
         /\ Active(rows)' = Active(rows) \ Matching(q)
         /\ Matching(q)' = Matching(q)
<1>1. Len(rows) \in Nat /\ \A t \in 1..Len(rows) : rows[t] \in Table
  OBVIOUS
<1>2. ASSUME NEW t \in 1..Len(rows)
      PROVE  /\ rows'[t] \in Table
             /\ rows'[t].id = rows[t].id /\ rows'[t].client = rows[t].client
             /\ rows'[t].scopes = rows[t].scopes
             /\ rows'[t].revoked <=> rows[t].revoked \/ t \in Matching(q)
  <2>1. CASE rows[t].id = q.id /\ rows[t].client = q.client
    <3>1. rows'[t] = [rows[t] EXCEPT !.revoked = TRUE] /\ t \in Matching(q)
      BY <2>1 DEF Matching
    <3> QED
      BY Zenon, <1>1, <3>1 DEF Table
  <2>2. CASE ~(rows[t].id = q.id /\ rows[t].client = q.client)
    <3>1. rows'[t] = rows[t] /\ t \notin Matching(q)
      BY <2>2 DEF Matching
    <3> QED
      BY Zenon, <1>1, <3>1
  <2> QED
    BY <2>1, <2>2
<1>3. rows' \in [1..Len(rows) -> Table]
  BY <1>2
<1>4. rows' \in Seq(Table) /\ Len(rows') = Len(rows)
  BY <1>1, <1>3
<1>5. Active(rows)' = Active(rows) \ Matching(q)
  BY Zenon, <1>2, <1>4 DEF Active
<1>6. Matching(q)' = Matching(q)
  BY Zenon, <1>2, <1>4 DEF Matching
<1> QED
  BY <1>2, <1>4, <1>5, <1>6

\* The transaction: from here to the publication the map is behind the store by
\* the tokens of this operation.
LEMMA PersistKeeps ==
  ASSUME IInv, NEW r \in Requests, Persist(r)
  PROVE  IInv'
<1> DEFINE q == request[r]
<1>1. /\ q.pc = "persisting"
      /\ UNCHANGED <<binding, secrets, orphans, starting, clients, history>>
  BY Zenon DEF Persist
<1>2. UNCHANGED <<clients, answered, gone, boot, starts>>
  BY Zenon, <1>1 DEF history, starting
<1>3. /\ q \in Progress /\ Due(r, q) /\ ~q.late /\ boot = "up" /\ mutation = r
      /\ Mutates(q.route) /\ r \in active /\ clients = Active(rows)
      /\ request \in [Requests -> Progress]
  BY Zenon, <1>1, Known, Up DEF Due, Behind, Working, Accepted
<1>4. /\ rows \in Seq(Table) /\ Len(rows) \in Nat /\ answered \subseteq 1..Len(rows)
      /\ clients \subseteq 1..Len(rows) /\ gone \subseteq 1..Len(rows)
  BY DEF IInv, TypeOK
<1>5. StartInv'
  BY <1>1, StartKept
<1>6. ASSUME NEW s \in Requests, s # r, request'[s] = request[s], mutation' \in {r, Nobody},
             s \in active => s \in active',
             \A t \in answered : rows'[t].scopes = rows[t].scopes
                                 /\ (rows[t].revoked => rows'[t].revoked)
      PROVE  (Due(s, request[s]) /\ Behind(request[s]))'
  <2>1. mutation # s /\ mutation' # s
    BY <1>3, <1>6, NobodyIsNoRequest
  <2> QED
    BY <1>2, <1>6, <2>1, OthersAreDue, Known
<1>7. ASSUME q.route = "authorize",
             rows' = Append(rows, [id |-> q.id, client |-> q.client,
                                   scopes |-> q.scopes, revoked |-> FALSE]),
             [id |-> q.id, client |-> q.client, scopes |-> q.scopes, revoked |-> FALSE] \in Table,
             request' = [request EXCEPT ![r] = [q EXCEPT !.pc = "loading", !.made = Len(rows) + 1]],
             UNCHANGED <<mutation, active>>
      PROVE  IInv'
  <2>1. /\ rows' \in Seq(Table) /\ Len(rows') = Len(rows) + 1
        /\ \A t \in 1..Len(rows) : rows'[t] = rows[t]
        /\ Active(rows)' = Active(rows) \cup {Len(rows) + 1}
    <3> DEFINE row == [id |-> q.id, client |-> q.client, scopes |-> q.scopes, revoked |-> FALSE]
    <3>1. row.revoked = FALSE /\ row \in Table /\ rows' = Append(rows, row)
      BY <1>7
    <3> HIDE DEF row
    <3> QED
      BY Zenon, <1>4, <3>1, RowsIssue
  <2>2. /\ request' \in [Requests -> Progress] /\ request'[r].pc = "loading"
        /\ request'[r].made = Len(rows) + 1 /\ request'[r].route = "authorize"
        /\ request'[r].token = q.token /\ request'[r].late = q.late
    <3>1. "loading" \in Places /\ Len(rows) + 1 \in Nat
      BY <1>4 DEF Places, Accepted
    <3> QED
      BY Zenon, <1>3, <1>7, <3>1 DEF Progress
  <2>3. Due(r, request[r])'
    BY <1>2, <1>3, <1>7, <2>2 DEF Due, Working, Accepted
  <2>4. Behind(request[r])'
    <3>1. Len(rows) + 1 \notin clients \cup answered
      BY <1>4
    <3> QED
      BY <1>2, <1>3, <2>1, <2>2, <3>1 DEF Behind
  <2>5. TypeOK'
    <3>1. 1..Len(rows) \subseteq 1..Len(rows')
      BY <1>4, <2>1
    <3> QED
      BY Zenon, <1>2, <1>7, <2>1, <2>2, <3>1 DEF IInv, TypeOK
  <2>6. MapInv'
    <3>1. boot' = "up" /\ mutation' # Nobody
      BY <1>2, <1>3, <1>7, NobodyIsNoRequest
    <3> QED
      BY Zenon, <1>2, <1>3, <1>4, <2>1, <3>1 DEF IInv, MapInv
  <2>7. \A s \in Requests : s # r => (Due(s, request[s]) /\ Behind(request[s]))'
    <3>1. \A s \in Requests : s # r => request'[s] = request[s]
      BY <1>3, <1>7
    <3>2. mutation' \in {r, Nobody} /\ active' = active
      BY <1>3, <1>7
    <3>3. \A t \in answered : rows'[t] = rows[t]
      BY <1>4, <2>1
    <3> QED
      BY <1>6, <3>1, <3>2, <3>3
  <2> QED
    BY <1>5, <2>3, <2>4, <2>5, <2>6, <2>7 DEF IInv
<1>8. ASSUME q.route = "revoke",
             rows' = [t \in 1..Len(rows) |->
                        IF rows[t].id = q.id /\ rows[t].client = q.client
                        THEN [rows[t] EXCEPT !.revoked = TRUE] ELSE rows[t]],
             request' = [request EXCEPT ![r] = [q EXCEPT !.pc = "loading"]],
             UNCHANGED <<mutation, active>>
      PROVE  IInv'
  <2>1. /\ rows' \in Seq(Table) /\ Len(rows') = Len(rows)
        /\ \A t \in 1..Len(rows) : /\ rows'[t].scopes = rows[t].scopes
                                   /\ rows[t].revoked => rows'[t].revoked
        /\ Active(rows)' = Active(rows) \ Matching(q)
        /\ \A x : x.id = q.id /\ x.client = q.client => Matching(x)' = Matching(q)
    <3>1. /\ rows' \in Seq(Table) /\ Len(rows') = Len(rows)
          /\ \A t \in 1..Len(rows) : /\ rows'[t].id = rows[t].id /\ rows'[t].client = rows[t].client
                                     /\ rows'[t].scopes = rows[t].scopes
                                     /\ rows[t].revoked => rows'[t].revoked
          /\ Active(rows)' = Active(rows) \ Matching(q)
      BY Zenon, <1>4, <1>8, RowsRevoke
    <3>2. ASSUME NEW x, x.id = q.id, x.client = q.client PROVE Matching(x)' = Matching(q)
      BY Zenon, <3>1, <3>2 DEF Matching
    <3> QED
      BY <3>1, <3>2
  <2>2. /\ request' \in [Requests -> Progress] /\ request'[r].pc = "loading"
        /\ request'[r].route = "revoke" /\ request'[r].id = q.id /\ request'[r].client = q.client
        /\ request'[r].token = q.token /\ request'[r].late = q.late
    <3>1. "loading" \in Places
      BY DEF Places, Accepted
    <3> QED
      BY Zenon, <1>3, <1>8, <3>1 DEF Progress
  <2>3. Due(r, request[r])'
    BY <1>2, <1>3, <1>8, <2>2 DEF Due, Working, Accepted
  <2>4. Behind(request[r])'
    <3>1. Matching(request[r])' = Matching(q)
      BY <2>1, <2>2 DEF Matching
    <3> QED
      BY <1>2, <1>3, <2>1, <2>2, <3>1 DEF Behind
  <2>5. TypeOK'
    BY Zenon, <1>2, <1>8, <2>1, <2>2 DEF IInv, TypeOK
  <2>6. MapInv'
    <3>1. boot' = "up" /\ mutation' # Nobody
      BY <1>2, <1>3, <1>8, NobodyIsNoRequest
    <3> QED
      BY Zenon, <1>2, <1>3, <1>4, <2>1, <3>1 DEF IInv, MapInv
  <2>7. \A s \in Requests : s # r => (Due(s, request[s]) /\ Behind(request[s]))'
    <3>1. \A s \in Requests : s # r => request'[s] = request[s]
      BY <1>3, <1>8
    <3>2. mutation' \in {r, Nobody} /\ active' = active
      BY <1>3, <1>8
    <3> QED
      BY <1>4, <1>6, <2>1, <3>1, <3>2
  <2> QED
    BY <1>5, <2>3, <2>4, <2>5, <2>6, <2>7 DEF IInv
<1>9. ASSUME rows' = rows, mutation' = Nobody, Ends(r, 500)
      PROVE  IInv'
  <2>1. /\ request'[r] \in Progress /\ (Due(r, request[r]) /\ Behind(request[r]))'
        /\ request' = [request EXCEPT ![r] = request'[r]]
    <3>1. mutation' # r /\ q.pc \in Accepted /\ 500 \in Nat \ {401, 403}
      BY <1>1, <1>9, NobodyIsNoRequest DEF Accepted
    <3> QED
      BY <1>2, <1>9, <3>1, EndsIsDue
  <2>2. active' = active \ {r}
    BY Zenon, <1>9 DEF Ends
  <2>3. TypeOK'
    <3>1. request' \in [Requests -> Progress]
      BY <1>3, <2>1
    <3> QED
      BY <1>2, <1>9, <2>2, <3>1 DEF IInv, TypeOK
  <2>4. MapInv'
    <3>1. boot' = "up" /\ Active(rows)' = Active(rows)
      BY <1>2, <1>3, <1>9 DEF Active
    <3> QED
      BY Zenon, <1>2, <1>3, <1>9, <3>1 DEF IInv, MapInv
  <2>5. \A s \in Requests : s # r => (Due(s, request[s]) /\ Behind(request[s]))'
    <3>1. \A s \in Requests : s # r => request'[s] = request[s] /\ (s \in active => s \in active')
      BY <1>3, <2>1, <2>2
    <3> QED
      BY <1>6, <1>9, <3>1
  <2> QED
    BY <1>5, <2>1, <2>3, <2>4, <2>5 DEF IInv
<1>10. q.route = "authorize" =>
         [id |-> q.id, client |-> q.client, scopes |-> q.scopes, revoked |-> FALSE] \in Table
  <2>1. q.route = "authorize" => Asked(q)
    BY <1>1, <1>3 DEF Due
  <2> QED
    BY <2>1 DEF Asked, Table
<1> QED
  BY Zenon, <1>7, <1>8, <1>9, <1>10 DEF Persist, Put

\* The copy of the map that is about to be published is that of the store.
LEMMA CopyKeeps ==
  ASSUME IInv, NEW r \in Requests, CopyClients(r)
  PROVE  IInv'
<1> DEFINE q == request[r]
           copy == IF q.route = "authorize" THEN clients \cup {q.made}
                   ELSE {t \in clients : rows[t].id # q.id \/ rows[t].client # q.client}
<1>1. /\ q.pc = "loading" /\ request' = [request EXCEPT ![r] = [q EXCEPT !.pc = "storing", !.copy = copy]]
      /\ UNCHANGED <<stored, starting, clients, mutation, active, history>>
  BY Zenon DEF CopyClients, Quiet, Put
<1>2. UNCHANGED <<rows, clients, mutation, active, answered, gone>>
  BY Zenon, <1>1 DEF stored, history
<1>3. /\ q \in Progress /\ Due(r, q) /\ Behind(q) /\ boot = "up" /\ Mutates(q.route)
      /\ mutation = r /\ r \in active /\ ~q.late
      /\ request \in [Requests -> Progress]
  BY Zenon, <1>1, Known, Up DEF Due, Working, Accepted
<1>4. clients \subseteq 1..Len(rows) /\ rows \in Seq(Table)
  BY Zenon DEF IInv, TypeOK
<1>5. copy = Active(rows)
  <2>1. CASE q.route = "authorize"
    BY <1>1, <1>3, <2>1 DEF Behind
  <2>2. CASE q.route # "authorize"
    <3>1. q.route = "revoke"
      BY Zenon, <1>3, <2>2 DEF Mutates
    <3>2. copy = clients \ Matching(q)
      BY Zenon, <1>4, <2>2 DEF Matching
    <3> QED
      BY Zenon, <1>1, <1>3, <3>1, <3>2 DEF Behind
  <2> QED
    BY <2>1, <2>2
<1>6. copy \in SUBSET Nat
  BY <1>4, <1>5 DEF Active
<1> HIDE DEF copy
<1>7. /\ request'[r] \in Progress /\ request' = [request EXCEPT ![r] = request'[r]]
      /\ request'[r].pc = "storing" /\ request'[r].copy = copy /\ request'[r].route = q.route
      /\ request'[r].token = q.token /\ request'[r].late = q.late /\ request'[r].made = q.made
      /\ request'[r].id = q.id /\ request'[r].client = q.client
  <2>1. "storing" \in Places
    BY DEF Places, Accepted
  <2> QED
    BY Zenon, <1>1, <1>3, <1>6, <2>1 DEF Progress
<1>8. Due(r, request[r])'
  BY Zenon, <1>2, <1>3, <1>7 DEF Due, Working, Accepted
<1>9. Behind(request[r])'
  <2>1. Active(rows)' = Active(rows) /\ Matching(request[r])' = Matching(q)
    BY Zenon, <1>2, <1>7 DEF Active, Matching
  <2>2. q.route = "revoke" => Active(rows) \cap Matching(q) = {}
    BY <1>1, <1>3 DEF Behind
  <2>3. q.route = "authorize" => q.made \in Active(rows) /\ q.made \notin answered
    BY <1>1, <1>3 DEF Behind
  <2> QED
    BY <1>2, <1>5, <1>7, <2>1, <2>2, <2>3 DEF Behind
<1> QED
  BY Zenon, <1>1, <1>2, <1>3, <1>7, <1>8, <1>9, MoveKeeps DEF history

\* The publication: the map is that of the store again, the lock is free.
LEMMA StoreKeeps ==
  ASSUME IInv, NEW r \in Requests, StoreClients(r)
  PROVE  IInv'
<1> DEFINE q == request[r]
<1>1. /\ q.pc = "storing" /\ clients' = q.copy /\ mutation' = Nobody
      /\ answered' = (IF q.route = "authorize" /\ ~q.dropped THEN answered \cup {q.made} ELSE answered)
      /\ gone' = (IF q.route = "revoke" THEN gone \cup Matching(q) ELSE gone)
      /\ UNCHANGED <<stored, starting>>
  BY Zenon DEF StoreClients
<1>2. UNCHANGED <<rows, binding, secrets, orphans, boot, starts, fate>>
  BY Zenon, <1>1 DEF stored, starting
<1>3. /\ q \in Progress /\ Due(r, q) /\ Behind(q) /\ boot = "up" /\ Mutates(q.route)
      /\ mutation = r /\ request \in [Requests -> Progress]
  BY Zenon, <1>1, Known, Up DEF Due, Working
<1>4. /\ rows \in Seq(Table) /\ answered \subseteq 1..Len(rows) /\ gone \subseteq 1..Len(rows)
      /\ \A t \in gone : rows[t].revoked
  BY Zenon DEF IInv, TypeOK, MapInv
<1>5. /\ q.copy = Active(rows) /\ (q.route = "authorize" => q.made \in Active(rows))
      /\ (q.route = "revoke" => Active(rows) \cap Matching(q) = {})
  BY Zenon, <1>1, <1>3 DEF Behind
<1>6. /\ \A t \in gone' : t \in 1..Len(rows) /\ t \notin Active(rows)
      /\ \A t \in answered' : t \in 1..Len(rows)
      /\ answered \subseteq answered' /\ gone \subseteq gone'
  BY <1>1, <1>4, <1>5 DEF Active, Matching
<1>7. \A t \in 1..Len(rows) : t \in Active(rows) \/ rows[t].revoked
  BY Zenon DEF Active
<1>8. /\ request'[r] \in Progress /\ (Due(r, request[r]) /\ Behind(request[r]))'
      /\ request' = [request EXCEPT ![r] = request'[r]] /\ active' = active \ {r}
  <2>1. PICK status \in {201, 200} : Ends(r, status)
    BY Zenon DEF StoreClients
  <2>2. mutation' # r /\ q.pc \in Accepted /\ status \in Nat \ {401, 403}
    BY <1>1, NobodyIsNoRequest DEF Accepted
  <2> QED
    BY <1>2, <1>6, <2>1, <2>2, EndsIsDue DEF Ends
<1>9. TypeOK'
  <2>1. request' \in [Requests -> Progress] /\ active' \subseteq Requests
    BY <1>3, <1>8 DEF IInv, TypeOK
  <2>2. clients' \subseteq 1..Len(rows)
    BY <1>1, <1>5 DEF Active
  <2>3. boot \in {"down", "reading", "putting", "binding", "orphaning", "getting", "loading", "up"}
        /\ starts \in Nat
    BY Zenon DEF IInv, TypeOK
  <2> QED
    BY Zenon, <1>1, <1>2, <1>4, <1>6, <2>1, <2>2, <2>3 DEF TypeOK
<1>10. StartInv'
  BY Zenon, <1>2 DEF IInv, StartInv, SecretsAreAccounted
<1>11. MapInv'
  <2>1. boot' = "up" /\ clients' = Active(rows) /\ Active(rows)' = Active(rows) /\ rows' = rows
    BY Zenon, <1>1, <1>2, <1>3, <1>5 DEF Active
  <2> QED
    BY <1>6, <1>7, <2>1 DEF MapInv
<1>12. ASSUME NEW s \in Requests, s # r PROVE (Due(s, request[s]) /\ Behind(request[s]))'
  <2>1. request'[s] = request[s] /\ (s \in active => s \in active') /\ mutation # s /\ mutation' # s
    BY <1>1, <1>3, <1>8, <1>12, NobodyIsNoRequest
  <2>2. \A t \in answered : rows[t].revoked => t \notin clients'
    BY Zenon, <1>1, <1>5 DEF Active
  <2> QED
    BY <1>2, <1>6, <2>1, <2>2, OthersAreDue, Known
<1> QED
  BY <1>8, <1>9, <1>10, <1>11, <1>12 DEF IInv

\* A client that goes away ends what its connection serves, and nothing else.
LEMMA DropKeeps ==
  ASSUME IInv, NEW r \in Requests, Drop(r) \/ Return(r)
  PROVE  IInv'
<1> DEFINE q == request[r]
           owned == Mutates(q.route) /\ q.pc \in {"reading", "waiting", "persisting", "loading", "storing"}
<1>1. /\ q.pc # "idle" /\ UNCHANGED <<stored, starting, clients, mutation, history>>
      /\ active' \in {active, active \cup {r}, active \ {r}}
      /\ \/ ~owned /\ request' = [request EXCEPT ![r] = Idle]
         \/ owned /\ active' = active /\ request' = [request EXCEPT ![r] = [q EXCEPT !.dropped = TRUE]]
  <2>1. CASE Drop(r)
    BY Zenon, <2>1 DEF Drop, Put
  <2>2. CASE Return(r)
    BY Zenon, <2>2 DEF Return, Quiet, Put
  <2> QED
    BY <2>1, <2>2
<1>2. UNCHANGED <<rows, clients, mutation, answered, gone>>
  BY Zenon, <1>1 DEF stored, history
<1>3. q \in Progress /\ Due(r, q) /\ Behind(q) /\ boot = "up" /\ request \in [Requests -> Progress]
  BY <1>1, Known, Up
<1> DEFINE Goal == /\ request' = [request EXCEPT ![r] = request'[r]] /\ request'[r] \in Progress
                   /\ (Due(r, request[r]) /\ Behind(request[r]))'
<1> HIDE DEF Goal
<1>4. ASSUME ~owned, request' = [request EXCEPT ![r] = Idle] PROVE Goal
  <2>1. mutation' # r
    BY <1>2, <1>3, <1>4 DEF Due, Working
  <2>2. request'[r] = Idle /\ request' = [request EXCEPT ![r] = request'[r]]
    BY <1>3, <1>4
  <2> QED
    BY <2>1, <2>2, IdleNext, IdleIsDue DEF Goal
<1>5. ASSUME active' = active, request' = [request EXCEPT ![r] = [q EXCEPT !.dropped = TRUE]] PROVE Goal
  <2>1. /\ request' = [request EXCEPT ![r] = request'[r]] /\ request'[r] \in Progress
        /\ request'[r].pc = q.pc /\ request'[r].copy = q.copy /\ request'[r].route = q.route
        /\ request'[r].token = q.token /\ request'[r].late = q.late /\ request'[r].made = q.made
        /\ request'[r].id = q.id /\ request'[r].client = q.client
        /\ request'[r].scopes = q.scopes /\ request'[r].status = q.status
    BY Zenon, <1>3, <1>5 DEF Progress
  <2>2. Due(r, request[r])'
    BY <1>2, <1>3, <1>5, <2>1 DEF Due, Asked
  <2>3. Behind(request[r])'
    <3>1. Active(rows)' = Active(rows) /\ Matching(request[r])' = Matching(q)
      BY Zenon, <1>2, <2>1 DEF Active, Matching
    <3> QED
      BY Zenon, <1>2, <1>3, <2>1, <3>1 DEF Behind
  <2> QED
    BY <2>1, <2>2, <2>3 DEF Goal
<1>6. Goal
  BY <1>1, <1>4, <1>5
<1> QED
  BY <1>1, <1>2, <1>3, <1>6, MoveKeeps DEF history, Goal

LEMMA StepKeeps == IInv /\ [Next]_vars => IInv'
<1> SUFFICES ASSUME IInv, [Next]_vars PROVE IInv'
  OBVIOUS
<1>1. CASE Bootstrap
  BY <1>1, StartKeeps, LoadKeeps DEF Bootstrap
<1>2. ASSUME NEW r \in Requests, Handle(r) PROVE IInv'
  BY <1>2, CheckKeeps, ServeKeeps, LockKeeps, PersistKeeps, CopyKeeps, StoreKeeps, DropKeeps
     DEF Handle
<1>3. ASSUME NEW r \in Requests, Arrive(r) \/ Drop(r) PROVE IInv'
  BY <1>3, ArriveKeeps, DropKeeps
<1> QED
  BY <1>1, <1>2, <1>3, EndKeeps, DrainKeeps DEF Next

LEMMA Invariance == Spec => []IInv
  BY Begins, StepKeeps, PTL DEF Spec

\* For any number of connections, tokens, requests, drains, crashes and starts: a request
\* that arrives after the revocation of its token was answered is refused, a token is
\* refused as unknown only when the store says it is revoked, and for its scope only when
\* it was issued without it (enforce_request_security, AuthRegistry::revoke).
THEOREM TokensAreJudgedDuly == Spec => []VerdictsAreDue
<1>1. IInv => VerdictsAreDue
  BY DEF IInv, Due, VerdictsAreDue
<1> QED
  BY <1>1, Invariance, PTL

\* Whatever clients go away and whatever fails meanwhile: with no work admitted no token
\* operation is under way and the map accepts exactly the tokens of the store, and every
\* secret a start put is bound, recorded, reported or lost with its process
\* (AuthRegistry::issue_with_scopes, bootstrap_owned).
THEOREM DrainSettlesTokens == Spec => []DrainedIsSettled
<1>1. ASSUME IInv, boot = "up", active = {} PROVE mutation = Nobody /\ clients = Active(rows)
  <2>1. mutation \in Requests \cup {Nobody}
    BY <1>1 DEF IInv, TypeOK
  <2>2. ASSUME NEW r \in Requests, mutation = r PROVE FALSE
    BY <1>1, <2>2 DEF IInv, Due
  <2> QED
    BY <1>1, <2>1, <2>2 DEF IInv, MapInv
<1>2. IInv => DrainedIsSettled
  BY <1>1 DEF DrainedIsSettled, MapIsTheStore, IInv, StartInv
<1> QED
  BY <1>2, Invariance, PTL
=============================================================================
