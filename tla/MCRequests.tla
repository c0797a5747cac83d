---------------------------- MODULE MCRequests ----------------------------
(* A request on its way to an upstream: the credential it is admitted with, the *)
(* route of its model, its translation between protocols, the accounts it is    *)
(* tried on beside other requests, the call itself, and the upload of an image  *)
(* edit.  They share no variable, so one of them runs; the tokens wait in the   *)
(* first of their initial states when it is not their turn.                     *)
EXTENDS ClientTokens

CONSTANTS Machines, MaxEdits,
          MaxParts, PlainParts, MaxInput, MaxCollection,
          Operations, a1, a2, a3, NoAccount, Statuses, BodyLimit,
          MaxFields, PartLimit, TotalLimit, TextLimit, WireLimit, ReadBytes, UploadCap,
          FailureKinds, Hints, BaseDelay, MaxDelay, BaseCooldown, MaxCooldown,
          FailureWidth, RestorableFailures, MaxTime, MaxSelections

VARIABLES part,
          config, snapshot, edits,
          format, draft, canonical, reply,
          op, pc, health, task, truth,
          stage, fields, temps, verdict, pumping, queue, wire,
          clock, table, sequence, progress, bystanders, disturbed

\* A definition that takes no other endpoint, one whose endpoint is a template and whose
\* accounts may be keys, and a local one.
Definition(policy, base, override, auth, allowKey, model) ==
    [policy |-> policy, base |-> base, override |-> override, auth |-> auth,
     keyOptional |-> FALSE, allowKey |-> allowKey, text |-> TRUE, models |-> {model},
     default |-> model, live |-> FALSE, reasoning |-> FALSE, efforts |-> {}]
Catalog ==
    [open |-> Definition("https", "public", FALSE, "key", FALSE, "m1"),
     flexible |-> Definition("template", "template", TRUE, "oauth", TRUE, "m2"),
     local |-> Definition("loopback", "loopback", TRUE, "local", FALSE, "m1")]
Instance(id, catalog) ==
    [id |-> id, catalog |-> catalog, enabled |-> TRUE, endpoint |-> "none", private |-> FALSE]
StartConfig ==
    [instances |-> <<Instance("p", "open"), Instance("q", "local")>>,
     accounts |-> <<[id |-> "a", provider |-> "p", enabled |-> TRUE, auth |-> "key"],
                    [id |-> "b", provider |-> "q", enabled |-> TRUE, auth |-> "local"]>>,
     aliases |-> <<>>, rules |-> <<>>, default |-> <<>>]
RouteTargets == {[provider |-> "p", model |-> "m1"], [provider |-> "q", model |-> "m2"],
                 [provider |-> "r", model |-> "m1"]}

\* A provider of each protocol; one maps every effort to another, one offers its own, one
\* has no reasoning, one no text.
Provider(up, text, count, reasoning, efforts, map) ==
    [up |-> up, text |-> text, count |-> count, reasoning |-> reasoning,
     efforts |-> efforts, map |-> map]
RoutedProviders ==
    {Provider("responses", TRUE, FALSE, TRUE, {}, <<>>),
     Provider("chat", TRUE, FALSE, TRUE, {"exotic"}, [x \in {"high", "enabled"} |-> "exotic"]),
     Provider("azure", TRUE, TRUE, FALSE, {}, <<>>),
     Provider("gemini", TRUE, FALSE, TRUE, {}, <<>>),
     Provider("anthropic", TRUE, TRUE, TRUE, {"enabled", "disabled", "high"}, <<>>),
     Provider("anthropic", FALSE, TRUE, TRUE, {}, <<>>)}

\* One token that may use the proxy, one that may manage clients, and another client that
\* asks for the identifier of the first.
ClientAsks == {[id |-> "t1", client |-> "c1", scopes |-> {"proxy.use"}],
               [id |-> "t2", client |-> "c1", scopes |-> {"clients.manage"}],
               [id |-> "t1", client |-> "c2", scopes |-> {"proxy.use"}]}

Route == INSTANCE Routing WITH
    Definitions <- Catalog, Base <- StartConfig, Ids <- <<"p", "q", "r">>,
    Models <- {"m1", "m2"}, ClientIds <- {"c"}, Targets <- RouteTargets,
    AuthKinds <- {"key", "oauth", "local", "forward"}
Translation == INSTANCE RequestTranslation WITH
    Formats <- {"responses", "chat", "anthropic"}, Providers <- RoutedProviders
Call == INSTANCE UpstreamCall WITH Groups <- <<{a1, a2}, {a3}>>
Edits == INSTANCE ImageEdits
\* Two accounts of one authentication kind, one of another.
Shared == INSTANCE Execution WITH Groups <- <<<<a1, a2>>, <<a3>>>>, task <- progress

routeVars == <<config, snapshot, edits>>
translationVars == <<format, draft, canonical, reply>>
callVars == <<op, pc, health, task, truth>>
editVars == <<stage, fields, temps, verdict, pumping, queue, wire>>
sharedVars == <<clock, table, sequence, progress, bystanders, disturbed>>
requestVars == <<part, routeVars, translationVars, callVars, editVars, sharedVars, vars>>

NoRoute == config = 0 /\ snapshot = 0 /\ edits = 0
NoTranslation == format = 0 /\ draft = 0 /\ canonical = 0 /\ reply = 0
NoCall == op = 0 /\ pc = 0 /\ health = 0 /\ task = 0 /\ truth = 0
NoEdit == /\ stage = 0 /\ fields = 0 /\ temps = 0 /\ verdict = 0
          /\ pumping = 0 /\ queue = 0 /\ wire = 0
NoShared == /\ clock = 0 /\ table = 0 /\ sequence = 0 /\ progress = 0
            /\ bystanders = 0 /\ disturbed = 0

RequestInit ==
    /\ part \in Machines
    /\ IF part = "route" THEN Route!Init ELSE NoRoute
    /\ IF part = "translation" THEN Translation!Init ELSE NoTranslation
    /\ IF part = "call" THEN Call!Init ELSE NoCall
    /\ IF part = "edit" THEN Edits!Init ELSE NoEdit
    /\ IF part = "accounts" THEN Shared!Init ELSE NoShared
    /\ Init /\ (part # "tokens" => rows = <<>>)

RequestNext ==
    /\ UNCHANGED part
    /\ \/ /\ part = "route" /\ Route!Next
          /\ UNCHANGED <<translationVars, callVars, editVars, sharedVars, vars>>
       \/ /\ part = "translation" /\ Translation!Next
          /\ UNCHANGED <<routeVars, callVars, editVars, sharedVars, vars>>
       \/ /\ part = "call" /\ Call!Next
          /\ UNCHANGED <<routeVars, translationVars, editVars, sharedVars, vars>>
       \/ /\ part = "edit" /\ Edits!Next
          /\ UNCHANGED <<routeVars, translationVars, callVars, sharedVars, vars>>
       \/ /\ part = "accounts" /\ Shared!Next
          /\ UNCHANGED <<routeVars, translationVars, callVars, editVars, vars>>
       \/ /\ part = "tokens" /\ Next
          /\ UNCHANGED <<routeVars, translationVars, callVars, editVars, sharedVars>>

RequestSpec == RequestInit /\ [][RequestNext]_requestVars

-----------------------------------------------------------------------------
\* Routing: a request goes to its alias, else to the most specific rule, else to the
\* default (RuntimeSnapshot::route), and the providers of a published snapshot can be
\* called within their policy (validate_provider_configuration, build_runtime_providers).
RouteIsTheMostSpecific ==
    part = "route" => Route!RouteIsTheMostSpecific /\ Route!SnapshotIsServable
\* RequestTranslation: an upstream request holds what the client said (the inbound codecs,
\* UpstreamAdapter::build_request).  ImageEdits: the bytes announced are the bytes sent, of
\* the files the client uploaded (multipart_upload, pump_multipart, account_chunk).
TranslationIsFaithful ==
    /\ part = "translation" => Translation!TranslationIsFaithful
    /\ part = "edit" => Edits!EditsAreFaithful
\* UpstreamCall: the client's answer is one the attempts explain (execute_canonical,
\* map_terminal, execute_image).
AnswerIsWarranted == part = "call" => Call!AnswerIsWarranted
\* UpstreamCall: an account's health changes only for what its own upstream did
\* (observe_failure, map_failure_kind).  Execution: a quarantine is lifted only by a
\* request that had chosen the account before it (AccountHealthTable::observe).
HealthIsEarned ==
    [][/\ part = "call" => Call!HealthEarned
       /\ part = "accounts" => Shared!LiftedByBystander]_requestVars
\* Execution: at most two attempts, all with accounts of one authentication kind
\* (execute_canonical, ExecutionCoordinator::execute); and undisturbed accounts are used
\* alike, within one selection per concurrent request (select_from, mark_selected).
AttemptsAreSpread ==
    part = "accounts" => Shared!AttemptsStayInOneGroup /\ Shared!SelectionIsBalanced
\* Execution: every state of the table can be carried over to a new configuration
\* (AccountHealthTable::restore).
TableIsRestorable == part = "accounts" => Shared!TableIsRestorable
=============================================================================
