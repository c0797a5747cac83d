------------------------------ MODULE Routing ------------------------------
(* Provider configurations, the runtime snapshot that is built from one, and    *)
(* the route of a request through it (engine catalog.rs, config.rs, snapshot.rs *)
(* and routing.rs, core config.rs).                                             *)
(*                                                                             *)
(* An operator edits a configuration and publishes it; a configuration that is  *)
(* refused leaves the published snapshot as it was.  An endpoint is its class:  *)
(* "public" over HTTPS, "plain" public over HTTP, "loopback", "private",        *)
(* "template" with a placeholder, "broken".                                     *)
EXTENDS Naturals, Sequences, SequencesExt

CONSTANTS Definitions,   \* of the catalog file, by catalog identifier
          Base,          \* the configuration the service starts with
          Ids,           \* instance identifiers in their order, the last one without an instance
          Models, ClientIds,
          Targets,       \* targets an operator writes
          AuthKinds,
          MaxEdits       \* edits before the configuration is published

VARIABLES config, snapshot, edits


Every == "every"

-----------------------------------------------------------------------------
(* The catalog.                                                                *)

\* validate_endpoint: what the policy of a definition allows its own endpoint to be.
CatalogEndpoint(policy, endpoint) ==
    CASE policy = "https" -> endpoint = "public"
      [] policy = "template" -> endpoint \in {"public", "template"}
      [] OTHER -> endpoint = "loopback"

\* A definition the catalog refuses makes the whole file invalid.
ValidDefinition(d) ==
    /\ CatalogEndpoint(d.policy, d.base)
    /\ d.text
    /\ (d.default = "none" \/ d.default \in d.models \/ d.live)
    /\ ~d.reasoning => d.efforts = {}

ValidCatalog == \A c \in DOMAIN Definitions : ValidDefinition(Definitions[c])

-----------------------------------------------------------------------------
(* The checks of a configuration.                                              *)

InstanceIds(c) == {c.instances[i].id : i \in DOMAIN c.instances}
ValidTarget(c, target) == target.provider \in InstanceIds(c) /\ target.model # "blank"

\* Identifiers are unique, references lead somewhere, models have a name.
validate_provider_configuration_shape(c) ==
    /\ IsInjective([i \in DOMAIN c.instances |-> c.instances[i].id])
    /\ \A i \in DOMAIN c.instances : c.instances[i].endpoint \notin {"broken", "template"}
    /\ IsInjective([i \in DOMAIN c.accounts |-> c.accounts[i].id])
    /\ \A i \in DOMAIN c.accounts : c.accounts[i].provider \in InstanceIds(c)
    /\ IsInjective([i \in DOMAIN c.aliases |-> c.aliases[i].alias])
    /\ \A i \in DOMAIN c.aliases : ValidTarget(c, c.aliases[i].target)
    /\ \A i \in DOMAIN c.rules : c.rules[i].model # "blank" /\ ValidTarget(c, c.rules[i].target)
    /\ \A i \in DOMAIN c.default : ValidTarget(c, c.default[i])

\* An override is a public HTTPS address, or a private one the operator opted in to.
classify_endpoint_override(endpoint) ==
    CASE endpoint = "public" -> "public"
      [] endpoint \in {"loopback", "private"} -> "private"
      [] OTHER -> "refused"

validate_instance(instance) ==
    instance.endpoint # "none" =>
        /\ Definitions[instance.catalog].override
        /\ CASE classify_endpoint_override(instance.endpoint) = "public" -> TRUE
             [] classify_endpoint_override(instance.endpoint) = "private" -> instance.private
             [] OTHER -> FALSE

authentication_matches(d, auth) ==
    \/ d.auth = auth
    \/ d.auth = "oauth" /\ auth = "key" /\ d.allowKey
    \/ d.auth = "key" /\ auth = "local" /\ d.keyOptional

InstanceOf(c, id) == SelectSeq(c.instances, LAMBDA i : i.id = id)[1]

validate_provider_configuration(c) ==
    /\ validate_provider_configuration_shape(c)
    /\ \A i \in DOMAIN c.instances :
          c.instances[i].catalog \in DOMAIN Definitions /\ validate_instance(c.instances[i])
    /\ \A i \in DOMAIN c.accounts :
          authentication_matches(Definitions[InstanceOf(c, c.accounts[i].provider).catalog],
                                 c.accounts[i].auth)

-----------------------------------------------------------------------------
(* The snapshot.                                                               *)

EndpointOf(instance) ==
    IF instance.endpoint # "none" THEN instance.endpoint ELSE Definitions[instance.catalog].base

EndpointAccess(instance) ==
    IF instance.private THEN "private_allowed"
    ELSE IF Definitions[instance.catalog].policy = "loopback" THEN "loopback_only"
    ELSE "public_only"

EnabledAccounts(c, id) ==
    SelectSeq(c.accounts, LAMBDA a : a.enabled /\ a.provider = id)
account_is_required(d) == d.auth # "local" /\ ~d.keyOptional

Enabled(c) == SelectSeq(c.instances, LAMBDA i : i.enabled)
Buildable(c) ==
    \A n \in DOMAIN Enabled(c) :
        LET i == Enabled(c)[n]
        IN  /\ EndpointOf(i) # "template"
            /\ EnabledAccounts(c, i.id) = <<>> => ~account_is_required(Definitions[i.catalog])

build_runtime_providers(c) ==
    [id \in {Enabled(c)[n].id : n \in DOMAIN Enabled(c)} |->
        LET i == InstanceOf(c, id)
        IN  [catalog |-> i.catalog, endpoint |-> EndpointOf(i), access |-> EndpointAccess(i),
             accounts |-> EnabledAccounts(c, id)]]

Specificity(rule) == (IF rule.client # Every THEN 1 ELSE 0) + (IF rule.model # Every THEN 1 ELSE 0)

\* A stable sort, the most specific first.
CompiledAsWritten(c) == c.rules
CompiledRules(c) ==
    SelectSeq(c.rules, LAMBDA r : Specificity(r) = 2)
    \o SelectSeq(c.rules, LAMBDA r : Specificity(r) = 1)
    \o SelectSeq(c.rules, LAMBDA r : Specificity(r) = 0)

\* The owner a listed model is shown with: an alias's target, else the first provider whose
\* catalog lists it, else a rule's or the default's target.
Owned(targets, providers) ==
    SelectSeq([i \in DOMAIN targets |-> targets[i].provider], LAMBDA id : id \in DOMAIN providers)
Owners(c, providers, model) ==
    LET aliases == SelectSeq(c.aliases, LAMBDA a : a.alias = model)
        rules == SelectSeq(c.rules, LAMBDA r : r.model = model)
        lists(id) == /\ id \in DOMAIN providers
                     /\ LET d == Definitions[providers[id].catalog]
                        IN  model \in d.models \cup {d.default}
    IN  Owned([i \in DOMAIN aliases |-> aliases[i].target], providers)
        \o SelectSeq(Ids, lists)
        \o Owned([i \in DOMAIN rules |-> rules[i].target], providers)
        \o Owned(SelectSeq(c.default, LAMBDA t : t.model = model), providers)
build_public_models(c, providers) ==
    LET listed == {m \in Models : Owners(c, providers, m) # <<>>}
    IN  {[model |-> m, owner |-> Owners(c, providers, m)[1]] : m \in listed}

Snapshot(c) ==
    [providers |-> build_runtime_providers(c), aliases |-> c.aliases, rules |-> CompiledRules(c),
     default |-> c.default,
     models |-> build_public_models(c, build_runtime_providers(c))]

decision(s, target, origin) ==
    IF target.provider \in DOMAIN s.providers
    THEN [provider |-> target.provider, model |-> target.model, origin |-> origin]
    ELSE [error |-> "provider_unavailable"]

Matches(rule, client, model) == rule.client \in {Every, client} /\ rule.model \in {Every, model}

\* RuntimeSnapshot::route
route(s, client, model) ==
    LET aliases == SelectSeq(s.aliases, LAMBDA a : a.alias = model)
        rules == SelectSeq(s.rules, LAMBDA r : Matches(r, client, model))
    IN  IF aliases # <<>> THEN decision(s, aliases[1].target, "alias")
        ELSE IF rules # <<>> THEN decision(s, rules[1].target, "rule")
        ELSE IF s.default # <<>> THEN decision(s, s.default[1], "default")
        ELSE [error |-> "no_route"]

-----------------------------------------------------------------------------
Init ==
    /\ ValidCatalog
    /\ config = Base
    /\ snapshot = Snapshot(Base)
    /\ edits = 0

Edit(c) == edits < MaxEdits /\ edits' = edits + 1 /\ config' = c /\ UNCHANGED snapshot

EditInstance ==
    \E n \in DOMAIN config.instances :
        \/ Edit([config EXCEPT !.instances[n].enabled = ~@])
        \/ Edit([config EXCEPT !.instances[n].private = ~@])
        \/ \E e \in {"none", "public", "plain", "loopback", "private", "template", "broken"} :
              Edit([config EXCEPT !.instances[n].endpoint = e])
        \/ \E d \in DOMAIN Definitions \cup {"unknown"} : Edit([config EXCEPT !.instances[n].catalog = d])

EditAccount ==
    \E n \in DOMAIN config.accounts :
        \/ Edit([config EXCEPT !.accounts[n].enabled = ~@])
        \/ \E k \in AuthKinds : Edit([config EXCEPT !.accounts[n].auth = k])
        \/ \E id \in ToSet(Ids) : Edit([config EXCEPT !.accounts[n].provider = id])

EditRoutes ==
    \/ \E m \in Models, t \in Targets :
          Edit([config EXCEPT !.aliases = Append(@, [alias |-> m, target |-> t])])
    \/ \E r \in [client : ClientIds \cup {Every}, model : Models \cup {Every}, target : Targets] :
          Edit([config EXCEPT !.rules = Append(@, r)])
    \/ \E t \in Targets : Edit([config EXCEPT !.default = <<t>>])

\* rebuild_and_publish: the store swaps the snapshot only when it could be built.
Publish ==
    /\ edits <= MaxEdits
    /\ edits' = MaxEdits + 1
    /\ snapshot' = IF validate_provider_configuration(config) /\ Buildable(config)
                   THEN Snapshot(config) ELSE snapshot
    /\ config' = IF validate_provider_configuration(config) /\ Buildable(config)
                 THEN config ELSE Base

Next == EditInstance \/ EditAccount \/ EditRoutes \/ Publish

-----------------------------------------------------------------------------
\* The published snapshot of the configuration `config`.
Published == edits \in {0, MaxEdits + 1}

\* The rule that decides: no other rule for the request names more of it, and none that
\* names as much stands before it in the configuration.
Decides(i, client, model) ==
    /\ Matches(config.rules[i], client, model)
    /\ \A j \in DOMAIN config.rules :
          Matches(config.rules[j], client, model) =>
              \/ Specificity(config.rules[j]) < Specificity(config.rules[i])
              \/ Specificity(config.rules[j]) = Specificity(config.rules[i]) /\ i <= j

\* A request goes where the configuration says: to its alias, else to the target of the
\* rule that decides, else to the default; never to another provider because that one is
\* disabled (CompiledRule, RuntimeSnapshot::route).
RouteIsTheMostSpecific ==
    Published =>
        \A client \in ClientIds \cup {Every}, model \in Models :
            LET d == route(snapshot, client, model)
                aliases == {a.target : a \in {b \in ToSet(config.aliases) : b.alias = model}}
                rules == {config.rules[i].target :
                             i \in {j \in DOMAIN config.rules : Decides(j, client, model)}}
                targets == IF aliases # {} THEN aliases
                           ELSE IF rules # {} THEN rules ELSE ToSet(config.default)
            IN  /\ targets = {} => d = [error |-> "no_route"]
                /\ \A target \in targets :
                      IF InstanceOf(config, target.provider).enabled
                      THEN d.provider = target.provider /\ d.model = target.model
                      ELSE d = [error |-> "provider_unavailable"]

\* Every provider of a snapshot can be called within its policy: a private address only for
\* an operator who opted in or a loopback definition, every public one over HTTPS, every
\* account enabled, its own and of a kind the provider takes, and one there unless the
\* provider needs none; and a listed alias leads to the provider it is listed with
\* (validate_instances, build_runtime_providers, build_public_models).
SnapshotIsServable ==
    /\ \A id \in DOMAIN snapshot.providers :
          LET p == snapshot.providers[id]
              d == Definitions[p.catalog]
          IN  /\ p.endpoint \in {"public", "private", "loopback"}
              /\ p.access = "public_only" => p.endpoint = "public"
              /\ p.access = "loopback_only" => p.endpoint \in {"loopback", "public"}
              /\ \A n \in DOMAIN p.accounts :
                    /\ p.accounts[n].enabled /\ p.accounts[n].provider = id
                    /\ \/ p.accounts[n].auth = d.auth
                       \/ p.accounts[n].auth = "key" /\ d.allowKey
                       \/ p.accounts[n].auth = "local" /\ d.keyOptional
              /\ p.accounts # <<>> \/ d.auth = "local" \/ d.keyOptional
    /\ \A m \in snapshot.models, client \in ClientIds \cup {Every} :
          (\E i \in DOMAIN snapshot.aliases : snapshot.aliases[i].alias = m.model) =>
              \/ route(snapshot, client, m.model) = [error |-> "provider_unavailable"]
              \/ route(snapshot, client, m.model).provider = m.owner
=============================================================================
