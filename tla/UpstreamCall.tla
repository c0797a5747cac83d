---------------------------- MODULE UpstreamCall ----------------------------
(***************************************************************************)
(* One request of a client carried out at an upstream: the checks of the   *)
(* route (data_plane/execute.rs, images.rs), the attempt of the production *)
(* executor (apps/wokcore runtime.rs) over the transport (engine           *)
(* transport.rs), the classes that its failures pass through on their way  *)
(* to the retry policy, the account's health and the client's error.  The  *)
(* choice among the eligible accounts is abstract here: see Execution.     *)
(***************************************************************************)
EXTENDS Naturals, Sequences, FiniteSets

CONSTANTS
  Operations,  \* text, stream, count_tokens, generation, edit
  Groups,      \* the accounts of the Provider, in sets of one authentication
  NoAccount,   \* the identity of a Provider that needs no account
  Statuses,    \* the HTTP statuses an upstream answers with
  BodyLimit    \* max_response_body_bytes

VARIABLES
  op,       \* the operation
  pc,       \* where the request is
  health,   \* healthy, cooling or quarantined, of each account
  task,     \* the request's own state
  truth     \* history: what happened in the last attempt

callVars == <<op, pc, health, task, truth>>

Accounts == UNION {Groups[g] : g \in DOMAIN Groups}
Image(o) == o \in {"generation", "edit"}
NoTruth == [sent |-> FALSE, status |-> 0, body |-> "none", local |-> {}]
NewTask ==
  [accountless |-> FALSE, group |-> 1, account |-> NoAccount, attempts |-> 0, sent |-> 0,
   got |-> 0, answer |-> "none"]

Init ==
  /\ op \in Operations /\ pc = "route" /\ task = NewTask /\ truth = NoTruth
  /\ health \in [Accounts -> {"healthy", "cooling", "quarantined"}]

Answered(code) == pc' = "done" /\ task' = [task EXCEPT !.answer = code]

-----------------------------------------------------------------------------
(* The classes of a failure.                                               *)

http_failure(status) ==
  CASE status \in {401, 403} -> "credentials"
    [] status \in {408, 504} -> "timeout"
    [] status = 429 -> "rate_limited"
    [] status \in 500..599 -> "server"
    [] OTHER -> "invalid_request"

map_transport_error(kind) ==
  CASE kind \in {"connect_timeout", "header_timeout", "idle_timeout", "total_timeout"} -> "timeout"
    [] kind \in {"too_large", "invalid_response"} -> "malformed"
    [] OTHER -> kind  \* cancelled, invalid_request, policy, transport

\* A decoder's error, and the error of a request that cannot be translated.
map_gateway_error(code) == IF code = "upstream_error" THEN "server" ELSE "malformed"
map_request_error(code) == IF code = "invalid_request" THEN "invalid_request" ELSE "policy"

\* The fault of a malformed answer that counts as a reset connection.
MalformedIsReset(kind) == IF kind \in {"transport", "malformed"} THEN "reset" ELSE kind
map_failure_kind(kind) ==
  CASE kind = "transport" -> "reset"
    [] kind = "malformed" -> "other"
    [] OTHER -> kind

RetryClass(kind) ==
  CASE kind = "rate_limited" -> "rate_limited"
    [] kind \in {"server", "timeout", "reset"} -> "temporary"
    [] OTHER -> "never"

map_terminal(kind) ==
  CASE kind = "rate_limited" -> "rate_limited"
    [] kind \in {"server", "other"} -> "upstream_error"
    [] kind \in {"timeout", "reset", "no_eligible_account"} -> "upstream_unavailable"
    [] kind = "credentials" -> "upstream_auth"
    [] kind = "invalid_request" -> "invalid_request"
    [] kind = "policy" -> "unsupported_capability"

\* The image path classifies the executor's failure directly.
gateway_error_for_failure(kind) ==
  CASE kind = "rate_limited" -> "rate_limited"
    [] kind \in {"server", "malformed"} -> "upstream_error"
    [] kind \in {"timeout", "reset", "transport"} -> "upstream_unavailable"
    [] kind = "credentials" -> "upstream_auth"
    [] kind = "invalid_request" -> "invalid_request"
    [] kind = "policy" -> "unsupported_capability"

observation_for_failure(kind) ==
  CASE kind \in {"rate_limited", "timeout", "server", "reset", "transport"} -> "cooling"
    [] kind = "credentials" -> "quarantined"
    [] OTHER -> health[task.account]

observe_failure(kind) ==
  CASE RetryClass(kind) # "never" -> "cooling"
    [] kind = "credentials" -> "quarantined"
    [] OTHER -> health[task.account]

Observe(status) ==
  health' = IF task.accountless THEN health ELSE [health EXCEPT ![task.account] = status]

-----------------------------------------------------------------------------
(* The request.                                                            *)

\* The checks before an attempt, in their order: the route, the operation's
\* capability, a count that is estimated here, the executor, the effort.
Refusal(found, can, effort, executor) ==
  CASE ~ found -> "model_not_found"
    [] (IF Image(op) THEN "images" ELSE "text") \notin can -> "unsupported_capability"
    [] op = "count_tokens" /\ "count_tokens" \notin can -> "estimated"
    [] ~ executor -> "no_executor"
    [] ~ Image(op) /\ effort = "unmapped" -> "unsupported_capability"
    [] OTHER -> "none"

Route ==
  /\ pc = "route"
  /\ \E found, executor, accountless \in BOOLEAN, effort \in {"mapped", "unmapped"},
        can \in SUBSET {"text", "images", "count_tokens"} :
       LET refusal == Refusal(found, can, effort, executor)
       IN IF refusal # "none"
          THEN Answered(refusal)
          ELSE pc' = "select" /\ task' = [task EXCEPT !.accountless = accountless]
  /\ UNCHANGED <<op, health, truth>>

\* A cooldown passes.
CoolsDown(a) ==
  /\ pc \in {"select", "delay"} /\ health[a] = "cooling"
  /\ health' = [health EXCEPT ![a] = "healthy"]
  /\ UNCHANGED <<op, pc, task, truth>>

Select ==
  /\ pc = "select"
  /\ LET healthy == {a \in Groups[task.group] : health[a] = "healthy"}
     IN \/ /\ task.accountless \/ healthy # {}
           /\ \E a \in (IF task.accountless THEN {NoAccount} ELSE healthy) :
                task' = [task EXCEPT !.account = a, !.attempts = @ + 1, !.got = 0]
           /\ pc' = "prepare" /\ truth' = NoTruth
        \/ /\ ~ task.accountless /\ healthy = {}
           /\ IF task.attempts = 0 /\ task.group < Len(Groups)
              THEN task' = [task EXCEPT !.group = @ + 1] /\ UNCHANGED <<pc, truth>>
              ELSE /\ Answered(map_terminal("no_eligible_account"))
                   /\ truth' = [NoTruth EXCEPT !.local = {"no_account"}]
  /\ UNCHANGED <<op, health>>

\* The end of an attempt that failed: the images are not tried again.
Failed(kind, facts) ==
  /\ truth' = facts
  /\ IF Image(op)
     THEN Observe(observation_for_failure(kind)) /\ Answered(gateway_error_for_failure(kind))
     ELSE LET mapped == map_failure_kind(kind)
          IN /\ Observe(observe_failure(mapped))
             /\ IF RetryClass(mapped) # "never" /\ task.attempts < 2
                THEN pc' = "delay" /\ UNCHANGED task
                ELSE Answered(map_terminal(mapped))
  /\ UNCHANGED op

Succeeded ==
  /\ Observe("healthy") /\ Answered("ok")
  /\ truth' = [truth EXCEPT !.body = IF op = "stream" THEN "created" ELSE "whole"]
  /\ UNCHANGED op

RetryDelay == pc = "delay" /\ pc' = "select" /\ UNCHANGED <<op, health, task, truth>>

\* What is wrong with the request before it is sent: the adapter or its address
\* is refused, the translation fails, the secret is missing, the transport
\* refuses the address.  Texts are translated before the secret is read, images
\* after.
LocalFaults == SUBSET {"adapter", "translation", "capability", "secret", "address"}
LocalFailure(faults) ==
  LET translated == IF "translation" \in faults THEN map_request_error("invalid_request")
                    ELSE IF "capability" \in faults THEN map_request_error("unsupported_capability")
                    ELSE "none"
      resolved == IF "secret" \in faults /\ ~ task.accountless THEN "credentials" ELSE "none"
      addressed == IF "address" \in faults THEN map_transport_error("policy") ELSE "none"
      order == IF Image(op) THEN <<resolved, translated>> ELSE <<translated, resolved>>
  IN CASE "adapter" \in faults -> "policy"
       [] order[1] # "none" -> order[1]
       [] order[2] # "none" -> order[2]
       [] OTHER -> addressed

Prepare ==
  /\ pc = "prepare"
  /\ \E faults \in LocalFaults :
       LET kind == LocalFailure(faults)
       IN IF kind # "none"
          THEN Failed(kind, [NoTruth EXCEPT !.local = faults])
          ELSE /\ pc' = "head" /\ task' = [task EXCEPT !.sent = @ + 1]
               /\ truth' = [NoTruth EXCEPT !.sent = TRUE] /\ UNCHANGED <<op, health>>

\* PooledTransport::execute until the head: no answer, a head that is refused,
\* or one that is accepted.  Only a streamed answer is looked at before its body.
NoHead ==
  /\ pc = "head"
  /\ \E kind \in {"connect_timeout", "header_timeout", "transport"} :
       Failed(map_transport_error(kind), [truth EXCEPT !.body = "lost"])

BadHead ==
  /\ pc = "head"
  /\ \E kind \in {"invalid_response", "too_large"} :
       Failed(map_transport_error(kind), [truth EXCEPT !.body = "refused"])

ResponseHead ==
  /\ pc = "head"
  /\ \E status \in Statuses :
       LET facts == [truth EXCEPT !.status = status]
       IN IF op = "stream" /\ status # 200
          THEN Failed(http_failure(status), facts)
          ELSE /\ pc' = IF op = "stream" THEN "first" ELSE "body"
               /\ truth' = facts /\ UNCHANGED <<op, health, task>>

\* read_complete_body
Chunk ==
  /\ pc = "body"
  /\ \E size \in 1..BodyLimit :
       IF task.got + size > BodyLimit
       THEN Failed(map_transport_error("too_large"), [truth EXCEPT !.body = "refused"])
       ELSE task' = [task EXCEPT !.got = @ + size] /\ UNCHANGED <<op, pc, health, truth>>

BodyLost ==
  /\ pc = "body"
  /\ \E kind \in {"total_timeout", "transport"} :
       Failed(map_transport_error(kind), [truth EXCEPT !.body = "lost"])

\* The fault of an executor that decodes the body of any answer.
DecodeBeforeStatus(code) ==
  IF code # "ok" THEN map_gateway_error(code)
  ELSE IF truth.status # 200 THEN http_failure(truth.status) ELSE "none"

\* The status decides before the body is decoded.
AnswerFailure(code) ==
  IF truth.status # 200 THEN http_failure(truth.status)
  ELSE IF code # "ok" THEN map_gateway_error(code) ELSE "none"

BodyEnds ==
  /\ pc = "body"
  /\ \E code \in {"ok", "invalid_request"} \cup (IF op = "text" THEN {"upstream_error"} ELSE {}) :
       LET kind == AnswerFailure(code)
       IN IF kind = "none"
          THEN Succeeded
          ELSE Failed(kind, [truth EXCEPT !.body = IF code = "ok" THEN "whole" ELSE code])

\* RequestAttempt::execute waits for the first event that the pump sends.
FirstEvent ==
  /\ pc = "first"
  /\ \/ Succeeded
     \/ Failed("malformed", [truth EXCEPT !.body = "invalid_request"])
     \/ \E code \in {"invalid_request", "upstream_error"} :
          Failed(map_gateway_error(code), [truth EXCEPT !.body = code])
     \/ \E kind \in {"idle_timeout", "transport"} :
          Failed(map_transport_error(kind), [truth EXCEPT !.body = "lost"])
     \/ Failed(map_transport_error("too_large"), [truth EXCEPT !.body = "refused"])

\* The client goes away: the future is dropped where it awaits.
Dropped ==
  /\ pc \in {"prepare", "head", "body", "first", "delay"}
  /\ Answered("dropped")
  /\ UNCHANGED <<op, health, truth>>

Step ==
  \/ Route \/ Select \/ Prepare \/ NoHead \/ BadHead \/ ResponseHead \/ Chunk \/ BodyLost \/ BodyEnds
  \/ FirstEvent \/ RetryDelay
Next == Step \/ Dropped \/ \E a \in Accounts : CoolsDown(a)

-----------------------------------------------------------------------------
(* Properties.                                                             *)

Transient ==
  /\ truth.sent
  /\ \/ truth.status \in {408, 429} \cup 500..599
     \/ truth.body \in {"lost", "upstream_error"}

\* What the client is told follows from what happened in the last attempt, through
\* all the classes in between: an answer is whole, the gateway's own refusals say so and
\* never reach the upstream, and only the upstream's words blame the credentials, the
\* rate or the server.  An upstream is asked twice only for a text, and never for an
\* image (execute_inner, execute_image_inner, map_terminal, gateway_error_for_failure).
AnswerIsWarranted ==
  /\ task.sent <= IF Image(op) THEN 1 ELSE 2
  /\ pc = "delay" => Transient
  /\ pc = "done" =>
       CASE task.answer = "ok" -> truth.status = 200 /\ truth.body \in {"whole", "created"}
         [] task.answer \in {"model_not_found", "no_executor", "estimated"} -> task.sent = 0
         [] task.answer = "unsupported_capability" -> ~ truth.sent
         [] task.answer = "invalid_request" ->
              IF truth.sent THEN truth.status \in 300..499 \ {401, 403, 408, 429}
                            ELSE "translation" \in truth.local
         [] task.answer = "upstream_auth" ->
              truth.status \in {401, 403} \/ "secret" \in truth.local
         [] task.answer = "rate_limited" -> truth.status = 429
         [] task.answer = "upstream_error" ->
              \/ truth.body = "refused"
              \/ truth.status \in 500..599 \ {504}
              \/ truth.status = 200 /\ truth.body \in {"invalid_request", "upstream_error"}
         [] task.answer = "upstream_unavailable" ->
              \/ truth.body = "lost" \/ truth.status \in {408, 504}
              \/ truth.local = {"no_account"}
         [] OTHER -> task.answer = "dropped"

\* One step of HealthIsEarned.
HealthEarned ==
  \A a \in Accounts : health'[a] # health[a] =>
       CASE health'[a] = "cooling" -> a = task.account /\ Transient'
         [] health'[a] = "quarantined" ->
              /\ a = task.account
              /\ truth'.status \in {401, 403} \/ "secret" \in truth'.local
         [] health'[a] = "healthy" -> health[a] = "cooling" /\ pc # "done"

\* An account loses its standing only for what its upstream did with it, or because its
\* own secret is missing: never for the client's request, for a limit of the gateway or
\* for a request that was not sent, and no other account is touched (observe_failure,
\* observation_for_failure).
HealthIsEarned == [][HealthEarned]_callVars
=============================================================================
