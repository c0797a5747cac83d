------------------------- MODULE RequestTranslation -------------------------
(* A text request from the client's protocol to the upstream's: a client        *)
(* composes messages and options, the inbound codec of its route reads them     *)
(* into a CanonicalRequest or refuses them, the route's capabilities and        *)
(* reasoning efforts are applied, and the adapter of the routed provider builds *)
(* the upstream request from the canonical one.                                 *)
(*                                                                             *)
(* A content part is its kind, its place in the request (n, which stands for    *)
(* what it holds) and a flaw: "bad" is an empty or oversized identifier, an     *)
(* image address of another scheme or a call without a name; "odd" an           *)
(* identifier with a control character; "long" a text above the upstream's      *)
(* limit for one; "twin" a call identifier used before in its message.          *)
EXTENDS Naturals, Sequences, FiniteSets, SequencesExt, FiniteSetsExt

CONSTANTS Formats,         \* client protocols: "responses", "chat", "anthropic"
          Providers,       \* routed providers: [up, text, count, reasoning, efforts, map]
          MaxParts,        \* parts a client writes
          PlainParts,      \* above as many parts the options are the plain ones
          MaxInput,        \* InboundLimitsV1::max_input_items
          MaxCollection    \* UpstreamLimits::max_collection_items

VARIABLES format, draft, canonical, reply

translationVars == <<format, draft, canonical, reply>>

\* Token counts, scaled: 1_024 is the least thinking budget and the one of a request that
\* gives none, 4_096 the answer length of a request that gives none.
MinBudget == 1
DefaultMaxTokens == 4

Plain == [stream |-> FALSE, effort |-> "absent", budget |-> 0, max |-> 6,
          tools |-> <<>>, extra |-> "none"]

\* The options a client may add, one at a time.
Options ==
    {Plain} \cup {[Plain EXCEPT !.stream = TRUE]}
    \cup {[Plain EXCEPT !.tools = t] : t \in {<<"a">>, <<"a", "b">>, <<"a", "a">>, <<"bad">>, <<"odd">>}}
    \cup {[Plain EXCEPT !.extra = e] : e \in {"limit", "wrong", "names"}}
    \cup (IF format = "anthropic"
          THEN {[Plain EXCEPT !.effort = e, !.budget = b] :
                  e \in {"enabled", "disabled", "strange"}, b \in {0, MinBudget, 5, 7}}
               \cup {[Plain EXCEPT !.max = 0], [Plain EXCEPT !.max = 0, !.stream = TRUE]}
          ELSE {[Plain EXCEPT !.effort = e] : e \in {"high", "exotic", "blank"}})
    \cup (IF format = "responses" THEN {[Plain EXCEPT !.effort = "missing"]} ELSE {})
    \cup (IF format = "chat"
          THEN {[Plain EXCEPT !.extra = "usage", !.stream = s] : s \in BOOLEAN} ELSE {})

Flaws(k) ==
    CASE k = "text" -> {"none", "long"}
      [] k = "image" -> {"none", "bad"}
      [] k = "result" -> {"none", "bad", "odd"}
      [] k = "call" -> {"none", "bad", "twin"}
      [] OTHER -> {"none"}

Parts(d) == FlattenSeq([i \in 1..Len(d.messages) |-> d.messages[i].parts])

-----------------------------------------------------------------------------
(* What the client writes.                                                     *)

Roles == {"system", "user", "assistant"}
         \cup (IF format = "chat" THEN {"tool"} ELSE {})
         \cup (IF format = "responses" THEN {"item"} ELSE {})

\* The parts the wire types of each codec have in a message of a role.
ResponsesKinds(role) == {"text", "image"} \cup (IF role = "item" THEN {"result"} ELSE {})
ChatKinds(role) ==
    CASE role = "system" -> {"text"}
      [] role = "user" -> {"text", "image"}
      [] role = "assistant" -> {"text", "refusal", "call"}
      [] role = "tool" -> {"result"}
AnthropicKinds(role) ==
    CASE role = "system" -> {"text"}
      [] role = "user" -> {"text", "image", "document", "result"}
      [] role = "assistant" -> {"text", "call", "thinking"}
Kinds(role) ==
    CASE format = "responses" -> ResponsesKinds(role)
      [] format = "chat" -> ChatKinds(role)
      [] format = "anthropic" -> AnthropicKinds(role)

\* A part that is not of its message, or has a flaw: a client makes one such mistake.
Mistaken(role, part) == part.k \notin Kinds(role) \/ part.flaw # "none"

Init ==
    /\ format \in Formats
    /\ draft = [messages |-> <<>>, options |-> Plain, op |-> "text"]
    /\ canonical = <<>>
    /\ reply = [t |-> "none"]

Composing == canonical = <<>> /\ reply.t = "none"

\* A message, with no part yet; the system prompt of Anthropic is a field of its own and
\* comes first.
Message(role) ==
    /\ Composing
    /\ \A i \in 1..Len(draft.messages) : draft.messages[i].parts # <<>>
    /\ format = "anthropic" /\ role = "system" => draft.messages = <<>>
    /\ draft' = [draft EXCEPT !.messages = Append(@, [role |-> role, parts |-> <<>>])]
    /\ UNCHANGED <<format, canonical, reply>>

Part(k, flaw) ==
    /\ Composing
    /\ draft.messages # <<>>
    /\ Len(Parts(draft)) < MaxParts
    /\ Last(draft.messages).role \in {"tool", "item"} => Last(draft.messages).parts = <<>>
    /\ flaw = "twin" => \E i \in 1..Len(Last(draft.messages).parts) : Last(draft.messages).parts[i].k = "call"
    /\ Mistaken(Last(draft.messages).role, [k |-> k, flaw |-> flaw]) =>
          \A i \in 1..Len(draft.messages), j \in 1..MaxParts :
              j <= Len(draft.messages[i].parts) =>
                  ~Mistaken(draft.messages[i].role, draft.messages[i].parts[j])
    /\ LET last == Len(draft.messages)
           part == [k |-> k, n |-> Len(Parts(draft)) + 1, flaw |-> flaw]
       IN  draft' = [draft EXCEPT !.messages[last].parts = Append(@, part)]
    /\ UNCHANGED <<format, canonical, reply>>

-----------------------------------------------------------------------------
(* The inbound codecs.                                                         *)

\* The first error of a list of checks.
FirstError(errors) ==
    LET bad == {i \in 1..Len(errors) : errors[i] # ""}
    IN  IF bad = {} THEN "" ELSE errors[Min(bad)]
Unless(ok, error) == IF ok THEN "" ELSE error

\* A part of another role, or with a bad field, is an invalid request; to Anthropic an
\* unknown type is a capability the service lacks; a chat call has an identifier of its own.
ResponsesItemError(role, part) ==
    Unless(part.k \in ResponsesKinds(role) /\ part.flaw # "bad", "invalid")
ChatPartError(role, part) ==
    Unless(part.k \in ChatKinds(role) /\ part.flaw \notin {"bad", "twin"}, "invalid")
AnthropicBlockError(role, part) ==
    IF part.k = "unknown" THEN "unsupported"
    ELSE Unless(part.k \in AnthropicKinds(role) /\ part.flaw # "bad", "invalid")

PartError(role, part) ==
    CASE format = "responses" -> ResponsesItemError(role, part)
      [] format = "chat" -> ChatPartError(role, part)
      [] format = "anthropic" -> AnthropicBlockError(role, part)

ContentError(message) ==
    FirstError(<<Unless(message.parts # <<>> \/ format = "responses", "invalid")>>
               \o [i \in 1..Len(message.parts) |-> PartError(message.role, message.parts[i])])

MessagesError == FirstError([i \in 1..Len(draft.messages) |-> ContentError(draft.messages[i])])

\* A tool needs a name, and in a chat request one of its own.
ToolsError(tools) == Unless(\A i \in 1..Len(tools) : tools[i] # "bad", "invalid")
ChatToolsError(tools) ==
    Unless(IsInjective(tools) /\ \A i \in 1..Len(tools) : tools[i] \notin {"bad", "odd"}, "invalid")

ThinkingError(options, op) ==
    CASE options.effort = "absent" -> ""
      [] options.effort = "enabled" ->
            Unless(/\ options.budget >= MinBudget
                   /\ op = "text" => options.budget < options.max, "invalid")
      [] options.effort = "disabled" -> Unless(options.budget = 0, "invalid")
      [] OTHER -> "unsupported"

\* decode_message_with_limits: an answer needs a length, a token count takes none.
AnthropicError(options, op) ==
    FirstError(<<Unless(/\ \E i \in 1..Len(draft.messages) : draft.messages[i].role # "system"
                        /\ (op = "text") <=> (options.max > 0)
                        /\ op = "count" => ~options.stream, "invalid"),
                 MessagesError, ToolsError(options.tools), ThinkingError(options, op)>>)

ChatError(options) ==
    FirstError(<<Unless(/\ draft.messages # <<>>
                        /\ options.extra = "usage" => options.stream, "invalid"),
                 MessagesError, ChatToolsError(options.tools), Unless(options.effort # "blank", "invalid")>>)

ResponsesError(options) == FirstError(<<MessagesError, ToolsError(options.tools)>>)

DecodeError(options, op) ==
    CASE format = "responses" -> ResponsesError(options)
      [] format = "chat" -> ChatError(options)
      [] OTHER -> AnthropicError(options, op)

\* The parts that become input items: texts, images and tool results in their order; a
\* refusal is a text.  Calls, thinking and documents stay in the extensions.
Item(part) == [k |-> IF part.k = "refusal" THEN "text" ELSE part.k, n |-> part.n, flaw |-> part.flaw]
IsItem(part) == part.k \in {"text", "refusal", "image", "result"}
ItemsWithoutRefusals ==
    LET kept == SelectSeq(Parts(draft), LAMBDA p : p.k \in {"text", "image", "result"})
    IN  [i \in 1..Len(kept) |-> Item(kept[i])]
Items ==
    LET kept == SelectSeq(Parts(draft), IsItem) IN [i \in 1..Len(kept) |-> Item(kept[i])]

\* A client's own fields are extensions of the canonical request, except an Anthropic
\* client's, which stay in the retained request.
Extension(options) == IF format = "anthropic" THEN "none" ELSE options.extra

Canonical(options, op) ==
    [input |-> Items, tools |-> options.tools, stream |-> options.stream,
     effort |-> options.effort, budget |-> options.budget,
     extra |-> Extension(options), op |-> op]

\* validate_canonical_request
CanonicalError(request) ==
    Unless(/\ Len(request.input) <= MaxInput
           /\ request.effort # "blank", "invalid")

\* responses::validate_request
ExtensionError(request) ==
    Unless(format = "responses" => request.extra # "wrong", "invalid")

Refuse(error) == reply' = [t |-> "refused", error |-> error] /\ UNCHANGED canonical

\* The handler of a route decodes, validates and hands the request to the engine.
Decode(options, op) ==
    /\ Composing
    /\ Len(Parts(draft)) > PlainParts => options = Plain
    /\ op = "count" => format = "anthropic"
    /\ draft' = [draft EXCEPT !.options = options, !.op = op]
    /\ LET request == Canonical(options, op)
           error == FirstError(<<DecodeError(options, op), CanonicalError(request),
                                 ExtensionError(request)>>)
       IN  IF error # "" THEN Refuse(error)
           ELSE canonical' = <<request>> /\ UNCHANGED reply
    /\ UNCHANGED format

-----------------------------------------------------------------------------
(* The routed provider and its adapter.                                        *)

Standard == {"high"}
HasEffort(request) == request.effort \notin {"absent", "missing"}

\* RouteDecision::map_reasoning_effort
EffortOffered(p, effort) ==
    /\ p.reasoning
    /\ \/ effort \in DOMAIN p.map
       \/ effort \in IF p.efforts = {} THEN Standard ELSE p.efforts
map_reasoning_effort(p, effort) == IF effort \in DOMAIN p.map THEN p.map[effort] ELSE effort

\* validate_request of the adapter.
UpstreamError(request) ==
    Unless(/\ Len(request.input) <= MaxCollection
           /\ Len(request.tools) <= MaxCollection
           /\ \A i \in 1..Len(request.input) : request.input[i].flaw \notin {"long", "odd"}, "invalid")

\* Every tool's name is an identifier; an effort that must be written must be there.
ToolNameError(request) ==
    Unless(\A i \in 1..Len(request.tools) : request.tools[i] # "odd", "invalid")
EffortError(request) == Unless(request.effort # "missing", "unsupported")

\* One message, or one item, per input; a result refers to its call.
Each(request, result) ==
    [i \in 1..Len(request.input) |->
        LET item == request.input[i]
        IN  IF item.k = "result" THEN [role |-> result, parts |-> <<item>>]
            ELSE [role |-> "user", parts |-> <<item>>]]

Thinking(request) ==
    IF request.effort = "absent" THEN 0
    ELSE IF request.budget > 0 THEN request.budget ELSE MinBudget

Outbound(request, messages) ==
    [messages |-> messages, tools |-> request.tools, stream |-> request.stream,
     effort |-> request.effort, thinking |-> 0, max |-> 0]

build_openai_responses(request) ==
    [error |-> FirstError(<<ToolNameError(request), EffortError(request)>>),
     wire |-> Outbound(request, Each(request, "function_call_output"))]

\* Also the body of an Azure deployment.
encode_chat_body(request) ==
    [error |-> FirstError(<<ToolNameError(request), EffortError(request)>>),
     wire |-> Outbound(request, Each(request, "tool"))]

\* All of the input in one message of the user; any reasoning enables thinking.
build_anthropic(request) ==
    [error |-> ToolNameError(request),
     wire |-> [Outbound(request, <<[role |-> "user", parts |-> request.input]>>) EXCEPT
                  !.effort = "absent", !.thinking = Thinking(request),
                  !.stream = request.op = "text" /\ @,
                  !.max = IF request.op = "count" THEN 0
                          ELSE IF request.extra = "limit" THEN 2 ELSE DefaultMaxTokens]]

\* A result names its function, which only an extension of the client tells.
build_gemini(request) ==
    [error |-> FirstError(
         <<Unless(\A i \in 1..Len(request.input) :
                      request.input[i].k = "result" => request.extra = "names", "unsupported"),
           ToolNameError(request)>>),
     wire |-> [Outbound(request, <<[role |-> "user", parts |-> request.input]>>) EXCEPT
                  !.effort = "absent", !.thinking = Thinking(request)]]

build_request(up, request) ==
    CASE UpstreamError(request) # "" -> [error |-> UpstreamError(request)]
      [] up = "anthropic" -> build_anthropic(request)
      [] request.op = "count" -> [error |-> "unsupported"]
      [] up = "responses" -> build_openai_responses(request)
      [] up = "gemini" -> build_gemini(request)
      [] OTHER -> encode_chat_body(request)

\* execute_canonical up to the attempt, and the attempt's request: capabilities, a token
\* count the provider cannot give, the effort, the body.
Execute(p) ==
    /\ canonical # <<>>
    /\ LET request == canonical[1]
           mapped == IF HasEffort(request)
                     THEN [request EXCEPT !.effort = map_reasoning_effort(p, @)] ELSE request
           built == build_request(p.up, mapped)
       IN  reply' =
             CASE ~p.text -> [t |-> "refused", error |-> "unsupported"]
               [] request.op = "count" /\ ~p.count -> [t |-> "estimated"]
               [] HasEffort(request) /\ ~EffortOffered(p, request.effort) ->
                     [t |-> "refused", error |-> "unsupported"]
               [] built.error # "" -> [t |-> "refused", error |-> built.error]
               [] OTHER -> [t |-> "sent", provider |-> p, wire |-> built.wire]
    /\ canonical' = <<>>
    /\ UNCHANGED <<format, draft>>

Next ==
    \/ \E role \in Roles : Message(role)
    \/ \E k \in {"text", "refusal", "image", "document", "call", "result", "thinking", "unknown"} :
          \E flaw \in Flaws(k) : Part(k, flaw)
    \/ \E options \in Options, op \in {"text", "count"} : Decode(options, op)
    \/ \E p \in Providers : Execute(p)

-----------------------------------------------------------------------------
\* What a reader of the upstream's protocol finds, in its order.
Read(wire) ==
    LET parts == FlattenSeq([i \in 1..Len(wire.messages) |-> wire.messages[i].parts])
    IN  [i \in 1..Len(parts) |-> <<parts[i].k, parts[i].n>>]

\* What the client said that an upstream request has a place for.
Said ==
    LET ns == {i \in 1..Len(Parts(draft)) :
                  Parts(draft)[i].k \in {"text", "refusal", "image", "result"}}
        nth(j) == CHOOSE i \in ns : Cardinality({h \in ns : h <= i}) = j
    IN  [j \in 1..Cardinality(ns) |->
            <<IF Parts(draft)[nth(j)].k = "refusal" THEN "text" ELSE Parts(draft)[nth(j)].k, nth(j)>>]

\* A request that is sent holds what the client said, whole and in order, with its tools
\* and its mode, whichever of the protocols the client and the provider speak: nothing a
\* codec keeps aside is an input item, and no flawed part, twin or unnamed tool, effort the
\* provider does not offer or thinking budget below the least one reaches the upstream.
TranslationIsFaithful ==
    reply.t = "sent" =>
        LET wire == reply.wire
            p == reply.provider
        IN  /\ Read(wire) = Said
            /\ wire.tools = draft.options.tools
            /\ wire.stream = draft.options.stream
            /\ \A i \in 1..Len(Parts(draft)) :
                  LET part == Parts(draft)[i]
                  IN  part.flaw = "none" \/ (part.flaw = "twin" /\ format # "chat")
            /\ \A i \in 1..Len(wire.tools) : wire.tools[i] \notin {"bad", "odd"}
            /\ wire.effort # "absent" => wire.effort \in p.efforts \cup Standard
            /\ wire.thinking > 0 => wire.thinking >= MinBudget
            /\ (wire.effort # "absent" \/ wire.thinking > 0) <=> draft.options.effort # "absent"

\* Safety alone: a client that never finishes its request is the client's.
Spec == Init /\ [][Next]_translationVars
=============================================================================
