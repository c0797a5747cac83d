--------------------------- MODULE CompleteAnswer ---------------------------
(* A request that is not streamed: the upstream's one message is decoded to     *)
(* canonical events, the events are checked, and the client's codec builds its   *)
(* answer from them (upstream/mod.rs, outbound/azure.rs, outbound/gemini.rs,     *)
(* data_plane/execute.rs, data_plane/{responses,chat,anthropic}.rs).             *)
EXTENDS Naturals, FiniteSets, Sequences, SequencesExt, StreamCodecs

CONSTANTS Upstreams, Clients,
          MaxItems      \* bound on the items of a message

VARIABLE exchange

\* An item of the message: text or reasoning in one or two parts, a tool call, or
\* something the decoders do not know.
Items == {[k |-> "text", call |-> 0, parts |-> 1], [k |-> "text", call |-> 0, parts |-> 2],
          [k |-> "reasoning", call |-> 0, parts |-> 1], [k |-> "tool", call |-> 1, parts |-> 1],
          [k |-> "tool", call |-> 2, parts |-> 1], [k |-> "other", call |-> 0, parts |-> 1]}

\* The message of a chat completion is one choice: a content, a reasoning, then its calls.
Rank(k) == CASE k = "text" -> 1 [] k = "reasoning" -> 2 [] OTHER -> 3
ChatMessage(items) ==
    /\ \A x \in DOMAIN items : items[x].k # "other" /\ items[x].parts = 1
    /\ \A x, y \in DOMAIN items : x < y =>
          /\ Rank(items[x].k) <= Rank(items[y].k)
          /\ items[x].k = items[y].k => items[x].k = "tool"

Init ==
    \E up \in Upstreams, client \in Clients, usage, error \in BOOLEAN, n \in 0..MaxItems :
        \E items \in [1..n -> Items] :
            /\ up = "chat" => ChatMessage(items)
            /\ exchange = [up |-> up, client |-> client, items |-> items, usage |-> usage,
                           error |-> error, step |-> "received", events |-> <<>>, answer |-> <<>>]

Piece(x, part) == 10 * x + part

\* decode_responses_output: every part of an item has the item's identifier
ResponsesItem(x, item) ==
    IF item.k = "other" THEN <<>>
    ELSE [part \in 1..item.parts |-> Event(item.k, x, item.call, Piece(x, part))]

ResponsesComplete(items) ==
    FlattenSeq([x \in DOMAIN items |-> ResponsesItem(x, items[x])]) \o <<Usage>>

\* decode_anthropic_complete, decode_part and push_text: one item for each block
Block(x, item) ==
    IF item.k = "other" THEN <<>>
    ELSE [part \in 1..item.parts |-> Event(item.k, Piece(x, part), item.call, Piece(x, part))]
Blocks(items) == FlattenSeq([x \in DOMAIN items |-> Block(x, items[x])])
AnthropicComplete(items) == Blocks(items) \o <<Usage>>

\* decode_non_stream and decode_value; without a usage in the message there is no event.
UsageOf(usage) == IF usage THEN <<Usage>> ELSE <<>>
ChatComplete(items, usage) ==
    LET kind(k) == SelectSeq(items, LAMBDA item : item.k = k) IN
    Blocks(kind("text") \o kind("reasoning") \o kind("tool")) \o UsageOf(usage)
GeminiComplete(items, usage) == Blocks(items) \o UsageOf(usage)

\* UpstreamAdapter::decode_response
DecodeResponse ==
    /\ exchange.step = "received"
    /\ exchange' =
         IF exchange.error THEN [exchange EXCEPT !.step = "failed"]
         ELSE [exchange EXCEPT !.step = "decoded", !.events = <<Created>> \o
                  (CASE exchange.up = "responses" -> ResponsesComplete(exchange.items)
                     [] exchange.up = "anthropic" -> AnthropicComplete(exchange.items)
                     [] exchange.up = "chat" -> ChatComplete(exchange.items, exchange.usage)
                     [] exchange.up = "gemini" -> GeminiComplete(exchange.items, exchange.usage))
                  \o <<Completed>>]

Count(events, k) == Cardinality({x \in DOMAIN events : events[x].k = k})

\* UpstreamExecutionResponse::events
CheckEvents ==
    /\ exchange.step = "decoded"
    /\ exchange' = [exchange EXCEPT !.step =
         IF /\ Head(exchange.events).k = "created" /\ Last(exchange.events).k = "completed"
            /\ \A k \in {"created", "usage", "completed"} : Count(exchange.events, k) = 1
         THEN "checked" ELSE "failed"]

\* encode, encode_message: the aggregator's answer, or its refusal
EncodeAnswer ==
    /\ exchange.step = "checked"
    /\ LET answer == Answer(exchange.client, exchange.events) IN
       exchange' = IF answer.ok /\ answer.terminal
                   THEN [exchange EXCEPT !.step = "answered", !.answer = answer.output]
                   ELSE [exchange EXCEPT !.step = "failed"]

Next == DecodeResponse \/ CheckEvents \/ EncodeAnswer
Spec == Init /\ [][Next]_exchange

-----------------------------------------------------------------------------
OfKind(items, k) == SelectSeq([x \in DOMAIN items |-> x], LAMBDA x : items[x].k = k)
Known == SelectSeq([x \in DOMAIN exchange.items |-> x], LAMBDA x : exchange.items[x].k # "other")
PiecesOf(k) ==
    FlattenSeq([j \in DOMAIN OfKind(exchange.items, k) |->
        LET x == OfKind(exchange.items, k)[j] IN
        [part \in 1..exchange.items[x].parts |-> <<exchange.items[x].call, Piece(x, part)>>]])
AnsweredOf(k) ==
    LET items == SelectSeq(exchange.answer, LAMBDA o : o.k = k) IN
    FlattenSeq([j \in DOMAIN items |->
        [y \in DOMAIN items[j].text |-> <<items[j].call, items[j].text[y]>>]])

Calls(items) == {x \in DOMAIN items : items[x].k = "tool"}
SharedCall == \E x, y \in Calls(exchange.items) :
                 x # y /\ exchange.items[x].call = exchange.items[y].call
Outputs ==
    IF exchange.up = "responses" THEN Len(Known)
    ELSE Len(PiecesOf("text")) + Len(PiecesOf("reasoning")) + Len(PiecesOf("tool"))

\* The answer holds the text, the reasoning and the tool calls of the message, each kind in
\* the message's order.  A message is refused exactly when it is an error, lacks the usage
\* that the chat and Gemini decoders do not make up, has reasoning the client's protocol
\* cannot carry, calls two tools under one identifier, has too many items, or is empty and
\* the client speaks Anthropic (the decoders and the three aggregators).
AnswerIsTheMessage ==
    /\ exchange.step = "answered" =>
          \A k \in {"text", "reasoning", "tool"} : AnsweredOf(k) = PiecesOf(k)
    /\ exchange.step = "failed" =>
          \/ exchange.error
          \/ ~exchange.usage /\ exchange.up \in {"chat", "gemini"}
          \/ exchange.client # "responses" /\ PiecesOf("reasoning") # <<>>
          \/ SharedCall
          \/ Outputs > MaxOutput
          \/ exchange.client = "anthropic" /\ Known = <<>>
=============================================================================
