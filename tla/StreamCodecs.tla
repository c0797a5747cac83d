---------------------------- MODULE StreamCodecs ----------------------------
(* What the four upstream stream decoders make of the frames of a chunk: the    *)
(* canonical events, or the error that ends the stream (upstream/mod.rs,        *)
(* outbound/azure.rs, outbound/gemini.rs).                                      *)
(* A frame says its type, the item, block or tool index it is about, the call   *)
(* identifier it names and the piece of content it carries, numbered in the     *)
(* order the upstream writes them.  Sizes are within the limits.                *)
(*                                                                              *)
(* The three client codecs: the wire events they write for each canonical event *)
(* of a stream, and the complete answers their aggregators build from the same   *)
(* events (outbound/openai_responses.rs, openai_chat.rs, anthropic.rs).          *)
(* `output` is the codec's record of the items so far, in the order they first   *)
(* came, with the pieces of each.  Byte limits are not reached; item limits are  *)
(* MaxOutput.                                                                    *)
EXTENDS Naturals, FiniteSets, Sequences, SequencesExt

CONSTANT MaxOutput      \* max_output_items

Event(k, item, call, n) == [k |-> k, item |-> item, call |-> call, n |-> n]
Created == Event("created", 0, 0, 0)
Usage == Event("usage", 0, 0, 0)
Completed == Event("completed", 0, 0, 0)

\* `tools` is the table of items, blocks or tool indexes: kind, item and call of each.
NewDecoder ==
    [created |-> FALSE, stopped |-> FALSE, next |-> 0, usage |-> FALSE, tools |-> <<>>,
     events |-> <<>>, err |-> "none"]

Fail(d, why) == [d EXCEPT !.err = why]
Malformed(d) == Fail(d, "MalformedResponse")
Give(d, e) == [d EXCEPT !.events = Append(@, e)]
Has(d, i) == \E t \in Range(d.tools) : t.i = i
Of(d, i) == CHOOSE t \in Range(d.tools) : t.i = i
Put(d, t) == [d EXCEPT !.tools = Append(SelectSeq(@, LAMBDA o : o.i # t.i), t)]

RequireCreated(d, then) == IF d.created THEN then ELSE Malformed(d)
Finishing(d) == [Give(Give(d, Usage), Completed) EXCEPT !.stopped = TRUE]

\* ResponsesStreamDecoder::decode_event
Responses(d, f) ==
    CASE f.t = "created" -> IF d.created THEN Malformed(d)
                            ELSE [Give(d, Created) EXCEPT !.created = TRUE]
      [] f.t = "tool" -> Put(d, [i |-> f.i, k |-> "tool", item |-> f.i, call |-> f.c])
      [] f.t \in {"text", "reasoning"} -> RequireCreated(d, Give(d, Event(f.t, f.i, 0, f.n)))
      [] f.t = "args" ->
            RequireCreated(d, IF Has(d, f.i)
                              THEN Give(d, Event("tool", f.i, Of(d, f.i).call, f.n))
                              ELSE Malformed(d))
      [] f.t = "end" -> RequireCreated(d, Finishing(d))
      [] f.t = "error" -> Fail(d, "Server")
      [] OTHER -> d

\* AnthropicStreamDecoder::decode_event.  "text", "reasoning" and "tool" start a block;
\* "delta" carries a piece of the kind f.k.
Anthropic(d, f) ==
    CASE f.t = "created" -> IF d.created THEN Malformed(d)
                            ELSE [Give(d, Created) EXCEPT !.created = TRUE]
      [] f.t \in {"text", "reasoning", "tool"} ->
            RequireCreated(d, IF Has(d, f.i) THEN Malformed(d)
                              ELSE Put(d, [i |-> f.i, k |-> f.t, item |-> f.i, call |-> f.c]))
      [] f.t = "delta" ->
            RequireCreated(d, IF Has(d, f.i) /\ Of(d, f.i).k = f.k
                              THEN Give(d, Event(f.k, f.i, Of(d, f.i).call, f.n))
                              ELSE Malformed(d))
      [] f.t = "end" -> RequireCreated(d, Finishing(d))
      [] f.t = "error" -> Fail(d, "Server")
      [] OTHER -> RequireCreated(d, d)

EnsureCreated(d) == IF d.created THEN d ELSE [Give(d, Created) EXCEPT !.created = TRUE]
NextItem(d, k, call, n) == [Give(d, Event(k, d.next, call, n)) EXCEPT !.next = @ + 1]

\* register_tool: an index keeps the call it was first given.
RegisterTool(d, f) ==
    IF ~Has(d, f.i)
    THEN [Put(d, [i |-> f.i, k |-> "tool", item |-> d.next, call |-> f.c]) EXCEPT !.next = @ + 1]
    ELSE IF Of(d, f.i).call = f.c THEN d ELSE Malformed(d)
EmitTool(d, f) ==
    IF d.err # "none" THEN d
    ELSE IF ~Has(d, f.i) THEN Malformed(d)
    ELSE Give(d, Event("tool", Of(d, f.i).item, Of(d, f.i).call, f.n))

\* AzureResponseDecoder: text and reasoning get an item each, a tool one for its index.
PushText(d, f) == NextItem(d, f.t, 0, f.n)
PushToolDelta(d, f) == EmitTool(IF f.t = "tool" THEN RegisterTool(d, f) ELSE d, f)

DecodeStreamChunk(d, f) ==
    CASE f.t = "error" -> Fail(d, "Server")
      [] f.t \in {"text", "reasoning"} -> PushText(EnsureCreated(d), f)
      [] f.t \in {"tool", "args"} -> PushToolDelta(EnsureCreated(d), f)
      [] f.t = "usage" -> [EnsureCreated(d) EXCEPT !.usage = TRUE]
      [] OTHER -> EnsureCreated(d)

\* AzureStreamDecoder::push for one frame: nothing may follow [DONE].
Chat(d, f) ==
    CASE d.stopped -> Malformed(d)
      [] f.t = "end" -> [d EXCEPT !.stopped = TRUE]
      [] OTHER -> DecodeStreamChunk(d, f)

\* GeminiResponseDecoder
DecodePart(d, f) == NextItem(d, f.t, IF f.t = "tool" THEN f.c ELSE 0, f.n)

\* decode_value; "end" is a frame with a finish reason.
Gemini(d, f) ==
    LET c == EnsureCreated(d) IN
    CASE d.stopped -> Malformed(d)
      [] f.t = "error" -> Fail(d, "Server")
      [] f.t \in {"text", "reasoning", "tool"} -> DecodePart(c, f)
      [] f.t = "usage" -> [c EXCEPT !.usage = TRUE]
      [] f.t = "end" -> [c EXCEPT !.stopped = TRUE]
      [] OTHER -> c

DecodeFrame(p, d, f) ==
    IF d.err # "none" THEN d
    ELSE CASE p = "responses" -> Responses(d, f)
           [] p = "anthropic" -> Anthropic(d, f)
           [] p = "chat" -> Chat(d, f)
           [] p = "gemini" -> Gemini(d, f)

DecodePushKeepsGoing(p, d, chunk) ==
    LET r == FoldLeft(LAMBDA s, f : IF DecodeFrame(p, s, f).err = "MalformedResponse" THEN s
                                    ELSE DecodeFrame(p, s, f),
                      [d EXCEPT !.events = <<>>], chunk) IN
    IF r.err = "none" THEN r ELSE [r EXCEPT !.events = <<>>]

\* push(): no chunk is taken after the end, and a chunk that fails gives no events.
DecodePush(p, d, chunk) ==
    IF d.stopped THEN Malformed(d)
    ELSE LET r == FoldLeft(LAMBDA s, f : DecodeFrame(p, s, f), [d EXCEPT !.events = <<>>], chunk) IN
         IF r.err = "none" THEN r ELSE [r EXCEPT !.events = <<>>]
\* finish(): the end must have been seen.  The chat and Gemini decoders give the usage,
\* if there was any, and the completion only now.
Ending(d) ==
    LET c == EnsureCreated(d) IN Give(IF d.usage THEN Give(c, Usage) ELSE c, Completed)
DecodeFinish(p, d) ==
    LET e == [d EXCEPT !.events = <<>>] IN
    IF ~d.stopped THEN Malformed(e)
    ELSE IF p \in {"responses", "anthropic"} THEN e
    ELSE Ending(e)
-----------------------------------------------------------------------------


NewCodec ==
    [terminal |-> FALSE, created |-> FALSE, usage |-> FALSE, output |-> <<>>, active |-> 0,
     seq |-> 1, wires |-> <<>>, ok |-> TRUE]

Refuse(c) == [c EXCEPT !.ok = FALSE]
Wire(c, k, at, call, n) ==
    [c EXCEPT !.wires = Append(@, [k |-> k, at |-> at, call |-> call, n |-> n, seq |-> c.seq]),
              !.seq = @ + 1]

Find(c, item) == {x \in DOMAIN c.output : c.output[x].item = item}
Index(c, item) == CHOOSE x \in Find(c, item) : TRUE
HasCall(c, call) == \E x \in DOMAIN c.output : c.output[x].k = "tool" /\ c.output[x].call = call
NewItem(c, e) ==
    [c EXCEPT !.output = Append(@, [item |-> e.item, k |-> e.k, call |-> e.call, text |-> <<e.n>>])]
MoreOf(c, x, n) == [c EXCEPT !.output[x].text = Append(@, n)]

DeltaAllowed(c) == c.created /\ ~c.usage

\* find_output and append_*: an item keeps its kind, and a tool its call; a new tool needs
\* a call that no other item has.
Fits(c, e) ==
    IF Find(c, e.item) # {}
    THEN LET o == c.output[Index(c, e.item)] IN o.k = e.k /\ o.call = e.call
    ELSE Len(c.output) < MaxOutput /\ (e.k = "tool" => ~HasCall(c, e.call))
Appended(c, e) ==
    IF Find(c, e.item) # {} THEN MoreOf(c, Index(c, e.item), e.n) ELSE NewItem(c, e)

-----------------------------------------------------------------------------
\* ResponsesCodec

ResponsesDelta(c, e) ==
    LET new == Find(c, e.item) = {}
        a == Appended(c, e)
        x == Index(a, e.item)
        b == IF new THEN Wire(a, "added", x, e.call, e.k) ELSE a
        p == IF new /\ e.k # "tool" THEN Wire(b, "part", x, 0, 0) ELSE b IN
    IF DeltaAllowed(c) /\ Fits(c, e) THEN Wire(p, "delta", x, 0, e.n) ELSE Refuse(c)

ResponsesDone(c, x) ==
    LET o == c.output[x]
        t == Wire(c, "text_done", x, 0, o.text)
        p == IF o.k # "tool" THEN Wire(t, "part_done", x, 0, o.text) ELSE t IN
    Wire(p, "item_done", x, o.call, o.text)

ResponsesCompleted(c) ==
    IF ~c.created \/ ~c.usage THEN Refuse(c)
    ELSE LET done == FoldLeft(LAMBDA s, x : ResponsesDone(s, x), c,
                              [x \in DOMAIN c.output |-> x]) IN
         [Wire(done, "completed", 0, 0, c.output) EXCEPT !.terminal = TRUE]

\* encode_event; a failure is told with one error event.
ResponsesEncode(c, e) ==
    CASE c.terminal -> Refuse(c)
      [] e.k = "created" -> IF c.created THEN Refuse(c)
                            ELSE Wire([c EXCEPT !.created = TRUE], "created", 0, 0, 0)
      [] e.k \in {"text", "reasoning", "tool"} -> ResponsesDelta(c, e)
      [] e.k = "usage" -> IF ~c.created \/ c.usage THEN Refuse(c) ELSE [c EXCEPT !.usage = TRUE]
      [] e.k = "completed" -> ResponsesCompleted(c)
      [] e.k = "failed" -> [Wire(c, "error", 0, 0, 0) EXCEPT !.terminal = TRUE]

-----------------------------------------------------------------------------
\* ChatCodec: one chunk per delta; a tool is named by its place among the tools, and only
\* its first chunk says the call.

ToolAt(c, x) == Cardinality({y \in 1..x : c.output[y].k = "tool"}) - 1

ChatDelta(c, e) ==
    LET new == Find(c, e.item) = {}
        a == Appended(c, e)
        x == Index(a, e.item) IN
    IF e.k = "reasoning" \/ ~DeltaAllowed(c) \/ ~Fits(c, e) THEN Refuse(c)
    ELSE IF e.k = "text" THEN Wire(a, "content", 0, 0, e.n)
    ELSE Wire(a, "tool", ToolAt(a, x), IF new THEN e.call ELSE 0, e.n)

ChatCompleted(c) ==
    IF ~c.created \/ ~c.usage THEN Refuse(c)
    ELSE [Wire(Wire(Wire(c, "finish", 0, 0, 0), "usage", 0, 0, 0), "[DONE]", 0, 0, 0)
             EXCEPT !.terminal = TRUE]

ChatEncode(c, e) ==
    CASE c.terminal -> Refuse(c)
      [] e.k = "created" -> IF c.created THEN Refuse(c)
                            ELSE Wire([c EXCEPT !.created = TRUE], "role", 0, 0, 0)
      [] e.k \in {"text", "reasoning", "tool"} -> ChatDelta(c, e)
      [] e.k = "usage" -> IF ~c.created \/ c.usage THEN Refuse(c) ELSE [c EXCEPT !.usage = TRUE]
      [] e.k = "completed" -> ChatCompleted(c)
      [] e.k = "failed" ->
            [Wire(Wire(c, "error", 0, 0, 0), "[DONE]", 0, 0, 0) EXCEPT !.terminal = TRUE]

-----------------------------------------------------------------------------
\* AnthropicCodec: one block is open at a time.  An item that was closed does not open
\* again.  A reasoning item needs a signature, and the upstream stream carries none.

CloseActive(c) ==
    IF c.active = 0 THEN c
    ELSE [Wire(c, "block_stop", c.active - 1, 0, 0) EXCEPT !.active = 0]

IsActive(c, e) ==
    /\ c.active # 0
    /\ c.output[c.active].item = e.item /\ c.output[c.active].k = e.k
    /\ c.output[c.active].call = e.call

Activate(c, e) ==
    LET closed == CloseActive(c)
        a == NewItem(closed, e) IN
    IF \/ e.k = "tool" /\ HasCall(c, e.call)
       \/ Len(c.output) >= MaxOutput
       \/ Find(c, e.item) # {}
    THEN [Refuse(closed) EXCEPT !.wires = c.wires, !.seq = c.seq]
    ELSE [Wire(a, "block_start", Len(a.output) - 1, e.call, e.k) EXCEPT !.active = Len(a.output)]

AnthropicDelta(c, e) ==
    IF ~DeltaAllowed(c) THEN Refuse(c)
    ELSE IF IsActive(c, e) THEN Wire(MoreOf(c, c.active, e.n), "block_delta", c.active - 1, 0, e.n)
    ELSE IF e.k = "reasoning" THEN Refuse(c)
    ELSE LET a == Activate(c, e) IN
         IF a.ok THEN Wire(a, "block_delta", a.active - 1, 0, e.n) ELSE a

AnthropicEncode(c, e) ==
    CASE c.terminal -> Refuse(c)
      [] e.k = "created" -> IF c.created THEN Refuse(c)
                            ELSE Wire([c EXCEPT !.created = TRUE], "message_start", 0, 0, 0)
      [] e.k \in {"text", "reasoning", "tool"} -> AnthropicDelta(c, e)
      [] e.k = "usage" -> IF ~c.created \/ c.usage THEN Refuse(c)
                          ELSE [Wire(CloseActive(c), "message_delta", 0, 0, 0) EXCEPT !.usage = TRUE]
      [] e.k = "completed" ->
            IF ~c.created \/ ~c.usage \/ c.active # 0 THEN Refuse(c)
            ELSE [Wire(c, "message_stop", 0, 0, 0) EXCEPT !.terminal = TRUE]
      [] e.k = "failed" -> [Wire(c, "error", 0, 0, 0) EXCEPT !.terminal = TRUE]

\* ClientStreamCodec::encode: what one event adds, and whether it was taken.
Encode(p, codec, e) ==
    LET c == [codec EXCEPT !.ok = TRUE, !.wires = <<>>] IN
    CASE p = "responses" -> ResponsesEncode(c, e)
      [] p = "chat" -> ChatEncode(c, e)
      [] p = "anthropic" -> AnthropicEncode(c, e)

-----------------------------------------------------------------------------
\* The complete answers.  Each aggregator takes the events one by one and refuses where
\* its code does; `output` is then the answer's content.

AggregateItemLast(p, c, e) ==
    IF (p = "chat" /\ e.k = "reasoning") \/ ~DeltaAllowed(c) \/ ~Fits(c, e) THEN Refuse(c)
    ELSE IF Find(c, e.item) # {} THEN MoreOf(c, Len(c.output), e.n) ELSE NewItem(c, e)

\* ChatResponseAggregator, and ResponsesCodec::encode_response, which replays the codec.
AggregateItem(p, c, e) ==
    IF (p = "chat" /\ e.k = "reasoning") \/ ~DeltaAllowed(c) \/ ~Fits(c, e) THEN Refuse(c)
    ELSE Appended(c, e)

\* AnthropicResponseAggregator: only the last item grows.
AggregateBlock(c, e) ==
    LET n == Len(c.output) IN
    IF ~DeltaAllowed(c) \/ e.k = "reasoning" THEN Refuse(c)
    ELSE IF n > 0 /\ c.output[n].item = e.item /\ c.output[n].k = e.k /\ c.output[n].call = e.call
         THEN MoreOf(c, n, e.n)
    ELSE IF n >= MaxOutput \/ Find(c, e.item) # {} \/ (e.k = "tool" /\ HasCall(c, e.call))
         THEN Refuse(c)
    ELSE NewItem(c, e)

Aggregate(p, c, e) ==
    CASE ~c.ok \/ c.terminal -> Refuse(c)
      [] e.k = "created" -> IF c.created THEN Refuse(c) ELSE [c EXCEPT !.created = TRUE]
      [] e.k \in {"text", "reasoning", "tool"} ->
            IF p = "anthropic" THEN AggregateBlock(c, e) ELSE AggregateItem(p, c, e)
      [] e.k = "usage" -> IF ~c.created \/ c.usage THEN Refuse(c) ELSE [c EXCEPT !.usage = TRUE]
      [] e.k = "completed" ->
            IF ~c.created \/ ~c.usage \/ (p = "anthropic" /\ c.output = <<>>) THEN Refuse(c)
            ELSE [c EXCEPT !.terminal = TRUE]

Answer(p, events) == FoldLeft(LAMBDA c, e : Aggregate(p, c, e), NewCodec, events)
=============================================================================
