----------------------------- MODULE StreamRelay -----------------------------
(* One streamed request: the upstream writes frames in chunks, pump_stream      *)
(* decodes them and sends the events through a bounded channel, the attempt     *)
(* waits for the first event, and then the response body encodes what it polls   *)
(* for the client, who  may go away at any time (apps/wokcore/src/runtime.rs,     *)
(* data_plane/execute.rs, data_plane/stream.rs).                                *)
EXTENDS Naturals, FiniteSets, Sequences, SequencesExt, StreamCodecs

CONSTANTS Upstreams,    \* upstream protocols
          Clients,      \* client protocols
          Frames(_),    \* the frames an upstream may write
          MaxFrames,    \* bound on the frames of a stream
          MaxChunk,     \* bound on the frames of a chunk
          Capacity      \* UPSTREAM_STREAM_CHANNEL_CAPACITY

VARIABLES up,       \* upstream protocol
          dialect,  \* client protocol
          raw,      \* the frames written so far
          dec,      \* the decoder
          pump,     \* pump_stream: "reading", "sending", "last" (sends, then returns), "done"
          pending,  \* what it still has to send
          chan,     \* the channel
          phase,    \* the request: "waiting" for the first event, "streaming", "failed", "gone"
          codec,    \* the client codec
          taken,    \* the events the codec took
          out,      \* the wire events written
          outcome   \* what the stream's observation recorded

vars == <<up, dialect, raw, dec, pump, pending, chan, phase, codec, taken, out, outcome>>

Failure(why) == Event("failed", 0, 0, why)

Init ==
    /\ up \in Upstreams /\ dialect \in Clients
    /\ raw = <<>> /\ dec = NewDecoder /\ pump = "reading" /\ pending = <<>> /\ chan = <<>>
    /\ phase = "waiting" /\ codec = NewCodec /\ taken = <<>> /\ out = <<>> /\ outcome = "none"

Closed == phase \in {"failed", "gone"}      \* the receiver is dropped
Cancelled == Closed \/ outcome # "none"     \* CancelOnDrop, or the body is finished

\* Content is numbered in the order it is written.
Numbered(chunk) == [j \in DOMAIN chunk |-> [chunk[j] EXCEPT !.n = Len(raw) + j]]

-----------------------------------------------------------------------------
\* pump_stream

Decoded(d) ==
    /\ dec' = [d EXCEPT !.events = <<>>]
    /\ pending' = IF d.err = "none" THEN d.events ELSE <<Failure(d.err)>>

\* next_chunk gives a chunk; when the request is cancelled it gives the error instead.
Chunk ==
    /\ pump = "reading" /\ ~Cancelled
    /\ \E k \in 1..MaxChunk : \E chunk \in [1..k -> Frames(up)] :
        /\ Len(raw) + k <= MaxFrames
        /\ raw' = raw \o Numbered(chunk)
        /\ LET d == DecodePush(up, dec, Numbered(chunk)) IN
             /\ Decoded(d)
             /\ pump' = IF d.err = "none" THEN "sending" ELSE "last"
    /\ UNCHANGED <<up, dialect, chan, phase, codec, taken, out, outcome>>

EndOfBody ==
    /\ pump = "reading" /\ ~Cancelled
    /\ Decoded(DecodeFinish(up, dec)) /\ pump' = "last"
    /\ UNCHANGED <<up, dialect, raw, chan, phase, codec, taken, out, outcome>>

\* A transport error or a timeout, or the cancellation.
ReadFails ==
    /\ pump = "reading"
    /\ pending' = <<Failure(IF Cancelled THEN "Cancelled" ELSE "Timeout")>> /\ pump' = "last"
    /\ UNCHANGED <<up, dialect, raw, dec, chan, phase, codec, taken, out, outcome>>

SendWaits ==
    /\ pump \in {"sending", "last"} /\ pending # <<>>
    /\ Len(chan) < Capacity
    /\ chan' = (IF Closed THEN chan ELSE Append(chan, Head(pending)))
    /\ pending' = (IF Closed THEN pending ELSE Tail(pending))
    /\ UNCHANGED <<up, dialect, raw, dec, pump, phase, codec, taken, out, outcome>>

\* send_event or send_failure; once the receiver is gone the pump returns.
Send ==
    /\ pump \in {"sending", "last"} /\ pending # <<>>
    /\ IF Closed THEN pump' = "done" /\ pending' = <<>> /\ UNCHANGED chan
       ELSE /\ Len(chan) < Capacity
            /\ chan' = Append(chan, Head(pending)) /\ pending' = Tail(pending) /\ UNCHANGED pump
    /\ UNCHANGED <<up, dialect, raw, dec, phase, codec, taken, out, outcome>>

\* send_event refuses an event whose identifiers or content are over the channel's limits
\* and the pump returns without a word.
Rejects ==
    /\ pump \in {"sending", "last"} /\ pending # <<>>
    /\ Head(pending).k \in {"text", "reasoning", "tool"}
    /\ pump' = "done" /\ pending' = <<>>
    /\ UNCHANGED <<up, dialect, raw, dec, chan, phase, codec, taken, out, outcome>>

Sent ==
    /\ pump \in {"sending", "last"} /\ pending = <<>>
    /\ pump' = IF pump = "sending" THEN "reading" ELSE "done"
    /\ UNCHANGED <<up, dialect, raw, dec, pending, chan, phase, codec, taken, out, outcome>>

-----------------------------------------------------------------------------
\* When the receiver is dropped nothing reads the stream any more.
Forgotten ==
    chan' = <<>> /\ raw' = <<>> /\ dec' = NewDecoder /\ codec' = NewCodec /\ taken' = <<>> /\ out' = <<>>

\* RequestAttempt::execute waits for the first item; only Created makes a stream, and the
\* body takes that event at its first poll.
First ==
    /\ phase = "waiting"
    /\ IF chan # <<>> /\ Head(chan).k = "created"
       THEN /\ phase' = "streaming" /\ chan' = Tail(chan)
            /\ LET c == Encode(dialect, codec, Head(chan)) IN
                 codec' = [c EXCEPT !.wires = <<>>] /\ out' = c.wires
            /\ taken' = <<Head(chan)>> /\ UNCHANGED <<raw, dec>>
       ELSE /\ chan # <<>> \/ pump = "done"
            /\ phase' = "failed" /\ Forgotten
    /\ UNCHANGED <<up, dialect, pump, pending, outcome>>

OutcomeOf(why) ==
    CASE why = "MalformedResponse" -> "protocol_error"
      [] why = "Cancelled" -> "cancelled"
      [] OTHER -> "upstream_error"

\* emit_error
EmitError(c, what) ==
    LET f == Encode(dialect, c, Failure("x")) IN
    /\ codec' = [f EXCEPT !.wires = <<>>] /\ out' = out \o f.wires
    /\ outcome' = what

\* encode_event
EncodeEvent(e) ==
    LET c == Encode(dialect, codec, e) IN
    IF c.ok
    THEN /\ codec' = [c EXCEPT !.wires = <<>>] /\ out' = out \o c.wires
         /\ taken' = Append(taken, e)
         /\ outcome' = IF e.k = "completed" THEN "completed" ELSE outcome
    ELSE EmitError(c, "protocol_error") /\ UNCHANGED taken

\* poll_next: an item of the channel, or its end.
Poll ==
    /\ phase = "streaming" /\ outcome = "none"
    /\ \/ /\ chan # <<>> /\ chan' = Tail(chan)
          /\ IF Head(chan).k = "failed"
             THEN EmitError(codec, OutcomeOf(Head(chan).n)) /\ UNCHANGED taken
             ELSE EncodeEvent(Head(chan))
       \/ /\ chan = <<>> /\ pump = "done"
          /\ EmitError(codec, "protocol_error") /\ UNCHANGED <<chan, taken>>
    /\ UNCHANGED <<up, dialect, raw, dec, pump, pending, phase>>

\* The server drops the body when it is finished, and when the client goes away; a request
\* that still waits is dropped the same way.
Drop ==
    /\ phase \in {"waiting", "streaming"}
    /\ phase' = "gone"
    /\ outcome' = IF phase = "streaming" /\ outcome = "none" THEN "cancelled" ELSE outcome
    /\ Forgotten
    /\ UNCHANGED <<up, dialect, pump, pending>>

Ended == Closed /\ pump = "done"

Next ==
    Chunk \/ EndOfBody \/ ReadFails \/ Send \/ Rejects \/ Sent \/ First \/ Poll \/ Drop
Spec == Init /\ [][Next]_vars

\* The upstream answers or its timeouts run out; the pump's task runs; and the server
\* drops a body that is finished.
Step == EndOfBody \/ ReadFails \/ Send \/ Sent \/ First \/ Poll \/ (outcome # "none" /\ Drop)
Fairness == WF_vars(Step)

-----------------------------------------------------------------------------
\* The content the upstream wrote before its first end: the kind of each piece and the
\* call its item, block or index was last named with.
IsContent(f) ==
    CASE up = "anthropic" -> f.t = "delta"
      [] up = "responses" -> f.t \in {"text", "reasoning", "args"}
      [] OTHER -> f.t \in {"text", "reasoning", "tool", "args"}
KindOf(f) == IF f.t = "delta" THEN f.k ELSE IF f.t = "args" THEN "tool" ELSE f.t
CallOf(j) ==
    LET f == raw[j]
        named == {x \in 1..j : raw[x].t = "tool" /\ raw[x].i = f.i} IN
    IF KindOf(f) # "tool" THEN 0
    ELSE IF named = {} THEN 0 ELSE raw[CHOOSE x \in named : \A y \in named : y <= x].c
Written ==
    LET ends == {j \in DOMAIN raw : raw[j].t = "end"}
        places == SelectSeq([j \in DOMAIN raw |-> j],
                            LAMBDA j : IsContent(raw[j]) /\ \A x \in ends : j < x) IN
    [x \in DOMAIN places |-> [k |-> KindOf(raw[places[x]]), call |-> CallOf(places[x]),
                              n |-> places[x]]]

\* What a client reads from the wire events: each delta belongs to the item, tool or block
\* that was announced under its index.
AnnouncedAt(at) ==
    CHOOSE v \in Range(out) : /\ v.k \in {"added", "block_start"} \/ (v.k = "tool" /\ v.call # 0)
                              /\ v.at = at
ReadAs(w) ==
    CASE w.k = "content" -> [k |-> "text", call |-> 0, n |-> w.n]
      [] w.k = "tool" -> [k |-> "tool", call |-> AnnouncedAt(w.at).call, n |-> w.n]
      [] OTHER -> [k |-> AnnouncedAt(w.at).n, call |-> AnnouncedAt(w.at).call, n |-> w.n]
Read ==
    LET deltas == SelectSeq(out, LAMBDA w : w.k \in {"delta", "content", "tool", "block_delta"}) IN
    [x \in DOMAIN deltas |-> ReadAs(deltas[x])]

\* What the client reads is what the upstream wrote, in its order, each piece once and
\* under its call, up to where the stream failed; all of it when the stream completed
\* (pump_stream, the decoders' push, CanonicalSseStream::encode_event).
DeliveredIsWhole ==
    /\ IsPrefix(Read, Written)
    /\ phase = "streaming" /\ outcome = "completed" => Read = Written

Starts == {"created", "role", "message_start"}
Good == {"completed", "usage", "message_stop"}

\* The ends of a stream: how the three protocols say that it is complete, or failed.
EndsWell == out # <<>> /\ (out[Len(out)].k \in Good \/ (Len(out) > 1 /\ out[Len(out)].k = "[DONE]"
                                                       /\ out[Len(out) - 1].k = "usage"))
EndsBadly == out # <<>> /\ (out[Len(out)].k = "error" \/ (Len(out) > 1 /\ out[Len(out)].k = "[DONE]"
                                                         /\ out[Len(out) - 1].k = "error"))

BlocksNest ==
    \A x \in DOMAIN out :
        LET opened == {y \in 1..(x - 1) : out[y].k = "block_start"}
            closed == {y \in 1..(x - 1) : out[y].k = "block_stop"} IN
        /\ out[x].k = "block_start" =>
              Cardinality(opened) = Cardinality(closed) /\ out[x].at = Cardinality(opened)
        /\ out[x].k \in {"block_delta", "block_stop"} =>
              Cardinality(opened) = Cardinality(closed) + 1 /\ out[x].at = Cardinality(closed)
        /\ out[x].k = "message_delta" => Cardinality(opened) = Cardinality(closed)

DeltasOf(at) ==
    LET d == SelectSeq(out, LAMBDA w : w.k = "delta" /\ w.at = at) IN [x \in DOMAIN d |-> d[x].n]
ItemsAreSummedUp ==
    /\ \A x \in DOMAIN out : out[x].k \in {"text_done", "part_done", "item_done"} =>
          out[x].n = DeltasOf(out[x].at)
    /\ \A x, y \in DOMAIN out : out[x].k = "added" /\ out[y].k = "added" /\ x < y =>
          out[x].at < out[y].at

\* A stream starts once, numbers its events without a gap, keeps its items and blocks
\* apart, and tells its end exactly once, with nothing after it; the end told is the one
\* that is counted (the three codecs, emit_error and finish).
ClientStreamIsWellFormed ==
    /\ \A x \in DOMAIN out : (out[x].k \in Starts) = (x = 1)
    /\ dialect = "responses" => \A x \in DOMAIN out : out[x].seq = x
    /\ BlocksNest /\ ItemsAreSummedUp
    /\ phase = "streaming" /\ outcome = "completed" => EndsWell
    /\ phase = "streaming" /\ outcome \notin {"none", "completed"} => EndsBadly
    /\ outcome = "none" =>
          \A x \in DOMAIN out : out[x].k \notin {"error", "[DONE]", "completed", "message_stop"}
    /\ Cardinality({x \in DOMAIN out : out[x].k \in {"error", "completed", "finish", "message_stop"}})
          <= 1

\* The content of an answer, item by item and piece by piece.
Grouped(items) ==
    [x \in DOMAIN items |-> [k |-> items[x].k, call |-> items[x].call, text |-> items[x].text]]

\* A stream that completed and the complete answer built from the same events hold the
\* same items; only the Anthropic aggregator refuses an answer without any
\* (ResponsesCodec::encode_response, ChatResponseAggregator, AnthropicResponseAggregator).
AggregateAgrees ==
    phase = "streaming" /\ outcome = "completed" =>
        LET answer == Answer(dialect, taken) IN
        IF dialect = "anthropic" /\ codec.output = <<>> THEN ~answer.ok
        ELSE answer.ok /\ answer.terminal /\ Grouped(answer.output) = Grouped(codec.output)
=============================================================================
