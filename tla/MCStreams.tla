----------------------------- MODULE MCStreams -----------------------------
(* The answers of the data plane: the frames of an event stream from its bytes, *)
(* a streamed request from the upstream to the client, and an answer in one     *)
(* piece.  They share no variable, so one of them runs.                         *)
EXTENDS Naturals

CONSTANTS Parts, Upstreams, Clients,
          MaxBody, MaxFrameBytes, MaxBodyFrames,
          MaxFrames, MaxChunk, Capacity, MaxOutput, MaxItems

VARIABLES part, sent, sse, frames, adapter, burst,
          up, dialect, raw, dec, pump, pending, chan, phase, codec, taken, out, outcome,
          exchange

\* The frames of each upstream, so that items, blocks and tool indexes are used before
\* they are announced, twice, for another call and after the end.
Frame(t, i, c, k) == [t |-> t, i |-> i, c |-> c, k |-> k, n |-> 0]
Plain(t) == Frame(t, 0, 0, "")
StreamFrames(p) ==
    {Plain("end"), Plain("error")} \cup
    CASE p = "responses" ->
            {Plain("created"), Frame("tool", 1, 1, ""), Frame("text", 2, 0, ""),
             Frame("args", 1, 0, "")}
      [] p = "anthropic" ->
            {Plain("created"), Frame("tool", 1, 1, ""), Frame("text", 2, 0, ""),
             Frame("delta", 1, 0, "tool"), Frame("delta", 2, 0, "text"),
             Frame("delta", 2, 0, "tool")}
      [] p = "chat" ->
            {Frame("tool", 1, 1, ""), Frame("tool", 2, 2, ""), Frame("tool", 1, 2, ""),
             Frame("args", 1, 0, ""), Plain("usage")}
      [] p = "gemini" ->
            {Frame("tool", 1, 1, ""), Plain("reasoning"), Plain("text"), Plain("usage")}

Body == INSTANCE SseStream WITH MaxFrames <- MaxBodyFrames
Relay == INSTANCE StreamRelay WITH Frames <- StreamFrames
Whole == INSTANCE CompleteAnswer

bodyVars == <<sent, sse, frames, adapter, burst>>
relayVars == <<up, dialect, raw, dec, pump, pending, chan, phase, codec, taken, out, outcome>>
vars == <<part, bodyVars, relayVars, exchange>>

NoBody == sent = 0 /\ sse = 0 /\ frames = 0 /\ adapter = 0 /\ burst = 0
NoRelay ==
    /\ up = 0 /\ dialect = 0 /\ raw = 0 /\ dec = 0 /\ pump = 0 /\ pending = 0 /\ chan = 0
    /\ phase = 0 /\ codec = 0 /\ taken = 0 /\ out = 0 /\ outcome = 0

Init ==
    /\ part \in Parts
    /\ IF part = "body" THEN Body!Init ELSE NoBody
    /\ IF part = "relay" THEN Relay!Init ELSE NoRelay
    /\ IF part = "whole" THEN Whole!Init ELSE exchange = 0

Next ==
    /\ UNCHANGED part
    /\ \/ part = "body" /\ Body!Next /\ UNCHANGED <<relayVars, exchange>>
       \/ part = "relay" /\ Relay!Next /\ UNCHANGED <<bodyVars, exchange>>
       \/ part = "whole" /\ Whole!Next /\ UNCHANGED <<bodyVars, relayVars>>

RelayStep == part = "relay" /\ Relay!Step /\ UNCHANGED <<part, bodyVars, exchange>>
Spec == Init /\ [][Next]_vars /\ WF_vars(RelayStep)

-----------------------------------------------------------------------------
\* SseStream: however the bytes are cut into chunks, the decoder gives the frames of the
\* body (SseDecoder::push, finish).
FramesAreExact == part = "body" => Body!FramesAreExact
\* StreamRelay: the client reads what the upstream wrote (pump_stream, encode_event): one
\* start, one end, items apart (the three codecs, emit_error).
DeliveredIsWhole ==
    part = "relay" => Relay!DeliveredIsWhole /\ Relay!ClientStreamIsWellFormed
\* StreamRelay: the stream and the complete answer agree (encode_event, encode_response).
\* CompleteAnswer: the answer is the message, or the message is refused for a reason.
AnswersAgree ==
    /\ part = "relay" => Relay!AggregateAgrees
    /\ part = "whole" => Whole!AnswerIsTheMessage
\* StreamRelay: every stream ends and its pump returns, whoever stops first: no task waits
\* on a full channel whose reader is gone (pump_stream, CancelOnDrop).
RelayEnds == part = "relay" => <>(part = "relay" => Relay!Ended)
=============================================================================
