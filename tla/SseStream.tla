------------------------------ MODULE SseStream ------------------------------
(* The upstream's event stream: a body cut into chunks by the network, the     *)
(* line-and-frame decoder (stream/sse.rs) and the adapter's decoder above it,   *)
(* which takes nothing more once it has seen the frame that ends the stream     *)
(* (outbound/azure.rs and gemini.rs: saw_done, saw_terminal).                   *)
(* A line is written with one token for its field and one for each byte of its  *)
(* value; CR and LF are bytes of their own, since a chunk may end between them. *)
EXTENDS Naturals, FiniteSets, Sequences, SequencesExt

CONSTANTS MaxBody,          \* bound on the body's length
          MaxFrameBytes,    \* max_frame_bytes
          MaxFrames         \* max_frames_per_push

VARIABLES sent,     \* the body received so far
          sse,      \* SseDecoder
          frames,   \* the frames it gave
          adapter,  \* the adapter's decoder: is it stopped, has it failed, has it finished
          burst     \* some chunk ended more frames than a push may give

vars == <<sent, sse, frames, adapter, burst>>

\* "data" and "done" begin a data line (the second one's value is [DONE], or holds the
\* finish reason), "event" an event line, "other" a comment or a field that is ignored.
Data == {"data", "done"}
Bytes == Data \cup {"event", "other", "bom", "CR", "LF"}

New == [line |-> <<>>, event |-> <<>>, data |-> <<>>, saw |-> FALSE, start |-> TRUE,
        failed |-> FALSE, skip |-> FALSE, count |-> FALSE, bytes |-> 0, out |-> <<>>]

-----------------------------------------------------------------------------
\* The decoder.  `out` holds the frames of the push that is going on.

AddBytes(s) == [s EXCEPT !.bytes = @ + 1, !.failed = @ \/ s.bytes + 1 > MaxFrameBytes]

\* A byte order mark at the start of the stream is no part of its first line.
Stripped(s) ==
    IF s.start /\ s.line # <<>> /\ Head(s.line) = "bom" THEN Tail(s.line) ELSE s.line

Emit(s) ==
    IF ~s.saw THEN [s EXCEPT !.event = <<>>, !.data = <<>>]
    ELSE IF Len(s.out) >= MaxFrames THEN [s EXCEPT !.failed = TRUE]
    ELSE [s EXCEPT !.out = Append(@, [event |-> s.event, data |-> s.data]),
                   !.event = <<>>, !.data = <<>>]

BlankKeepsBytes(s) == [Emit(s) EXCEPT !.saw = FALSE]
Blank(s) == [Emit(s) EXCEPT !.saw = FALSE, !.bytes = 0]

ProcessLine(s) ==
    LET line == Stripped(s)
        t == [s EXCEPT !.line = <<>>, !.start = FALSE] IN
    IF line = <<>> THEN Blank(t)
    ELSE IF Head(line) = "event" THEN [t EXCEPT !.event = <<Tail(line)>>]
    ELSE IF Head(line) \in Data THEN [t EXCEPT !.data = Append(@, line), !.saw = TRUE]
    ELSE t

OnCR(s) ==
    LET held == s.line # <<>>
        t == IF held THEN AddBytes(s) ELSE s IN
    IF t.failed THEN t ELSE [ProcessLine(t) EXCEPT !.skip = TRUE, !.count = held]

OnLF(s) ==
    LET t == IF s.line # <<>> THEN AddBytes(s) ELSE s IN
    IF t.failed THEN t ELSE ProcessLine(t)

OnByte(s, byte) ==
    LET t == [s EXCEPT !.skip = FALSE, !.count = FALSE] IN
    IF s.failed THEN s
    ELSE IF s.skip /\ byte = "LF" THEN IF s.count THEN AddBytes(t) ELSE t
    ELSE CASE byte = "CR" -> OnCR(t)
           [] byte = "LF" -> OnLF(t)
           [] OTHER -> LET u == AddBytes(t) IN
                       IF u.failed THEN u ELSE [u EXCEPT !.line = Append(@, byte)]

SsePush(s, chunk) == FoldLeft(OnByte, [s EXCEPT !.out = <<>>], chunk)

\* finish(): nothing of a frame may be left over.
SseFinishes(s) ==
    ~s.failed /\ s.line = <<>> /\ s.event = <<>> /\ s.data = <<>> /\ ~s.saw /\ s.bytes = 0

\* AzureStreamDecoder::push, GeminiStreamDecoder::push: the frame that ends the stream
\* stops the decoder; another frame after it, or another chunk, is an error.
IsLast(frame) == frame.data = << <<"done">> >>
LastAt(out) == {i \in DOMAIN out : IsLast(out[i])}

Open == [stopped |-> FALSE, failed |-> FALSE, finished |-> FALSE]

AdapterPush(a, s, chunk) ==
    IF a.stopped THEN [a EXCEPT !.failed = TRUE]
    ELSE LET t == SsePush(s, chunk)
             ends == LastAt(t.out) IN
         [a EXCEPT !.failed = t.failed \/ \E i \in ends : i < Len(t.out),
                   !.stopped = ends # {}]

-----------------------------------------------------------------------------
Init ==
    /\ sent = <<>> /\ sse = New /\ frames = <<>> /\ adapter = Open /\ burst = FALSE

\* The same body taken as a whole: its lines end at CR, at LF or at CR LF.
LineEnds(body) ==
    {i \in DOMAIN body : \/ body[i] = "CR"
                         \/ body[i] = "LF" /\ (i = 1 \/ body[i - 1] # "CR")}
Begin(body, end) ==
    LET before == {i \in LineEnds(body) : i < end} IN
    IF before = {} THEN 1
    ELSE LET last == CHOOSE i \in before : \A j \in before : j <= i IN
         IF body[last] = "CR" /\ last < Len(body) /\ body[last + 1] = "LF"
         THEN last + 2 ELSE last + 1
Content(body, end) ==
    LET begin == Begin(body, end)
        line == SubSeq(body, begin, end - 1) IN
    IF begin = 1 /\ line # <<>> /\ Head(line) = "bom" THEN Tail(line) ELSE line
BlankEnds(body) == {i \in LineEnds(body) : Content(body, i) = <<>>}

\* The lines of the frame that the blank line at `end` closes, in order.
LinesOf(body, end) ==
    LET start == LET before == {i \in BlankEnds(body) : i < end} IN
                 IF before = {} THEN 0 ELSE CHOOSE i \in before : \A j \in before : j <= i
        ends == {i \in LineEnds(body) : start < i /\ i < end} IN
    [k \in 1..Cardinality(ends) |->
        Content(body, CHOOSE i \in ends : Cardinality({j \in ends : j < i}) = k - 1)]

FrameOf(lines) ==
    LET events == {k \in DOMAIN lines : Head(lines[k]) = "event"} IN
    [event |-> IF events = {} THEN <<>>
               ELSE <<Tail(lines[CHOOSE k \in events : \A j \in events : j <= k])>>,
     data |-> SelectSeq(lines, LAMBDA line : Head(line) \in Data)]

WholeFrames(body) ==
    LET ends == {i \in BlankEnds(body) : FrameOf(LinesOf(body, i)).data # <<>>} IN
    [k \in 1..Cardinality(ends) |->
        FrameOf(LinesOf(body, CHOOSE i \in ends : Cardinality({j \in ends : j < i}) = k - 1))]

\* The bytes of the frame around position n, line ends of lines that hold something included.
Held(body, n) ==
    LET start == LET before == {i \in BlankEnds(body) : i <= n} IN
                 IF before = {} THEN 0 ELSE CHOOSE i \in before : \A j \in before : j <= i
        Counts(i) ==
            CASE body[i] = "CR" -> i > 1 /\ body[i - 1] \notin {"CR", "LF"}
              [] body[i] = "LF" ->
                    \/ i > 1 /\ body[i - 1] \notin {"CR", "LF"}
                    \/ i > 2 /\ body[i - 1] = "CR" /\ body[i - 2] \notin {"CR", "LF"}
              [] OTHER -> TRUE IN
    Cardinality({i \in (start + 1)..n : Counts(i)})
TooLarge(body) ==
    \E n \in DOMAIN body : n \notin BlankEnds(body) /\ Held(body, n) > MaxFrameBytes

-----------------------------------------------------------------------------
Push(chunk) ==
    /\ ~sse.failed /\ ~adapter.failed /\ ~adapter.finished
    /\ \A i \in DOMAIN chunk : chunk[i] = "bom" => Len(sent) + i = 1
    /\ sent' = sent \o chunk
    /\ LET s == SsePush(sse, chunk) IN
         /\ sse' = [s EXCEPT !.out = <<>>]
         /\ frames' = IF s.failed THEN frames ELSE frames \o s.out
    /\ adapter' = AdapterPush(adapter, sse, chunk)
    /\ burst' = (burst \/ Len(WholeFrames(sent')) - Len(WholeFrames(sent)) > MaxFrames)

Finish ==
    /\ ~adapter.failed /\ ~adapter.finished
    /\ adapter' = [adapter EXCEPT !.finished = TRUE, !.failed = ~(SseFinishes(sse) /\ adapter.stopped)]
    /\ UNCHANGED <<sent, sse, frames, burst>>

Next == (\E n \in 1..(MaxBody - Len(sent)) : \E chunk \in [1..n -> Bytes] : Push(chunk)) \/ Finish
Spec == Init /\ [][Next]_vars

-----------------------------------------------------------------------------
Complete(body) == Held(body, Len(body)) = 0

\* However the network cuts the body, the frames are those of the body read as a whole
\* (SseDecoder::push).  A push fails exactly when a frame is over its limit or one chunk
\* ends too many of them, and finish() takes exactly the bodies that end with a frame.  A
\* stream that the adapter's decoder has accepted to its end (AzureStreamDecoder::push and
\* finish) is such a body, and its last frame is the only one that ends a stream.
FramesAreExact ==
    /\ sse.failed = (TooLarge(sent) \/ burst)
    /\ ~sse.failed => frames = WholeFrames(sent)
    /\ ~sse.failed => SseFinishes(sse) = Complete(sent)
    /\ adapter.finished /\ ~adapter.failed => Complete(sent) /\ LastAt(frames) = {Len(frames)}
=============================================================================
