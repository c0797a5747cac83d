----------------------------- MODULE ImageEdits -----------------------------
(***************************************************************************)
(* A multipart image edit on its way through the data plane: the fields    *)
(* read from the client into temporary files (data_plane/body.rs), the     *)
(* validation of the request (images.rs), and the upload whose length is   *)
(* announced before a task pumps the files into a bounded channel (apps/   *)
(* wokcore runtime.rs).  Sizes are numbers of bytes.                       *)
(***************************************************************************)
EXTENDS Naturals, Sequences, FiniteSets, SequencesExt, FiniteSetsExt

CONSTANTS
  MaxFields,   \* bound on the fields a client sends
  PartLimit,   \* IMAGE_PART_BODY_LIMIT
  TotalLimit,  \* IMAGE_MULTIPART_BODY_LIMIT
  TextLimit,   \* the largest text field
  WireLimit,   \* IMAGE_MULTIPART_WIRE_LIMIT
  ReadBytes,   \* MULTIPART_FILE_CHUNK_BYTES
  UploadCap    \* MULTIPART_CHANNEL_CAPACITY

VARIABLES
  stage,     \* reading, field, ready, uploading, done
  fields,    \* the fields read so far; the last one is growing in stage "field"
  temps,     \* the fields whose temporary file exists
  verdict,   \* none, accepted, or why the request ended
  pumping,   \* the segments the pump still has, with the bytes of each
  queue,     \* the upload channel
  wire       \* the bytes of each segment that the transport took

editVars == <<stage, fields, temps, verdict, pumping, queue, wire>>

File == {"image", "mask", "other"}  \* the names of files, after normalize_file_field
NoPump == [on |-> FALSE, next |-> 1, read |-> 0, open |-> FALSE]

Init ==
  /\ stage = "reading" /\ fields = <<>> /\ temps = {} /\ verdict = "none"
  /\ pumping = NoPump /\ queue = <<>> /\ wire = <<>>

\* The future or the pump is dropped: the files it owns are removed.
Refused(why) ==
  /\ stage' = "done" /\ verdict' = why /\ temps' = {}
  /\ UNCHANGED <<fields, pumping, queue, wire>>

\* A field with a file name gets a temporary file, which may not be created.
NextField ==
  /\ stage = "reading" /\ Len(fields) < MaxFields
  /\ \/ \E name \in File \cup {"text"} :
          /\ fields' = Append(fields, [name |-> name, bytes |-> 0])
          /\ temps' = temps \cup (IF name \in File THEN {Len(fields) + 1} ELSE {})
          /\ stage' = "field" /\ UNCHANGED <<verdict, pumping, queue, wire>>
     \/ Refused("invalid_body")

Bytes(f) == MapThenSumSet(LAMBDA i : f[i].bytes, DOMAIN f)

\* account_chunk, then the smaller limit of a text field
account_chunk(f) == f[Len(f)].bytes <= PartLimit /\ Bytes(f) <= TotalLimit
Fits(f) == account_chunk(f) /\ (f[Len(f)].name = "text" => f[Len(f)].bytes <= TextLimit)

FieldChunk ==
  /\ stage = "field"
  /\ \E size \in 1..PartLimit + 1 :
       LET grown == [fields EXCEPT ![Len(fields)].bytes = @ + size]
       IN IF Fits(grown)
          THEN fields' = grown /\ UNCHANGED <<stage, temps, verdict, pumping, queue, wire>>
          ELSE Refused("payload_too_large")

\* The client or the disk fails while a field is read.
FieldFails == stage \in {"reading", "field"} /\ Refused("invalid_body")

FieldEnds ==
  /\ stage = "field" /\ stage' = "reading"
  /\ UNCHANGED <<fields, temps, verdict, pumping, queue, wire>>

\* ImageEditMetadata::from_fields may refuse the text; ImageEditRequest::new
\* wants at least one image, at most one mask and no other file.
Named(name) == {i \in DOMAIN fields : fields[i].name = name}
Acceptable == Named("image") # {} /\ Cardinality(Named("mask")) <= 1 /\ Named("other") = {}

BodyEnds ==
  /\ stage = "reading"
  /\ \E metadata \in BOOLEAN :
       IF metadata /\ Acceptable
       THEN /\ stage' = "ready" /\ verdict' = "accepted"
            /\ UNCHANGED <<fields, temps, pumping, queue, wire>>
       ELSE Refused("invalid_request")

-----------------------------------------------------------------------------
(* The upload: texts first, then each file between its header and a line   *)
(* end, then the closing boundary.  A frame counts one byte.               *)

Frame == [file |-> 0, bytes |-> 1]
TextSegment(f) == [file |-> 0, bytes |-> 1 + f.bytes]
FileSegments(i) == <<Frame, [file |-> i, bytes |-> fields[i].bytes], Frame>>

Texts == SelectSeq(fields, LAMBDA f : f.name = "text")
FileIndexes == SelectSeq([i \in DOMAIN fields |-> i], LAMBDA i : fields[i].name \in File)
Segments ==
  [i \in DOMAIN Texts |-> TextSegment(Texts[i])]
    \o FlattenSeq([k \in DOMAIN FileIndexes |-> FileSegments(FileIndexes[k])])
    \o <<Frame>>

\* What multipart_upload adds up: a frame for a text, two for a file, one to close.
Announced(framesOfFile) ==
  Bytes(fields) + Len(Texts) + framesOfFile * Len(FileIndexes) + 1
content_length == Announced(2)

\* The request is routed and translated (or refused: see UpstreamCall), and a
\* task starts to pump its segments.
Upload ==
  /\ stage = "ready"
  /\ \/ Refused("not_sent")
     \/ IF content_length > WireLimit
        THEN Refused("invalid_request")
        ELSE /\ stage' = "uploading" /\ pumping' = [NoPump EXCEPT !.on = TRUE]
             /\ wire' = [i \in DOMAIN Segments |-> 0]
             /\ UNCHANGED <<fields, temps, verdict, queue>>

Item(error, seg, bytes) == [error |-> error, seg |-> seg, bytes |-> bytes]
PumpReturns == pumping' = NoPump /\ temps' = {}

\* send_multipart: the receiver is there exactly while the request is uploaded.
Send(item, next) ==
  IF stage = "done"
  THEN PumpReturns /\ UNCHANGED queue
  ELSE /\ Len(queue) < UploadCap
       /\ queue' = Append(queue, item) /\ next

Current == Segments[pumping.next]
Onward == pumping' = [pumping EXCEPT !.next = @ + 1, !.read = 0, !.open = FALSE]

PumpBytes ==
  /\ pumping.on /\ pumping.next <= Len(Segments) /\ Current.file = 0
  /\ Send(Item(FALSE, pumping.next, Current.bytes), Onward /\ UNCHANGED temps)
  /\ UNCHANGED <<stage, fields, verdict, wire>>

\* into_reader, each read, and the end of the file, where its path is dropped.
PumpOpens ==
  /\ pumping.on /\ pumping.next <= Len(Segments) /\ Current.file # 0 /\ ~ pumping.open
  /\ pumping' = [pumping EXCEPT !.open = TRUE]
  /\ UNCHANGED <<stage, fields, temps, verdict, queue, wire>>

PumpReads ==
  /\ pumping.on /\ pumping.open /\ pumping.read < Current.bytes
  /\ \E n \in 1..ReadBytes :
       /\ pumping.read + n <= Current.bytes
       /\ Send(Item(FALSE, pumping.next, n),
               pumping' = [pumping EXCEPT !.read = @ + n] /\ UNCHANGED temps)
  /\ UNCHANGED <<stage, fields, verdict, wire>>

PumpFileEnds ==
  /\ pumping.on /\ pumping.open /\ pumping.read = Current.bytes
  /\ Onward /\ temps' = temps \ {Current.file}
  /\ UNCHANGED <<stage, fields, verdict, queue, wire>>

\* The file cannot be opened or read.
PumpFails ==
  /\ pumping.on /\ pumping.next <= Len(Segments) /\ Current.file # 0
  /\ Send(Item(TRUE, pumping.next, 0), PumpReturns)
  /\ UNCHANGED <<stage, fields, verdict, wire>>

PumpEnds ==
  /\ pumping.on /\ pumping.next > Len(Segments)
  /\ PumpReturns /\ UNCHANGED <<stage, fields, verdict, queue, wire>>

\* The transport sends what it takes; an error item fails the request.
Leaves(why) ==
  /\ stage' = "done" /\ verdict' = why /\ queue' = <<>>
  /\ UNCHANGED <<fields, temps, pumping, wire>>

Take ==
  /\ stage = "uploading" /\ queue # <<>>
  /\ IF Head(queue).error
     THEN Leaves("transport")
     ELSE /\ wire' = [wire EXCEPT ![Head(queue).seg] = @ + Head(queue).bytes]
          /\ queue' = Tail(queue)
          /\ UNCHANGED <<stage, fields, temps, verdict, pumping>>

\* The stream is over, or the answer, a timeout or the client comes first.
Sent ==
  /\ stage = "uploading" /\ queue = <<>> /\ ~ pumping.on /\ Leaves("sent")
Stops == stage = "uploading" /\ Leaves("stopped")

Pump == PumpBytes \/ PumpOpens \/ PumpReads \/ PumpFileEnds \/ PumpFails \/ PumpEnds
Step ==
  \/ NextField \/ FieldChunk \/ FieldFails \/ FieldEnds \/ BodyEnds \/ Upload
  \/ Pump \/ Take \/ Sent \/ Stops
Next == Step

-----------------------------------------------------------------------------
\* An edit that is sent is the edit that came: every text and every file, in order and
\* whole, exactly as many bytes as announced, within the limits of a part, of the request
\* and of the wire.  While it is sent nothing exceeds the announcement, and once nobody
\* works on the request no temporary file is left (from_request, multipart_upload,
\* pump_multipart).
EditsAreFaithful ==
  /\ stage \in {"ready", "uploading"} =>
       /\ \A i \in DOMAIN fields : fields[i].bytes <= PartLimit
       /\ Bytes(fields) <= TotalLimit
  /\ stage = "uploading" =>
       /\ MapThenSumSet(LAMBDA i : wire[i], DOMAIN wire) <= content_length
       /\ \A i, k \in DOMAIN wire : i < k /\ wire[k] > 0 => wire[i] = Segments[i].bytes
  /\ verdict = "sent" =>
       /\ \A i \in DOMAIN wire : wire[i] = Segments[i].bytes
       /\ content_length = MapThenSumSet(LAMBDA i : wire[i], DOMAIN wire)
  /\ stage = "done" /\ ~ pumping.on => temps = {}
=============================================================================
