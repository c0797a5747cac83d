------------------------------- MODULE Export -------------------------------
(***************************************************************************)
(* The support-package export: the coordinator's admission and the phases  *)
(* of an operation (crates/wokcore-diagnostics/src/export.rs), the worker  *)
(* that selects and packs the events, the body streamed to the client      *)
(* (crates/wokcore-server/src/api/export.rs) and the command that stores   *)
(* it (apps/wokcore/src/commands/diagnostics.rs).                          *)
(*                                                                         *)
(* A package is the sequence of events it holds with what its manifest     *)
(* says of them; a chunk of its body is just counted.                      *)
(***************************************************************************)
EXTENDS DiagnosticReading, TLAPS

CONSTANTS
  Clients,      \* each asks for one export
  NoClient,     \* nobody has the admission
  Ways,         \* "stream" through the API, "publish" by export_support_package
  Large,        \* events that take two units of the selection budget
  Matching,     \* events the filters match
  Budget,       \* units of the selection budget
  Chunks,       \* chunks of a streamed package
  QueueDepth    \* EXPORT_STREAM_QUEUE_DEPTH

ASSUME ExportAssumption ==
  /\ NoClient \notin Clients /\ Clients \subseteq Readers
  /\ Ways \subseteq {"stream", "publish"}

VARIABLES
  permits,   \* the coordinator's semaphore
  slot,      \* ExportOperationState.permit: does the operation hold the permit
  phase,     \* ExportOperationState.phase
  owner,     \* who has the ExportRequestOwner: nobody, the handler, the body
  package,   \* the package prepared so far
  client,    \* what the client of each export does
  sent,      \* chunks put into the body's channel
  received,  \* chunks the client has written to its temporary file
  stored     \* is the package at the path it goes to

admissionVars == <<permits, slot, phase, owner>>
transferVars == <<package, client, sent, received, stored>>
exportVars == <<admissionVars, transferVars>>

NoPackage == [events |-> <<>>, count |-> 0, truncated |-> FALSE]

ExportInit ==
  /\ permits = 1
  /\ slot = [c \in Clients |-> FALSE]
  /\ phase = [c \in Clients |-> "ready"]
  /\ owner = [c \in Clients |-> "nobody"]
  /\ package = [c \in Clients |-> NoPackage]
  /\ client = [c \in Clients |-> "idle"]
  /\ sent = [c \in Clients |-> 0]
  /\ received = [c \in Clients |-> 0]
  /\ stored = [c \in Clients |-> FALSE]

SetPhase(c, p) == phase' = [phase EXCEPT ![c] = p]
SetClient(c, s) == client' = [client EXCEPT ![c] = s]

\* The temporary that holds the package goes with its destination.
DropPackage(c) == package' = [package EXCEPT ![c] = NoPackage]

\* check_cancelled refuses every phase but running.
Cancelled(c) == phase[c] # "running"

-----------------------------------------------------------------------------
(* Admission, cancellation and release.                                    *)

\* diagnostics_export up to the worker: try_begin and split in one go, or the
\* answer that another export is running.
BeginExport(c) ==
  /\ client[c] = "idle"
  /\ IF permits = 1
     THEN /\ permits' = 0
          /\ slot' = [slot EXCEPT ![c] = TRUE]
          /\ SetPhase(c, "running")
          /\ owner' = [owner EXCEPT ![c] = "handler"]
          /\ Go(c, "list")
          /\ SetClient(c, "waiting")
     ELSE SetClient(c, "failed") /\ UNCHANGED <<admissionVars, work>>
  /\ UNCHANGED <<recorderVars, scan, sure, package, sent, received, stored>>

\* cancel_owner, once a worker runs: the permit stays with the worker, and a
\* commit that has begun is not cancelled.
CancelOwner(c) ==
  /\ SetPhase(c, IF phase[c] = "running" THEN "cancelled" ELSE phase[c])
  /\ owner' = [owner EXCEPT ![c] = "nobody"]
  /\ UNCHANGED <<permits, slot>>

\* The client goes away.  A handler that still waits for the worker is
\* dropped with the request owner; a body only finds its channel closed.
ClientLeaves(c) ==
  /\ client[c] \in {"waiting", "reading"}
  /\ SetClient(c, "failed")
  /\ IF owner[c] = "handler" THEN CancelOwner(c) ELSE UNCHANGED admissionVars
  /\ UNCHANGED <<recorderVars, readingVars, package, sent, received, stored>>

\* A worker that leaves the permit of a cancelled operation to its owner.
CancelWorkerOnly(c) ==
  /\ work[c] = "failed"
  /\ SetPhase(c, CASE phase[c] = "running" -> "cancelled"
                   [] phase[c] = "committing" -> "finished"
                   [] OTHER -> phase[c])
  /\ Go(c, IF phase[c] \in {"running", "committing"} THEN "release" ELSE "over")
  /\ DropPackage(c)
  /\ UNCHANGED <<permits, slot, owner, recorderVars, scan, sure, client, sent, received, stored>>

\* The lease goes with the worker that fails: cancel_worker.
CancelWorker(c) ==
  /\ work[c] = "failed"
  /\ SetPhase(c, CASE phase[c] = "running" -> "cancelled"
                   [] phase[c] = "committing" -> "finished"
                   [] OTHER -> phase[c])
  /\ Go(c, IF phase[c] \in {"running", "cancelled", "committing"} THEN "release" ELSE "over")
  /\ DropPackage(c)
  /\ UNCHANGED <<permits, slot, owner, recorderVars, scan, sure, client, sent, received, stored>>

\* release_admission takes the permit out of the operation and drops it.
ReleaseAdmission(c) ==
  /\ work[c] = "release"
  /\ permits' = IF slot[c] THEN permits + 1 ELSE permits
  /\ slot' = [slot EXCEPT ![c] = FALSE]
  /\ Go(c, "over")
  /\ UNCHANGED <<phase, owner, recorderVars, scan, sure, transferVars>>

\* The handler answers with the worker's error, and drops the owner.
AnswerError(c) ==
  /\ work[c] = "over" /\ owner[c] = "handler"
  /\ CancelOwner(c)
  /\ SetClient(c, IF stored[c] THEN "published" ELSE "failed")
  /\ UNCHANGED <<recorderVars, readingVars, package, sent, received, stored>>

-----------------------------------------------------------------------------
(* Preparing the package.                                                  *)

Cost(e) == IF e \in Large THEN 2 ELSE 1

\* A budget that takes a later event after one that did not fit, uncounted.
ConsiderQuietly(s, e) ==
  IF e \notin Matching \/ Cost(e) > s.left THEN s
  ELSE [s EXCEPT !.left = @ - Cost(e), !.chosen = @ \cup {e}]

\* SelectionBudget::consider: once an event does not fit, no later one is
\* taken, and each one left out is counted.
Consider(s, e) ==
  IF e \notin Matching THEN s
  ELSE IF s.exhausted \/ Cost(e) > s.left
       THEN [s EXCEPT !.exhausted = TRUE, !.omitted = @ + 1]
       ELSE [s EXCEPT !.left = @ - Cost(e), !.chosen = @ \cup {e}]

Selection(c) ==
  FoldLeft(Consider,
           [left |-> Budget, omitted |-> 0, exhausted |-> FALSE, chosen |-> {}],
           Considered(c))

\* MergedPersistentEvents over the staged sources, each in ascending order: a
\* merge that emits an event found in several sources once.
Merged(chosen) == SetToSortSeq(chosen, LAMBDA a, b : a < b)

\* prepare_support_package: the metadata pass, the entries, the central
\* directory and the verification of what was written, every loop of which
\* asks whether the operation was cancelled.
PreparePackage(c) ==
  /\ work[c] = "selected"
  /\ IF Cancelled(c)
     THEN Fail(c) /\ UNCHANGED package
     ELSE LET s == Selection(c) IN
          /\ package' = [package EXCEPT ![c] =
                           [events |-> Merged(s.chosen), count |-> Cardinality(s.chosen),
                            truncated |-> s.omitted > 0]]
          /\ Go(c, "prepared")
          /\ scan' = [scan EXCEPT ![c] = NoScan]
          /\ UNCHANGED sure
  /\ UNCHANGED <<recorderVars, admissionVars, client, sent, received, stored>>

-----------------------------------------------------------------------------
(* Streaming it to the client that stores it.                              *)

\* The handler resumes: into_body takes the owner, the answer begins.
StartBody(c) ==
  /\ "stream" \in Ways
  /\ work[c] = "prepared" /\ owner[c] = "handler"
  /\ owner' = [owner EXCEPT ![c] = "body"]
  /\ Go(c, "stream") /\ Forget(c)
  /\ SetClient(c, "reading")
  /\ UNCHANGED <<permits, slot, phase, recorderVars, package, sent, received, stored>>

\* The result of a worker nobody waits for is dropped.
DropPrepared(c) ==
  /\ work[c] = "prepared" /\ owner[c] = "nobody"
  /\ Fail(c)
  /\ UNCHANGED <<recorderVars, exportVars>>

\* read_next and the channel: a chunk for a client that still reads.
SendChunk(c) ==
  /\ work[c] = "stream" /\ sent[c] < Chunks /\ ~ Cancelled(c)
  /\ client[c] = "reading" /\ sent[c] - received[c] < QueueDepth
  /\ sent' = [sent EXCEPT ![c] = @ + 1]
  /\ UNCHANGED <<recorderVars, readingVars, admissionVars, package, client, received, stored>>

\* The channel is closed: the body goes, its owner before its worker.
DropBody(c) ==
  /\ work[c] = "stream" /\ sent[c] < Chunks /\ client[c] # "reading"
  /\ CancelOwner(c)
  /\ Go(c, "failed")
  /\ UNCHANGED <<recorderVars, scan, sure, transferVars>>

\* SupportPackageBody::finish.
FinishBody(c) ==
  /\ work[c] = "stream" /\ sent[c] = Chunks /\ ~ Cancelled(c)
  /\ SetPhase(c, "finished")
  /\ owner' = [owner EXCEPT ![c] = "nobody"]
  /\ Go(c, "release") /\ DropPackage(c)
  /\ UNCHANGED <<permits, slot, recorderVars, scan, sure, client, sent, received, stored>>

\* export_package writes what it receives to its temporary file.
ReceiveChunk(c) ==
  /\ client[c] = "reading" /\ received[c] < sent[c]
  /\ received' = [received EXCEPT ![c] = @ + 1]
  /\ UNCHANGED <<recorderVars, readingVars, admissionVars, package, client, sent, stored>>

\* The body ended: PinnedExportDestination::commit (see PinnedFile), which
\* may find the path taken.
StorePackage(c) ==
  /\ client[c] = "reading" /\ received[c] = Chunks
  /\ \/ stored' = [stored EXCEPT ![c] = TRUE] /\ SetClient(c, "published")
     \/ UNCHANGED stored /\ SetClient(c, "failed")
  /\ UNCHANGED <<recorderVars, readingVars, admissionVars, package, sent, received>>

-----------------------------------------------------------------------------
(* PreparedSupportPackage::publish, of export_support_package.             *)

\* begin_commit, the point after which the owner cannot cancel.
BeginCommit(c) ==
  /\ "publish" \in Ways
  /\ work[c] = "prepared"
  /\ IF Cancelled(c) THEN Go(c, "failed") /\ UNCHANGED phase
     ELSE Go(c, "commit") /\ SetPhase(c, "committing")
  /\ Forget(c)
  /\ UNCHANGED <<permits, slot, owner, recorderVars, transferVars>>

\* commit of the destination, then finish whatever it returned.
Publish(c) ==
  /\ work[c] = "commit"
  /\ \E done \in BOOLEAN : stored' = [stored EXCEPT ![c] = done]
  /\ SetPhase(c, "finished")
  /\ Go(c, "release") /\ DropPackage(c)
  /\ UNCHANGED <<permits, slot, owner, recorderVars, scan, sure, client, sent, received>>

-----------------------------------------------------------------------------
WorkerStep(c) ==
  \/ ReaderStep(c) /\ UNCHANGED exportVars
  \/ PreparePackage(c) \/ DropPrepared(c) \/ SendChunk(c) \/ DropBody(c) \/ FinishBody(c)
  \/ BeginCommit(c) \/ Publish(c) \/ CancelWorker(c) \/ ReleaseAdmission(c)

HandlerStep(c) == StartBody(c) \/ AnswerError(c)

\* The client reads on, or leaves.
ClientStep(c) == ReceiveChunk(c) \/ StorePackage(c) \/ ClientLeaves(c)

ExportNext ==
  \E c \in Clients : BeginExport(c) \/ WorkerStep(c) \/ HandlerStep(c) \/ ClientStep(c)

exportSystem == <<recorderVars, readingVars, exportVars>>

\* Worker threads run, the runtime polls the handler, and a client that is
\* read from or closed by its system is seen to.
ExportFairness ==
  \A c \in Clients : /\ WF_exportSystem(WorkerStep(c))
                     /\ WF_exportSystem(HandlerStep(c))
                     /\ WF_exportSystem(ClientStep(c))

\* The exports beside the recorder.
ExportSpec ==
  /\ ReadingInit /\ ExportInit
  /\ [][(RecorderNext /\ UNCHANGED exportVars) \/ ExportNext]_exportSystem
  /\ ExportFairness

-----------------------------------------------------------------------------
\* Whose operation holds the permit.
Holder == IF \E c \in Clients : slot[c] THEN CHOOSE c \in Clients : slot[c] ELSE NoClient

Admission == INSTANCE ExportAdmission WITH holder <- Holder

\* A package is stored only whole, never for an operation that was cancelled
\* before its commit began (ExportOperation::begin_commit).
StoresWhole ==
  \A c \in Clients : stored'[c] /\ ~ stored[c] =>
    /\ phase[c] # "cancelled"
    /\ received[c] = Chunks \/ phase[c] = "committing"

-----------------------------------------------------------------------------
(* Proofs.  The permit is in the semaphore or in exactly one operation; a  *)
(* client reads only while its body streams or after it finished; and a    *)
(* worker commits only in the phase that begin_commit has set.             *)

Early == {"list", "check", "open", "read", "ring", "selected", "prepared"}
Works == Early \cup {"none", "failed", "stream", "commit", "release", "over"}

ExportTypes ==
  /\ permits \in {0, 1}
  /\ slot \in [Clients -> BOOLEAN]
  /\ phase \in [Clients -> {"ready", "running", "cancelled", "committing", "finished"}]
  /\ owner \in [Clients -> {"nobody", "handler", "body"}]
  /\ client \in [Clients -> {"idle", "waiting", "reading", "published", "failed"}]
  /\ stored \in [Clients -> BOOLEAN]
  /\ work \in [Readers -> Works]

OnePermit ==
  /\ \A c, d \in Clients : slot[c] /\ slot[d] => c = d
  /\ \A c \in Clients : slot[c] => permits = 0
  /\ permits = 0 => \E c \in Clients : slot[c]

ExportInv(c) ==
  /\ work[c] \in Early /\ owner[c] = "handler" => phase[c] = "running"
  /\ work[c] = "stream" => owner[c] = "body" /\ phase[c] = "running"
  /\ work[c] = "commit" => phase[c] = "committing"
  /\ client[c] = "reading" =>
       \/ work[c] = "stream"
       \/ work[c] \in {"release", "over"} /\ owner[c] = "nobody" /\ phase[c] = "finished"

ExportsInv == ExportTypes /\ OnePermit /\ \A c \in Clients : ExportInv(c)

\* A step of one client's export leaves the others as they are.
OthersKept(c) ==
  \A d \in Clients : d # c =>
    /\ work'[d] = work[d] /\ phase'[d] = phase[d] /\ owner'[d] = owner[d]
    /\ client'[d] = client[d]

LEMMA ClientsKept ==
  ASSUME ExportsInv, NEW c \in Clients, OthersKept(c), ExportInv(c)'
  PROVE  \A d \in Clients : ExportInv(d)'
  BY DEF ExportsInv, ExportInv, OthersKept

\* A reader goes on reading, has read all, or has failed.
LEMMA ReaderMoves ==
  ASSUME work \in [Readers -> Works], NEW c \in Readers, ReaderStep(c)
  PROVE  /\ work[c] \in Early \ {"selected", "prepared"}
         /\ \E label \in (Early \ {"prepared"}) \cup {"failed"} : Go(c, label)
  <1>1. CASE List(c)
    BY <1>1 DEF List, Early
  <1>2. CASE CheckEntries(c)
    BY <1>2 DEF CheckEntries, Fail, Early
  <1>3. CASE OpenEntry(c)
    BY <1>3 DEF OpenEntry, SkipEntry, Fail, Go, Early
  <1>4. CASE ReadEntry(c)
    BY <1>4 DEF ReadEntry, Fail, Early
  <1>5. CASE EntriesDone(c)
    BY <1>5 DEF EntriesDone, Early
  <1>6. CASE ReadRing(c)
    BY <1>6 DEF ReadRing, Go, Early
  <1>7. CASE RingBusy(c)
    BY <1>7 DEF RingBusy, Fail, Early
  <1>8. QED
    BY <1>1, <1>2, <1>3, <1>4, <1>5, <1>6, <1>7 DEF ReaderStep

LEMMA RecorderAlone ==
  ASSUME RecorderNext
  PROVE  UNCHANGED work
  BY DEF RecorderNext, Record, Persist, Rotate, Retire, readingVars

LEMMA StepKeepsInv ==
  ASSUME ExportsInv, NEW c \in Clients,
         BeginExport(c) \/ WorkerStep(c) \/ HandlerStep(c) \/ ClientStep(c)
  PROVE  ExportsInv'
  <1> USE ExportAssumption DEF exportVars, admissionVars
  <1>0. ExportTypes /\ OnePermit /\ ExportInv(c) /\ c \in Readers
    BY DEF ExportsInv
  <1>1. CASE BeginExport(c)
    <2>1. permits' \in {0, 1}
      BY <1>0, <1>1 DEF ExportTypes, BeginExport, SetPhase, SetClient, Go, exportVars,
         admissionVars, transferVars, Works, Early, OnePermit
    <2>2. slot' \in [Clients -> BOOLEAN]
      BY <1>0, <1>1 DEF ExportTypes, BeginExport, SetPhase, SetClient, Go, exportVars,
         admissionVars, transferVars, Works, Early
    <2>3. phase' \in [Clients -> {"ready", "running", "cancelled", "committing", "finished"}]
      BY <1>0, <1>1 DEF ExportTypes, BeginExport, SetPhase, SetClient, Go, exportVars,
         admissionVars, transferVars, Works, Early
    <2>4. owner' \in [Clients -> {"nobody", "handler", "body"}]
      BY <1>0, <1>1 DEF ExportTypes, BeginExport, SetPhase, SetClient, Go, exportVars,
         admissionVars, transferVars, Works, Early
    <2>5. client' \in [Clients -> {"idle", "waiting", "reading", "published", "failed"}]
      BY <1>0, <1>1 DEF ExportTypes, BeginExport, SetPhase, SetClient, Go, exportVars,
         admissionVars, transferVars, Works, Early
    <2>6. stored' \in [Clients -> BOOLEAN]
      BY <1>0, <1>1 DEF ExportTypes, BeginExport, SetPhase, SetClient, Go, exportVars,
         admissionVars, transferVars, Works, Early
    <2>7. work' \in [Readers -> Works]
      BY <1>0, <1>1 DEF ExportTypes, BeginExport, SetPhase, SetClient, Go, exportVars,
         admissionVars, transferVars, Works, Early
    <2>8. OnePermit'
      BY <1>0, <1>1 DEF ExportTypes, BeginExport, SetPhase, SetClient, Go, exportVars,
         admissionVars, transferVars, Works, Early, OnePermit
    <2>9. ExportInv(c)'
      BY <1>0, <1>1 DEF ExportTypes, BeginExport, SetPhase, SetClient, Go, exportVars,
         admissionVars, transferVars, Works, Early, ExportInv, Cancelled
    <2>10. OthersKept(c)
      BY <1>0, <1>1 DEF ExportTypes, BeginExport, SetPhase, SetClient, Go, exportVars,
         admissionVars, transferVars, Works, Early, OthersKept
    <2>11. QED
      BY <2>1, <2>2, <2>3, <2>4, <2>5, <2>6, <2>7, <2>8, <2>9, <2>10, ClientsKept
         DEF ExportsInv, ExportTypes
  <1>2. CASE ClientLeaves(c)
    <2>1. permits' \in {0, 1}
      BY <1>0, <1>2 DEF ExportTypes, ClientLeaves, CancelOwner, SetPhase, SetClient,
         readingVars, exportVars, admissionVars, transferVars, Works, Early, OnePermit
    <2>2. slot' \in [Clients -> BOOLEAN]
      BY <1>0, <1>2 DEF ExportTypes, ClientLeaves, CancelOwner, SetPhase, SetClient,
         readingVars, exportVars, admissionVars, transferVars, Works, Early
    <2>3. phase' \in [Clients -> {"ready", "running", "cancelled", "committing", "finished"}]
      BY <1>0, <1>2 DEF ExportTypes, ClientLeaves, CancelOwner, SetPhase, SetClient,
         readingVars, exportVars, admissionVars, transferVars, Works, Early
    <2>4. owner' \in [Clients -> {"nobody", "handler", "body"}]
      BY <1>0, <1>2 DEF ExportTypes, ClientLeaves, CancelOwner, SetPhase, SetClient,
         readingVars, exportVars, admissionVars, transferVars, Works, Early
    <2>5. client' \in [Clients -> {"idle", "waiting", "reading", "published", "failed"}]
      BY <1>0, <1>2 DEF ExportTypes, ClientLeaves, CancelOwner, SetPhase, SetClient,
         readingVars, exportVars, admissionVars, transferVars, Works, Early
    <2>6. stored' \in [Clients -> BOOLEAN]
      BY <1>0, <1>2 DEF ExportTypes, ClientLeaves, CancelOwner, SetPhase, SetClient,
         readingVars, exportVars, admissionVars, transferVars, Works, Early
    <2>7. work' \in [Readers -> Works]
      BY <1>0, <1>2 DEF ExportTypes, ClientLeaves, CancelOwner, SetPhase, SetClient,
         readingVars, exportVars, admissionVars, transferVars, Works, Early
    <2>8. OnePermit'
      BY <1>0, <1>2 DEF ExportTypes, ClientLeaves, CancelOwner, SetPhase, SetClient,
         readingVars, exportVars, admissionVars, transferVars, Works, Early, OnePermit
    <2>9. ExportInv(c)'
      BY <1>0, <1>2 DEF ExportTypes, ClientLeaves, CancelOwner, SetPhase, SetClient,
         readingVars, exportVars, admissionVars, transferVars, Works, Early, ExportInv,
         Cancelled
    <2>10. OthersKept(c)
      BY <1>0, <1>2 DEF ExportTypes, ClientLeaves, CancelOwner, SetPhase, SetClient,
         readingVars, exportVars, admissionVars, transferVars, Works, Early, OthersKept
    <2>11. QED
      BY <2>1, <2>2, <2>3, <2>4, <2>5, <2>6, <2>7, <2>8, <2>9, <2>10, ClientsKept
         DEF ExportsInv, ExportTypes
  <1>3. CASE CancelWorker(c)
    <2>1. permits' \in {0, 1}
      BY <1>0, <1>3 DEF ExportTypes, CancelWorker, SetPhase, Go, exportVars, admissionVars,
         transferVars, Works, Early, OnePermit
    <2>2. slot' \in [Clients -> BOOLEAN]
      BY <1>0, <1>3 DEF ExportTypes, CancelWorker, SetPhase, Go, exportVars, admissionVars,
         transferVars, Works, Early
    <2>3. phase' \in [Clients -> {"ready", "running", "cancelled", "committing", "finished"}]
      BY <1>0, <1>3 DEF ExportTypes, CancelWorker, SetPhase, Go, exportVars, admissionVars,
         transferVars, Works, Early
    <2>4. owner' \in [Clients -> {"nobody", "handler", "body"}]
      BY <1>0, <1>3 DEF ExportTypes, CancelWorker, SetPhase, Go, exportVars, admissionVars,
         transferVars, Works, Early
    <2>5. client' \in [Clients -> {"idle", "waiting", "reading", "published", "failed"}]
      BY <1>0, <1>3 DEF ExportTypes, CancelWorker, SetPhase, Go, exportVars, admissionVars,
         transferVars, Works, Early
    <2>6. stored' \in [Clients -> BOOLEAN]
      BY <1>0, <1>3 DEF ExportTypes, CancelWorker, SetPhase, Go, exportVars, admissionVars,
         transferVars, Works, Early
    <2>7. work' \in [Readers -> Works]
      BY <1>0, <1>3 DEF ExportTypes, CancelWorker, SetPhase, Go, exportVars, admissionVars,
         transferVars, Works, Early
    <2>8. OnePermit'
      BY <1>0, <1>3 DEF ExportTypes, CancelWorker, SetPhase, Go, exportVars, admissionVars,
         transferVars, Works, Early, OnePermit
    <2>9. ExportInv(c)'
      BY <1>0, <1>3 DEF ExportTypes, CancelWorker, SetPhase, Go, exportVars, admissionVars,
         transferVars, Works, Early, ExportInv, Cancelled
    <2>10. OthersKept(c)
      BY <1>0, <1>3 DEF ExportTypes, CancelWorker, SetPhase, Go, exportVars, admissionVars,
         transferVars, Works, Early, OthersKept
    <2>11. QED
      BY <2>1, <2>2, <2>3, <2>4, <2>5, <2>6, <2>7, <2>8, <2>9, <2>10, ClientsKept
         DEF ExportsInv, ExportTypes
  <1>4. CASE ReleaseAdmission(c)
    <2>1. permits' \in {0, 1}
      BY <1>0, <1>4 DEF ExportTypes, ReleaseAdmission, Go, transferVars, exportVars,
         admissionVars, transferVars, Works, Early, OnePermit
    <2>2. slot' \in [Clients -> BOOLEAN]
      BY <1>0, <1>4 DEF ExportTypes, ReleaseAdmission, Go, transferVars, exportVars,
         admissionVars, transferVars, Works, Early
    <2>3. phase' \in [Clients -> {"ready", "running", "cancelled", "committing", "finished"}]
      BY <1>0, <1>4 DEF ExportTypes, ReleaseAdmission, Go, transferVars, exportVars,
         admissionVars, transferVars, Works, Early
    <2>4. owner' \in [Clients -> {"nobody", "handler", "body"}]
      BY <1>0, <1>4 DEF ExportTypes, ReleaseAdmission, Go, transferVars, exportVars,
         admissionVars, transferVars, Works, Early
    <2>5. client' \in [Clients -> {"idle", "waiting", "reading", "published", "failed"}]
      BY <1>0, <1>4 DEF ExportTypes, ReleaseAdmission, Go, transferVars, exportVars,
         admissionVars, transferVars, Works, Early
    <2>6. stored' \in [Clients -> BOOLEAN]
      BY <1>0, <1>4 DEF ExportTypes, ReleaseAdmission, Go, transferVars, exportVars,
         admissionVars, transferVars, Works, Early
    <2>7. work' \in [Readers -> Works]
      BY <1>0, <1>4 DEF ExportTypes, ReleaseAdmission, Go, transferVars, exportVars,
         admissionVars, transferVars, Works, Early
    <2>8. OnePermit'
      BY <1>0, <1>4 DEF ExportTypes, ReleaseAdmission, Go, transferVars, exportVars,
         admissionVars, transferVars, Works, Early, OnePermit
    <2>9. ExportInv(c)'
      BY <1>0, <1>4 DEF ExportTypes, ReleaseAdmission, Go, transferVars, exportVars,
         admissionVars, transferVars, Works, Early, ExportInv, Cancelled
    <2>10. OthersKept(c)
      BY <1>0, <1>4 DEF ExportTypes, ReleaseAdmission, Go, transferVars, exportVars,
         admissionVars, transferVars, Works, Early, OthersKept
    <2>11. QED
      BY <2>1, <2>2, <2>3, <2>4, <2>5, <2>6, <2>7, <2>8, <2>9, <2>10, ClientsKept
         DEF ExportsInv, ExportTypes
  <1>5. CASE AnswerError(c)
    <2>1. permits' \in {0, 1}
      BY <1>0, <1>5 DEF ExportTypes, AnswerError, CancelOwner, SetPhase, SetClient,
         readingVars, exportVars, admissionVars, transferVars, Works, Early, OnePermit
    <2>2. slot' \in [Clients -> BOOLEAN]
      BY <1>0, <1>5 DEF ExportTypes, AnswerError, CancelOwner, SetPhase, SetClient,
         readingVars, exportVars, admissionVars, transferVars, Works, Early
    <2>3. phase' \in [Clients -> {"ready", "running", "cancelled", "committing", "finished"}]
      BY <1>0, <1>5 DEF ExportTypes, AnswerError, CancelOwner, SetPhase, SetClient,
         readingVars, exportVars, admissionVars, transferVars, Works, Early
    <2>4. owner' \in [Clients -> {"nobody", "handler", "body"}]
      BY <1>0, <1>5 DEF ExportTypes, AnswerError, CancelOwner, SetPhase, SetClient,
         readingVars, exportVars, admissionVars, transferVars, Works, Early
    <2>5. client' \in [Clients -> {"idle", "waiting", "reading", "published", "failed"}]
      BY <1>0, <1>5 DEF ExportTypes, AnswerError, CancelOwner, SetPhase, SetClient,
         readingVars, exportVars, admissionVars, transferVars, Works, Early
    <2>6. stored' \in [Clients -> BOOLEAN]
      BY <1>0, <1>5 DEF ExportTypes, AnswerError, CancelOwner, SetPhase, SetClient,
         readingVars, exportVars, admissionVars, transferVars, Works, Early
    <2>7. work' \in [Readers -> Works]
      BY <1>0, <1>5 DEF ExportTypes, AnswerError, CancelOwner, SetPhase, SetClient,
         readingVars, exportVars, admissionVars, transferVars, Works, Early
    <2>8. OnePermit'
      BY <1>0, <1>5 DEF ExportTypes, AnswerError, CancelOwner, SetPhase, SetClient,
         readingVars, exportVars, admissionVars, transferVars, Works, Early, OnePermit
    <2>9. ExportInv(c)'
      BY <1>0, <1>5 DEF ExportTypes, AnswerError, CancelOwner, SetPhase, SetClient,
         readingVars, exportVars, admissionVars, transferVars, Works, Early, ExportInv,
         Cancelled
    <2>10. OthersKept(c)
      BY <1>0, <1>5 DEF ExportTypes, AnswerError, CancelOwner, SetPhase, SetClient,
         readingVars, exportVars, admissionVars, transferVars, Works, Early, OthersKept
    <2>11. QED
      BY <2>1, <2>2, <2>3, <2>4, <2>5, <2>6, <2>7, <2>8, <2>9, <2>10, ClientsKept
         DEF ExportsInv, ExportTypes
  <1>6. CASE PreparePackage(c)
    <2>1. permits' \in {0, 1}
      BY <1>0, <1>6 DEF ExportTypes, PreparePackage, Fail, Go, exportVars, admissionVars,
         transferVars, Works, Early, OnePermit
    <2>2. slot' \in [Clients -> BOOLEAN]
      BY <1>0, <1>6 DEF ExportTypes, PreparePackage, Fail, Go, exportVars, admissionVars,
         transferVars, Works, Early
    <2>3. phase' \in [Clients -> {"ready", "running", "cancelled", "committing", "finished"}]
      BY <1>0, <1>6 DEF ExportTypes, PreparePackage, Fail, Go, exportVars, admissionVars,
         transferVars, Works, Early
    <2>4. owner' \in [Clients -> {"nobody", "handler", "body"}]
      BY <1>0, <1>6 DEF ExportTypes, PreparePackage, Fail, Go, exportVars, admissionVars,
         transferVars, Works, Early
    <2>5. client' \in [Clients -> {"idle", "waiting", "reading", "published", "failed"}]
      BY <1>0, <1>6 DEF ExportTypes, PreparePackage, Fail, Go, exportVars, admissionVars,
         transferVars, Works, Early
    <2>6. stored' \in [Clients -> BOOLEAN]
      BY <1>0, <1>6 DEF ExportTypes, PreparePackage, Fail, Go, exportVars, admissionVars,
         transferVars, Works, Early
    <2>7. work' \in [Readers -> Works]
      BY <1>0, <1>6 DEF ExportTypes, PreparePackage, Fail, Go, exportVars, admissionVars,
         transferVars, Works, Early
    <2>8. OnePermit'
      BY <1>0, <1>6 DEF ExportTypes, PreparePackage, Fail, Go, exportVars, admissionVars,
         transferVars, Works, Early, OnePermit
    <2>9. ExportInv(c)'
      BY <1>0, <1>6 DEF ExportTypes, PreparePackage, Fail, Go, exportVars, admissionVars,
         transferVars, Works, Early, ExportInv, Cancelled
    <2>10. OthersKept(c)
      BY <1>0, <1>6 DEF ExportTypes, PreparePackage, Fail, Go, exportVars, admissionVars,
         transferVars, Works, Early, OthersKept
    <2>11. QED
      BY <2>1, <2>2, <2>3, <2>4, <2>5, <2>6, <2>7, <2>8, <2>9, <2>10, ClientsKept
         DEF ExportsInv, ExportTypes
  <1>7. CASE StartBody(c)
    <2>1. permits' \in {0, 1}
      BY <1>0, <1>7 DEF ExportTypes, StartBody, SetClient, Go, exportVars, admissionVars,
         transferVars, Works, Early, OnePermit
    <2>2. slot' \in [Clients -> BOOLEAN]
      BY <1>0, <1>7 DEF ExportTypes, StartBody, SetClient, Go, exportVars, admissionVars,
         transferVars, Works, Early
    <2>3. phase' \in [Clients -> {"ready", "running", "cancelled", "committing", "finished"}]
      BY <1>0, <1>7 DEF ExportTypes, StartBody, SetClient, Go, exportVars, admissionVars,
         transferVars, Works, Early
    <2>4. owner' \in [Clients -> {"nobody", "handler", "body"}]
      BY <1>0, <1>7 DEF ExportTypes, StartBody, SetClient, Go, exportVars, admissionVars,
         transferVars, Works, Early
    <2>5. client' \in [Clients -> {"idle", "waiting", "reading", "published", "failed"}]
      BY <1>0, <1>7 DEF ExportTypes, StartBody, SetClient, Go, exportVars, admissionVars,
         transferVars, Works, Early
    <2>6. stored' \in [Clients -> BOOLEAN]
      BY <1>0, <1>7 DEF ExportTypes, StartBody, SetClient, Go, exportVars, admissionVars,
         transferVars, Works, Early
    <2>7. work' \in [Readers -> Works]
      BY <1>0, <1>7 DEF ExportTypes, StartBody, SetClient, Go, exportVars, admissionVars,
         transferVars, Works, Early
    <2>8. OnePermit'
      BY <1>0, <1>7 DEF ExportTypes, StartBody, SetClient, Go, exportVars, admissionVars,
         transferVars, Works, Early, OnePermit
    <2>9. ExportInv(c)'
      BY <1>0, <1>7 DEF ExportTypes, StartBody, SetClient, Go, exportVars, admissionVars,
         transferVars, Works, Early, ExportInv, Cancelled
    <2>10. OthersKept(c)
      BY <1>0, <1>7 DEF ExportTypes, StartBody, SetClient, Go, exportVars, admissionVars,
         transferVars, Works, Early, OthersKept
    <2>11. QED
      BY <2>1, <2>2, <2>3, <2>4, <2>5, <2>6, <2>7, <2>8, <2>9, <2>10, ClientsKept
         DEF ExportsInv, ExportTypes
  <1>8. CASE DropPrepared(c)
    <2>1. permits' \in {0, 1}
      BY <1>0, <1>8 DEF ExportTypes, DropPrepared, Fail, Go, exportVars, admissionVars,
         transferVars, Works, Early, OnePermit
    <2>2. slot' \in [Clients -> BOOLEAN]
      BY <1>0, <1>8 DEF ExportTypes, DropPrepared, Fail, Go, exportVars, admissionVars,
         transferVars, Works, Early
    <2>3. phase' \in [Clients -> {"ready", "running", "cancelled", "committing", "finished"}]
      BY <1>0, <1>8 DEF ExportTypes, DropPrepared, Fail, Go, exportVars, admissionVars,
         transferVars, Works, Early
    <2>4. owner' \in [Clients -> {"nobody", "handler", "body"}]
      BY <1>0, <1>8 DEF ExportTypes, DropPrepared, Fail, Go, exportVars, admissionVars,
         transferVars, Works, Early
    <2>5. client' \in [Clients -> {"idle", "waiting", "reading", "published", "failed"}]
      BY <1>0, <1>8 DEF ExportTypes, DropPrepared, Fail, Go, exportVars, admissionVars,
         transferVars, Works, Early
    <2>6. stored' \in [Clients -> BOOLEAN]
      BY <1>0, <1>8 DEF ExportTypes, DropPrepared, Fail, Go, exportVars, admissionVars,
         transferVars, Works, Early
    <2>7. work' \in [Readers -> Works]
      BY <1>0, <1>8 DEF ExportTypes, DropPrepared, Fail, Go, exportVars, admissionVars,
         transferVars, Works, Early
    <2>8. OnePermit'
      BY <1>0, <1>8 DEF ExportTypes, DropPrepared, Fail, Go, exportVars, admissionVars,
         transferVars, Works, Early, OnePermit
    <2>9. ExportInv(c)'
      BY <1>0, <1>8 DEF ExportTypes, DropPrepared, Fail, Go, exportVars, admissionVars,
         transferVars, Works, Early, ExportInv, Cancelled
    <2>10. OthersKept(c)
      BY <1>0, <1>8 DEF ExportTypes, DropPrepared, Fail, Go, exportVars, admissionVars,
         transferVars, Works, Early, OthersKept
    <2>11. QED
      BY <2>1, <2>2, <2>3, <2>4, <2>5, <2>6, <2>7, <2>8, <2>9, <2>10, ClientsKept
         DEF ExportsInv, ExportTypes
  <1>9. CASE SendChunk(c)
    <2>1. permits' \in {0, 1}
      BY <1>0, <1>9 DEF ExportTypes, SendChunk, readingVars, exportVars, admissionVars,
         transferVars, Works, Early, OnePermit
    <2>2. slot' \in [Clients -> BOOLEAN]
      BY <1>0, <1>9 DEF ExportTypes, SendChunk, readingVars, exportVars, admissionVars,
         transferVars, Works, Early
    <2>3. phase' \in [Clients -> {"ready", "running", "cancelled", "committing", "finished"}]
      BY <1>0, <1>9 DEF ExportTypes, SendChunk, readingVars, exportVars, admissionVars,
         transferVars, Works, Early
    <2>4. owner' \in [Clients -> {"nobody", "handler", "body"}]
      BY <1>0, <1>9 DEF ExportTypes, SendChunk, readingVars, exportVars, admissionVars,
         transferVars, Works, Early
    <2>5. client' \in [Clients -> {"idle", "waiting", "reading", "published", "failed"}]
      BY <1>0, <1>9 DEF ExportTypes, SendChunk, readingVars, exportVars, admissionVars,
         transferVars, Works, Early
    <2>6. stored' \in [Clients -> BOOLEAN]
      BY <1>0, <1>9 DEF ExportTypes, SendChunk, readingVars, exportVars, admissionVars,
         transferVars, Works, Early
    <2>7. work' \in [Readers -> Works]
      BY <1>0, <1>9 DEF ExportTypes, SendChunk, readingVars, exportVars, admissionVars,
         transferVars, Works, Early
    <2>8. OnePermit'
      BY <1>0, <1>9 DEF ExportTypes, SendChunk, readingVars, exportVars, admissionVars,
         transferVars, Works, Early, OnePermit
    <2>9. ExportInv(c)'
      BY <1>0, <1>9 DEF ExportTypes, SendChunk, readingVars, exportVars, admissionVars,
         transferVars, Works, Early, ExportInv, Cancelled
    <2>10. OthersKept(c)
      BY <1>0, <1>9 DEF ExportTypes, SendChunk, readingVars, exportVars, admissionVars,
         transferVars, Works, Early, OthersKept
    <2>11. QED
      BY <2>1, <2>2, <2>3, <2>4, <2>5, <2>6, <2>7, <2>8, <2>9, <2>10, ClientsKept
         DEF ExportsInv, ExportTypes
  <1>10. CASE DropBody(c)
    <2>1. permits' \in {0, 1}
      BY <1>0, <1>10 DEF ExportTypes, DropBody, CancelOwner, SetPhase, Go, transferVars,
         exportVars, admissionVars, transferVars, Works, Early, OnePermit
    <2>2. slot' \in [Clients -> BOOLEAN]
      BY <1>0, <1>10 DEF ExportTypes, DropBody, CancelOwner, SetPhase, Go, transferVars,
         exportVars, admissionVars, transferVars, Works, Early
    <2>3. phase' \in [Clients -> {"ready", "running", "cancelled", "committing", "finished"}]
      BY <1>0, <1>10 DEF ExportTypes, DropBody, CancelOwner, SetPhase, Go, transferVars,
         exportVars, admissionVars, transferVars, Works, Early
    <2>4. owner' \in [Clients -> {"nobody", "handler", "body"}]
      BY <1>0, <1>10 DEF ExportTypes, DropBody, CancelOwner, SetPhase, Go, transferVars,
         exportVars, admissionVars, transferVars, Works, Early
    <2>5. client' \in [Clients -> {"idle", "waiting", "reading", "published", "failed"}]
      BY <1>0, <1>10 DEF ExportTypes, DropBody, CancelOwner, SetPhase, Go, transferVars,
         exportVars, admissionVars, transferVars, Works, Early
    <2>6. stored' \in [Clients -> BOOLEAN]
      BY <1>0, <1>10 DEF ExportTypes, DropBody, CancelOwner, SetPhase, Go, transferVars,
         exportVars, admissionVars, transferVars, Works, Early
    <2>7. work' \in [Readers -> Works]
      BY <1>0, <1>10 DEF ExportTypes, DropBody, CancelOwner, SetPhase, Go, transferVars,
         exportVars, admissionVars, transferVars, Works, Early
    <2>8. OnePermit'
      BY <1>0, <1>10 DEF ExportTypes, DropBody, CancelOwner, SetPhase, Go, transferVars,
         exportVars, admissionVars, transferVars, Works, Early, OnePermit
    <2>9. ExportInv(c)'
      BY <1>0, <1>10 DEF ExportTypes, DropBody, CancelOwner, SetPhase, Go, transferVars,
         exportVars, admissionVars, transferVars, Works, Early, ExportInv, Cancelled
    <2>10. OthersKept(c)
      BY <1>0, <1>10 DEF ExportTypes, DropBody, CancelOwner, SetPhase, Go, transferVars,
         exportVars, admissionVars, transferVars, Works, Early, OthersKept
    <2>11. QED
      BY <2>1, <2>2, <2>3, <2>4, <2>5, <2>6, <2>7, <2>8, <2>9, <2>10, ClientsKept
         DEF ExportsInv, ExportTypes
  <1>11. CASE FinishBody(c)
    <2>1. permits' \in {0, 1}
      BY <1>0, <1>11 DEF ExportTypes, FinishBody, SetPhase, Go, exportVars, admissionVars,
         transferVars, Works, Early, OnePermit
    <2>2. slot' \in [Clients -> BOOLEAN]
      BY <1>0, <1>11 DEF ExportTypes, FinishBody, SetPhase, Go, exportVars, admissionVars,
         transferVars, Works, Early
    <2>3. phase' \in [Clients -> {"ready", "running", "cancelled", "committing", "finished"}]
      BY <1>0, <1>11 DEF ExportTypes, FinishBody, SetPhase, Go, exportVars, admissionVars,
         transferVars, Works, Early
    <2>4. owner' \in [Clients -> {"nobody", "handler", "body"}]
      BY <1>0, <1>11 DEF ExportTypes, FinishBody, SetPhase, Go, exportVars, admissionVars,
         transferVars, Works, Early
    <2>5. client' \in [Clients -> {"idle", "waiting", "reading", "published", "failed"}]
      BY <1>0, <1>11 DEF ExportTypes, FinishBody, SetPhase, Go, exportVars, admissionVars,
         transferVars, Works, Early
    <2>6. stored' \in [Clients -> BOOLEAN]
      BY <1>0, <1>11 DEF ExportTypes, FinishBody, SetPhase, Go, exportVars, admissionVars,
         transferVars, Works, Early
    <2>7. work' \in [Readers -> Works]
      BY <1>0, <1>11 DEF ExportTypes, FinishBody, SetPhase, Go, exportVars, admissionVars,
         transferVars, Works, Early
    <2>8. OnePermit'
      BY <1>0, <1>11 DEF ExportTypes, FinishBody, SetPhase, Go, exportVars, admissionVars,
         transferVars, Works, Early, OnePermit
    <2>9. ExportInv(c)'
      BY <1>0, <1>11 DEF ExportTypes, FinishBody, SetPhase, Go, exportVars, admissionVars,
         transferVars, Works, Early, ExportInv, Cancelled
    <2>10. OthersKept(c)
      BY <1>0, <1>11 DEF ExportTypes, FinishBody, SetPhase, Go, exportVars, admissionVars,
         transferVars, Works, Early, OthersKept
    <2>11. QED
      BY <2>1, <2>2, <2>3, <2>4, <2>5, <2>6, <2>7, <2>8, <2>9, <2>10, ClientsKept
         DEF ExportsInv, ExportTypes
  <1>12. CASE ReceiveChunk(c)
    <2>1. permits' \in {0, 1}
      BY <1>0, <1>12 DEF ExportTypes, ReceiveChunk, readingVars, exportVars, admissionVars,
         transferVars, Works, Early, OnePermit
    <2>2. slot' \in [Clients -> BOOLEAN]
      BY <1>0, <1>12 DEF ExportTypes, ReceiveChunk, readingVars, exportVars, admissionVars,
         transferVars, Works, Early
    <2>3. phase' \in [Clients -> {"ready", "running", "cancelled", "committing", "finished"}]
      BY <1>0, <1>12 DEF ExportTypes, ReceiveChunk, readingVars, exportVars, admissionVars,
         transferVars, Works, Early
    <2>4. owner' \in [Clients -> {"nobody", "handler", "body"}]
      BY <1>0, <1>12 DEF ExportTypes, ReceiveChunk, readingVars, exportVars, admissionVars,
         transferVars, Works, Early
    <2>5. client' \in [Clients -> {"idle", "waiting", "reading", "published", "failed"}]
      BY <1>0, <1>12 DEF ExportTypes, ReceiveChunk, readingVars, exportVars, admissionVars,
         transferVars, Works, Early
    <2>6. stored' \in [Clients -> BOOLEAN]
      BY <1>0, <1>12 DEF ExportTypes, ReceiveChunk, readingVars, exportVars, admissionVars,
         transferVars, Works, Early
    <2>7. work' \in [Readers -> Works]
      BY <1>0, <1>12 DEF ExportTypes, ReceiveChunk, readingVars, exportVars, admissionVars,
         transferVars, Works, Early
    <2>8. OnePermit'
      BY <1>0, <1>12 DEF ExportTypes, ReceiveChunk, readingVars, exportVars, admissionVars,
         transferVars, Works, Early, OnePermit
    <2>9. ExportInv(c)'
      BY <1>0, <1>12 DEF ExportTypes, ReceiveChunk, readingVars, exportVars, admissionVars,
         transferVars, Works, Early, ExportInv, Cancelled
    <2>10. OthersKept(c)
      BY <1>0, <1>12 DEF ExportTypes, ReceiveChunk, readingVars, exportVars, admissionVars,
         transferVars, Works, Early, OthersKept
    <2>11. QED
      BY <2>1, <2>2, <2>3, <2>4, <2>5, <2>6, <2>7, <2>8, <2>9, <2>10, ClientsKept
         DEF ExportsInv, ExportTypes
  <1>13. CASE StorePackage(c)
    <2>1. permits' \in {0, 1}
      BY <1>0, <1>13 DEF ExportTypes, StorePackage, SetClient, readingVars, exportVars,
         admissionVars, transferVars, Works, Early, OnePermit
    <2>2. slot' \in [Clients -> BOOLEAN]
      BY <1>0, <1>13 DEF ExportTypes, StorePackage, SetClient, readingVars, exportVars,
         admissionVars, transferVars, Works, Early
    <2>3. phase' \in [Clients -> {"ready", "running", "cancelled", "committing", "finished"}]
      BY <1>0, <1>13 DEF ExportTypes, StorePackage, SetClient, readingVars, exportVars,
         admissionVars, transferVars, Works, Early
    <2>4. owner' \in [Clients -> {"nobody", "handler", "body"}]
      BY <1>0, <1>13 DEF ExportTypes, StorePackage, SetClient, readingVars, exportVars,
         admissionVars, transferVars, Works, Early
    <2>5. client' \in [Clients -> {"idle", "waiting", "reading", "published", "failed"}]
      BY <1>0, <1>13 DEF ExportTypes, StorePackage, SetClient, readingVars, exportVars,
         admissionVars, transferVars, Works, Early
    <2>6. stored' \in [Clients -> BOOLEAN]
      BY <1>0, <1>13 DEF ExportTypes, StorePackage, SetClient, readingVars, exportVars,
         admissionVars, transferVars, Works, Early
    <2>7. work' \in [Readers -> Works]
      BY <1>0, <1>13 DEF ExportTypes, StorePackage, SetClient, readingVars, exportVars,
         admissionVars, transferVars, Works, Early
    <2>8. OnePermit'
      BY <1>0, <1>13 DEF ExportTypes, StorePackage, SetClient, readingVars, exportVars,
         admissionVars, transferVars, Works, Early, OnePermit
    <2>9. ExportInv(c)'
      BY <1>0, <1>13 DEF ExportTypes, StorePackage, SetClient, readingVars, exportVars,
         admissionVars, transferVars, Works, Early, ExportInv, Cancelled
    <2>10. OthersKept(c)
      BY <1>0, <1>13 DEF ExportTypes, StorePackage, SetClient, readingVars, exportVars,
         admissionVars, transferVars, Works, Early, OthersKept
    <2>11. QED
      BY <2>1, <2>2, <2>3, <2>4, <2>5, <2>6, <2>7, <2>8, <2>9, <2>10, ClientsKept
         DEF ExportsInv, ExportTypes
  <1>14. CASE BeginCommit(c)
    <2>1. permits' \in {0, 1}
      BY <1>0, <1>14 DEF ExportTypes, BeginCommit, SetPhase, Go, Cancelled, transferVars,
         exportVars, admissionVars, transferVars, Works, Early, OnePermit
    <2>2. slot' \in [Clients -> BOOLEAN]
      BY <1>0, <1>14 DEF ExportTypes, BeginCommit, SetPhase, Go, Cancelled, transferVars,
         exportVars, admissionVars, transferVars, Works, Early
    <2>3. phase' \in [Clients -> {"ready", "running", "cancelled", "committing", "finished"}]
      BY <1>0, <1>14 DEF ExportTypes, BeginCommit, SetPhase, Go, Cancelled, transferVars,
         exportVars, admissionVars, transferVars, Works, Early
    <2>4. owner' \in [Clients -> {"nobody", "handler", "body"}]
      BY <1>0, <1>14 DEF ExportTypes, BeginCommit, SetPhase, Go, Cancelled, transferVars,
         exportVars, admissionVars, transferVars, Works, Early
    <2>5. client' \in [Clients -> {"idle", "waiting", "reading", "published", "failed"}]
      BY <1>0, <1>14 DEF ExportTypes, BeginCommit, SetPhase, Go, Cancelled, transferVars,
         exportVars, admissionVars, transferVars, Works, Early
    <2>6. stored' \in [Clients -> BOOLEAN]
      BY <1>0, <1>14 DEF ExportTypes, BeginCommit, SetPhase, Go, Cancelled, transferVars,
         exportVars, admissionVars, transferVars, Works, Early
    <2>7. work' \in [Readers -> Works]
      BY <1>0, <1>14 DEF ExportTypes, BeginCommit, SetPhase, Go, Cancelled, transferVars,
         exportVars, admissionVars, transferVars, Works, Early
    <2>8. OnePermit'
      BY <1>0, <1>14 DEF ExportTypes, BeginCommit, SetPhase, Go, Cancelled, transferVars,
         exportVars, admissionVars, transferVars, Works, Early, OnePermit
    <2>9. ExportInv(c)'
      BY <1>0, <1>14 DEF ExportTypes, BeginCommit, SetPhase, Go, Cancelled, transferVars,
         exportVars, admissionVars, transferVars, Works, Early, ExportInv, Cancelled
    <2>10. OthersKept(c)
      BY <1>0, <1>14 DEF ExportTypes, BeginCommit, SetPhase, Go, Cancelled, transferVars,
         exportVars, admissionVars, transferVars, Works, Early, OthersKept
    <2>11. QED
      BY <2>1, <2>2, <2>3, <2>4, <2>5, <2>6, <2>7, <2>8, <2>9, <2>10, ClientsKept
         DEF ExportsInv, ExportTypes
  <1>15. CASE Publish(c)
    <2>1. permits' \in {0, 1}
      BY <1>0, <1>15 DEF ExportTypes, Publish, SetPhase, Go, exportVars, admissionVars,
         transferVars, Works, Early, OnePermit
    <2>2. slot' \in [Clients -> BOOLEAN]
      BY <1>0, <1>15 DEF ExportTypes, Publish, SetPhase, Go, exportVars, admissionVars,
         transferVars, Works, Early
    <2>3. phase' \in [Clients -> {"ready", "running", "cancelled", "committing", "finished"}]
      BY <1>0, <1>15 DEF ExportTypes, Publish, SetPhase, Go, exportVars, admissionVars,
         transferVars, Works, Early
    <2>4. owner' \in [Clients -> {"nobody", "handler", "body"}]
      BY <1>0, <1>15 DEF ExportTypes, Publish, SetPhase, Go, exportVars, admissionVars,
         transferVars, Works, Early
    <2>5. client' \in [Clients -> {"idle", "waiting", "reading", "published", "failed"}]
      BY <1>0, <1>15 DEF ExportTypes, Publish, SetPhase, Go, exportVars, admissionVars,
         transferVars, Works, Early
    <2>6. stored' \in [Clients -> BOOLEAN]
      BY <1>0, <1>15 DEF ExportTypes, Publish, SetPhase, Go, exportVars, admissionVars,
         transferVars, Works, Early
    <2>7. work' \in [Readers -> Works]
      BY <1>0, <1>15 DEF ExportTypes, Publish, SetPhase, Go, exportVars, admissionVars,
         transferVars, Works, Early
    <2>8. OnePermit'
      BY <1>0, <1>15 DEF ExportTypes, Publish, SetPhase, Go, exportVars, admissionVars,
         transferVars, Works, Early, OnePermit
    <2>9. ExportInv(c)'
      BY <1>0, <1>15 DEF ExportTypes, Publish, SetPhase, Go, exportVars, admissionVars,
         transferVars, Works, Early, ExportInv, Cancelled
    <2>10. OthersKept(c)
      BY <1>0, <1>15 DEF ExportTypes, Publish, SetPhase, Go, exportVars, admissionVars,
         transferVars, Works, Early, OthersKept
    <2>11. QED
      BY <2>1, <2>2, <2>3, <2>4, <2>5, <2>6, <2>7, <2>8, <2>9, <2>10, ClientsKept
         DEF ExportsInv, ExportTypes
  <1>16. CASE ReaderStep(c) /\ UNCHANGED exportVars
    <2>0. /\ work[c] \in Early \ {"selected", "prepared"}
          /\ \E label \in (Early \ {"prepared"}) \cup {"failed"} : Go(c, label)
      BY <1>0, <1>16, ReaderMoves DEF ExportTypes
    <2>1. permits' \in {0, 1}
      BY <1>0, <1>16, <2>0 DEF ExportTypes, Go, transferVars, Works, Early, OnePermit
    <2>2. slot' \in [Clients -> BOOLEAN]
      BY <1>0, <1>16, <2>0 DEF ExportTypes, Go, transferVars, Works, Early
    <2>3. phase' \in [Clients -> {"ready", "running", "cancelled", "committing", "finished"}]
      BY <1>0, <1>16, <2>0 DEF ExportTypes, Go, transferVars, Works, Early
    <2>4. owner' \in [Clients -> {"nobody", "handler", "body"}]
      BY <1>0, <1>16, <2>0 DEF ExportTypes, Go, transferVars, Works, Early
    <2>5. client' \in [Clients -> {"idle", "waiting", "reading", "published", "failed"}]
      BY <1>0, <1>16, <2>0 DEF ExportTypes, Go, transferVars, Works, Early
    <2>6. stored' \in [Clients -> BOOLEAN]
      BY <1>0, <1>16, <2>0 DEF ExportTypes, Go, transferVars, Works, Early
    <2>7. work' \in [Readers -> Works]
      BY <1>0, <1>16, <2>0 DEF ExportTypes, Go, transferVars, Works, Early
    <2>8. OnePermit'
      BY <1>0, <1>16, <2>0 DEF ExportTypes, Go, transferVars, Works, Early, OnePermit
    <2>9. ExportInv(c)'
      BY <1>0, <1>16, <2>0 DEF ExportTypes, Go, transferVars, Works, Early, ExportInv,
         Cancelled
    <2>10. OthersKept(c)
      BY <1>0, <1>16, <2>0 DEF ExportTypes, Go, transferVars, Works, Early, OthersKept
    <2>11. QED
      BY <2>1, <2>2, <2>3, <2>4, <2>5, <2>6, <2>7, <2>8, <2>9, <2>10, ClientsKept
         DEF ExportsInv, ExportTypes
  <1>17. QED
    BY <1>1, <1>2, <1>3, <1>4, <1>5, <1>6, <1>7, <1>8, <1>9, <1>10, <1>11, <1>12, <1>13,
       <1>14, <1>15, <1>16 DEF WorkerStep, HandlerStep, ClientStep

LEMMA ExportsInvariance == ExportSpec => []ExportsInv
  <1> USE ExportAssumption
  <1>1. ReadingInit /\ ExportInit => ExportsInv
    BY DEF ReadingInit, ExportInit, ExportsInv, ExportTypes, OnePermit, ExportInv, Works,
       Early
  <1>2. ExportsInv /\ [(RecorderNext /\ UNCHANGED exportVars) \/ ExportNext]_exportSystem
        => ExportsInv'
    <2> SUFFICES ASSUME ExportsInv,
                        [(RecorderNext /\ UNCHANGED exportVars) \/ ExportNext]_exportSystem
                 PROVE  ExportsInv'
      OBVIOUS
    <2>1. CASE UNCHANGED work /\ UNCHANGED exportVars
      BY <2>1 DEF ExportsInv, ExportTypes, OnePermit, ExportInv, exportVars, admissionVars,
                  transferVars
    <2>2. CASE ExportNext
      BY <2>2, StepKeepsInv DEF ExportNext
    <2>3. CASE UNCHANGED exportSystem
      BY <2>1, <2>3 DEF exportSystem, readingVars
    <2>4. QED
      BY <2>1, <2>2, <2>3, RecorderAlone
  <1>3. QED
    BY <1>1, <1>2, PTL DEF ExportSpec

\* The semaphore, the phases and the drops of owner, worker and body never do
\* what ExportAdmission does not allow: the admission passes from nobody to
\* one export and from it to nobody, for any number of clients.
THEOREM ExportsAreAdmitted == ExportSpec => Admission!Safety
  <1> USE ExportAssumption DEF Admission!Init, Admission!Next, Admission!Acquire,
          Admission!Release
  <1>1. ExportInit => Admission!Init
    BY DEF ExportInit, Holder
  <1>2. ExportsInv /\ ExportsInv' /\ [(RecorderNext /\ UNCHANGED exportVars) \/ ExportNext]_exportSystem
        => [Admission!Next]_Holder
    <2> SUFFICES ASSUME ExportsInv, ExportsInv',
                        [(RecorderNext /\ UNCHANGED exportVars) \/ ExportNext]_exportSystem
                 PROVE  [Admission!Next]_Holder
      OBVIOUS
    <2>1. CASE UNCHANGED slot
      BY <2>1 DEF Holder
    <2>2. ASSUME NEW c \in Clients, BeginExport(c), ~ UNCHANGED slot
          PROVE  Admission!Next
      <3>1. /\ permits = 1 /\ slot' = [slot EXCEPT ![c] = TRUE] /\ permits' = 0
        BY <2>2 DEF BeginExport, admissionVars
      <3>2. Holder = NoClient
        BY <3>1 DEF Holder, ExportsInv, OnePermit
      <3>3. slot'[c] /\ \A d \in Clients : slot'[d] => d = c
        BY <3>1 DEF ExportsInv, ExportTypes, OnePermit
      <3>4. Holder' = c
        BY <3>3 DEF Holder
      <3>5. QED
        BY <3>2, <3>4
    <2>3. ASSUME NEW c \in Clients, ReleaseAdmission(c), ~ UNCHANGED slot
          PROVE  Admission!Next
      <3>1. slot' = [slot EXCEPT ![c] = FALSE] /\ slot[c]
        BY <2>3 DEF ReleaseAdmission, ExportsInv, ExportTypes
      <3>2. \A d \in Clients : slot[d] => d = c
        BY <3>1 DEF ExportsInv, OnePermit
      <3>3. Holder = c
        BY <3>1, <3>2 DEF Holder
      <3>4. Holder' = NoClient
        BY <3>1, <3>2 DEF Holder, ExportsInv, ExportTypes
      <3>5. QED
        BY <3>3, <3>4
    <2>4. ASSUME ExportNext
          PROVE  \/ UNCHANGED slot
                 \/ \E c \in Clients : BeginExport(c) \/ ReleaseAdmission(c)
      BY <2>4 DEF ExportNext, WorkerStep, HandlerStep, ClientStep, exportVars,
         admissionVars,
         PreparePackage, DropPrepared, SendChunk, DropBody, FinishBody, BeginCommit, Publish,
         CancelWorker, StartBody, AnswerError, ReceiveChunk, StorePackage, ClientLeaves, CancelOwner
    <2>5. QED
      BY <2>1, <2>2, <2>3, <2>4 DEF exportSystem, exportVars, admissionVars
  <1>3. QED
    BY <1>1, <1>2, ExportsInvariance, PTL DEF ExportSpec, Admission!Safety

\* Whoever leaves, fails or cancels and when: a package appears at its path
\* only complete, and never after the operation was cancelled.
THEOREM PackagesAreStoredWhole == ExportSpec => [][StoresWhole]_exportSystem
  <1>1. ExportsInv /\ [(RecorderNext /\ UNCHANGED exportVars) \/ ExportNext]_exportSystem
        => [StoresWhole]_exportSystem
    <2> SUFFICES ASSUME ExportsInv,
                        [(RecorderNext /\ UNCHANGED exportVars) \/ ExportNext]_exportSystem
                 PROVE  [StoresWhole]_exportSystem
      OBVIOUS
    <2>1. CASE UNCHANGED stored
      BY <2>1 DEF StoresWhole
    <2>2. ASSUME NEW c \in Clients, StorePackage(c)
          PROVE  StoresWhole
      <3>1. /\ client[c] = "reading" /\ received[c] = Chunks
            /\ \A d \in Clients : d # c => stored'[d] = stored[d]
        BY <2>2 DEF StorePackage, ExportsInv, ExportTypes
      <3>2. phase[c] # "cancelled"
        BY <3>1 DEF ExportsInv, ExportInv
      <3>3. QED
        BY <3>1, <3>2 DEF StoresWhole
    <2>3. ASSUME NEW c \in Clients, Publish(c)
          PROVE  StoresWhole
      <3>1. /\ work[c] = "commit" /\ \A d \in Clients : d # c => stored'[d] = stored[d]
        BY <2>3 DEF Publish, ExportsInv, ExportTypes
      <3>2. phase[c] = "committing"
        BY <3>1 DEF ExportsInv, ExportInv
      <3>3. QED
        BY <3>1, <3>2 DEF StoresWhole
    <2>4. ASSUME ExportNext
          PROVE  \/ UNCHANGED stored
                 \/ \E c \in Clients : StorePackage(c) \/ Publish(c)
      BY <2>4 DEF ExportNext, WorkerStep, HandlerStep, ClientStep, exportVars, transferVars,
         BeginExport, PreparePackage, DropPrepared, SendChunk, DropBody, FinishBody, BeginCommit,
         CancelWorker, ReleaseAdmission, StartBody, AnswerError, ReceiveChunk, ClientLeaves
    <2>5. QED
      BY <2>1, <2>2, <2>3, <2>4 DEF exportSystem, exportVars, transferVars
  <1>2. QED
    BY <1>1, ExportsInvariance, PTL DEF ExportSpec
=============================================================================
