----------------------------- MODULE MCReading -----------------------------
(* One recorder with either the exports or a paging log client beside it;  *)
(* or the archive of one package, built and verified.                      *)
EXTENDS Export, SupportArchive

\* Events 1 and 2 share a timestamp, and their identifiers are the other way round.
Keys == <<2, 1, 3>>

\* Three sources: they share events, and may disagree on one.
SourceEvents == (1..3) \X {"text"}
PackageSources ==
  {l \in {<< <<a>>, <<b, c>>, d >> : a, b, c \in SourceEvents,
                                    d \in {<<>>, << <<2, "text">> >>, << <<2, "else">> >>,
                                           << <<1, "text">>, <<4, "text">> >>}} :
     l[2][1][1] < l[2][2][1]}

VARIABLE cast

vars == <<recorderVars, readingVars, exportVars, logVars, archiveVars, cast>>

Init ==
  /\ ReadingInit /\ ExportInit /\ LogInit /\ ArchiveInit
  /\ cast \in {"exports", "logs", "archive"}
  /\ cast # "logs" => order = [l \in Loggers |-> "asc"]
  /\ cast # "archive" => leases = CHOOSE l \in Sources : TRUE

Next ==
  /\ UNCHANGED cast
  /\ \/ cast # "archive" /\ RecorderNext /\ UNCHANGED <<exportVars, logVars, archiveVars>>
     \/ cast = "exports" /\ ExportNext /\ UNCHANGED <<logVars, archiveVars>>
     \/ cast = "logs" /\ LogNext /\ UNCHANGED <<exportVars, archiveVars>>
     \/ cast = "archive" /\ ArchiveNext /\ UNCHANGED <<recorderVars, readingVars, exportVars, logVars>>

Spec == Init /\ [][Next]_vars
        /\ \A c \in Clients : /\ WF_vars(WorkerStep(c) /\ UNCHANGED <<logVars, archiveVars, cast>>)
                              /\ WF_vars(HandlerStep(c) /\ UNCHANGED <<logVars, archiveVars, cast>>)
                              /\ WF_vars(ClientStep(c) /\ UNCHANGED <<logVars, archiveVars, cast>>)

\* What a package says of itself is true: its events are recorded events the
\* filters match, in order and counted, and when it does not say that events
\* were left out, it has every event its reading had no excuse to miss
\* (prepare_export).
PackageIsTrue ==
  \A c \in Clients : work[c] = "prepared" =>
    LET p == package[c] IN
    /\ Numbers(p.events) \subseteq Matching \cap (1..(next - 1))
    /\ p.count = Len(p.events)
    /\ \A i \in 1..(Len(p.events) - 1) : p.events[i] < p.events[i + 1]
    /\ ~ p.truncated => sure[c] \cap Matching \subseteq Numbers(p.events)

\* A package tells the truth about the recorder, and its archive is accepted
\* exactly when it holds what was selected (verify_pinned_archive).
PackageTellsTheTruth == PackageIsTrue /\ VerificationIsExact

\* A client that pages through the log sees no event twice, and skips none
\* that was there to be read (SelectedLogs, build_logs).
PagesAreSound == \A l \in Loggers : ShownInOrder(l) /\ NoGap(l)

\* The coordinator's semaphore, the phases and the drops of owner, worker and
\* body together implement one admission that is given up by its holder alone
\* and always is, whoever leaves or fails and when (ExportAdmission).  And a
\* package is stored only whole, never for an operation that was cancelled
\* before its commit began (ExportOperation::begin_commit).
OneExportAtATime == Admission!Spec /\ [][StoresWhole]_vars
=============================================================================
