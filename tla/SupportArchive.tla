--------------------------- MODULE SupportArchive ---------------------------
(***************************************************************************)
(* The archive of a support package                                        *)
(* (crates/wokcore-diagnostics/src/export.rs): a merge of the sources for  *)
(* the sizes and sums, a second merge for the contents, the headers around *)
(* them, and the verification that reads all of it back.                   *)
(*                                                                         *)
(* An event is <<sequence, text>>, its size one unit; a header is one unit *)
(* too.  Sums are injective: what they add up is found in them again.      *)
(***************************************************************************)
EXTENDS Naturals, Sequences, FiniteSets, SequencesExt

CONSTANTS
  Sources,       \* segments, snapshots and the staged ring, as they may be
  MaxEvents,     \* MAX_EXPORT_EVENT_BYTES
  Omitted        \* events the selection left out

VARIABLES
  leases,     \* the sources of this package, each in ascending order
  stage,      \* metadata, write, verify, accepted, refused
  heads,      \* position in each source
  merged,     \* the events emitted by the pass
  meta,       \* metadata_for_events: size, sum and count
  archive,    \* locals, central directory, end record, trailing bytes
  harmed      \* history: did the storage or a source change under the writer

archiveVars == <<leases, stage, heads, merged, meta, archive, harmed>>

Entries == <<"manifest", "events", "configuration", "resources", "checksums">>
Crc(body) == <<"crc", body>>
Sha(body) == <<"sha", body>>
NoMeta == [size |-> 0, crc |-> Crc(<<>>), sha |-> Sha(<<>>), count |-> 0]
NoArchive == [locals |-> <<>>, central |-> <<>>, end |-> <<>>, trailing |-> 0]

ArchiveInit ==
  /\ leases \in Sources
  /\ stage = "metadata"
  /\ heads = [s \in DOMAIN leases |-> 1]
  /\ merged = <<>> /\ meta = NoMeta /\ archive = NoArchive /\ harmed = FALSE

-----------------------------------------------------------------------------
(* MergedPersistentEvents.                                                 *)

Pending == {s \in DOMAIN leases : heads[s] <= Len(leases[s])}
Current(s) == leases[s][heads[s]]
Smallest == CHOOSE n \in {Current(s)[1] : s \in Pending} :
              \A s \in Pending : n <= Current(s)[1]
At(n) == {s \in Pending : Current(s)[1] = n}

\* next_event: the smallest sequence, once, provided that all the sources
\* that have it agree; every one of them advances.
Merge ==
  /\ stage \in {"metadata", "write"} /\ Pending # {}
  /\ LET same == At(Smallest) IN
     IF Cardinality({Current(s) : s \in same}) > 1 \/ Len(merged) = MaxEvents
     THEN stage' = "refused" /\ UNCHANGED <<heads, merged>>
     ELSE /\ merged' = Append(merged, Current(CHOOSE s \in same : TRUE))
          /\ heads' = [s \in DOMAIN leases |-> IF s \in same THEN heads[s] + 1 ELSE heads[s]]
          /\ UNCHANGED stage
  /\ UNCHANGED <<leases, meta, archive, harmed>>

\* metadata_for_events has come to the end.
Measured ==
  /\ stage = "metadata" /\ Pending = {}
  /\ meta' = [size |-> Len(merged), crc |-> Crc(merged), sha |-> Sha(merged), count |-> Len(merged)]
  /\ stage' = "write"
  /\ heads' = [s \in DOMAIN leases |-> 1] /\ merged' = <<>>
  /\ UNCHANGED <<leases, archive, harmed>>

-----------------------------------------------------------------------------
(* Writing.                                                                *)

Manifest == [count |-> meta.count, truncated |-> Omitted > 0, omitted |-> Omitted]

\* metadata_for_bytes and checksum_document.
Described(name, body) == [name |-> name, size |-> Len(body), crc |-> Crc(body), sha |-> Sha(body), body |-> body]
SmallEntries ==
  [manifest |-> Described("manifest", <<Manifest>>),
   events |-> [name |-> "events", size |-> meta.size, crc |-> meta.crc, sha |-> meta.sha, body |-> merged],
   configuration |-> Described("configuration", <<"configuration">>),
   resources |-> Described("resources", <<"resources">>)]
ChecksumDocument == [i \in 1..4 |-> <<SmallEntries[Entries[i]].sha, Entries[i]>>]
Written(i) == IF i = 5 THEN Described("checksums", ChecksumDocument) ELSE SmallEntries[Entries[i]]

\* write_local_header takes the offset before it writes, the body follows.
RECURSIVE LengthBefore(_)
LengthBefore(i) == IF i = 1 THEN 0 ELSE LengthBefore(i - 1) + 1 + Len(Written(i - 1).body)

CentralRecord(i) == [name |-> Written(i).name, size |-> Written(i).size, crc |-> Written(i).crc,
                     offset |-> LengthBefore(i)]

\* prepare_support_package from the entries to complete: the second merge has
\* come to the end, the central directory and the end record close the file.
WriteArchive ==
  /\ stage = "write" /\ Pending = {}
  /\ archive' = [locals |-> [i \in 1..5 |-> [name |-> Written(i).name, size |-> Written(i).size,
                                             crc |-> Written(i).crc, body |-> Written(i).body]],
                 central |-> [i \in 1..5 |-> CentralRecord(i)],
                 end |-> [entries |-> 5, size |-> 5,
                          offset |-> LengthBefore(5) + 1 + Len(Written(5).body)],
                 trailing |-> 0]
  /\ stage' = "verify" /\ merged' = <<>>
  /\ UNCHANGED <<leases, heads, meta, harmed>>

\* What may go wrong below: a source reads differently in the second pass, a
\* body, a header, the directory or the end of the file comes back changed.
Harm ==
  /\ ~ harmed /\ harmed' = TRUE
  /\ \/ /\ stage = "write"
        /\ \E s \in DOMAIN leases : \E i \in DOMAIN leases[s] :
             /\ i >= heads[s]
             /\ leases' = [leases EXCEPT ![s][i] = <<@[1], "other">>]
        /\ UNCHANGED archive
     \/ /\ stage = "verify" /\ UNCHANGED leases
        /\ \/ \E i \in 1..5 : archive.locals[i].body # <<>>
                /\ archive' = [archive EXCEPT !.locals[i].body = Tail(@)]
           \/ \E i \in 1..5 : archive' = [archive EXCEPT !.locals[i].size = @ + 1]
           \/ \E i \in 1..5 : archive' = [archive EXCEPT !.central[i].offset = @ + 1]
           \/ archive' = [archive EXCEPT !.end.offset = @ + 1]
           \/ archive' = [archive EXCEPT !.trailing = 1]
  /\ UNCHANGED <<stage, heads, merged, meta>>

-----------------------------------------------------------------------------
(* verify_support_package_reader.                                          *)

Ascending(body) == \A i \in 1..(Len(body) - 1) : body[i][1] < body[i + 1][1]

RECURSIVE OffsetOf(_, _)
OffsetOf(locals, i) == IF i = 1 THEN 0 ELSE OffsetOf(locals, i - 1) + 1 + locals[i - 1].size

\* Each header is the expected one, the body has its size and its sum, the
\* events ascend.
LocalsHold(a) ==
  \A i \in 1..5 :
    /\ a.locals[i].name = Entries[i]
    /\ a.locals[i].size = Len(a.locals[i].body)
    /\ a.locals[i].crc = Crc(a.locals[i].body)
    /\ Entries[i] = "events" => Ascending(a.locals[i].body) /\ a.locals[i].size <= MaxEvents

\* The checksums are those of the bodies read, and the manifest tells their
\* number.
DocumentsHold(a) ==
  /\ a.locals[5].body = [i \in 1..4 |-> <<Sha(a.locals[i].body), Entries[i]>>]
  /\ Len(a.locals[1].body) = 1
  /\ a.locals[1].body[1].count = Len(a.locals[2].body)
  /\ a.locals[1].body[1].truncated <=> a.locals[1].body[1].omitted > 0

\* Directory and end record point back at what was read, and nothing follows.
DirectoryHolds(a) ==
  /\ \A i \in 1..5 :
       a.central[i] = [name |-> Entries[i], size |-> a.locals[i].size, crc |-> a.locals[i].crc,
                       offset |-> OffsetOf(a.locals, i)]
  /\ a.end = [entries |-> 5, size |-> 5, offset |-> OffsetOf(a.locals, 5) + 1 + a.locals[5].size]
  /\ a.trailing = 0

Verify ==
  /\ stage = "verify"
  /\ stage' = IF LocalsHold(archive) /\ DocumentsHold(archive) /\ DirectoryHolds(archive)
              THEN "accepted" ELSE "refused"
  /\ UNCHANGED <<leases, heads, merged, meta, archive, harmed>>

ArchiveNext == Merge \/ Measured \/ WriteArchive \/ Harm \/ Verify

-----------------------------------------------------------------------------
Union == UNION {ToSet(leases[s]) : s \in DOMAIN leases}
Agree == \A e, f \in Union : e[1] = f[1] => e = f

\* The verification accepts exactly the packages it should: what it accepts
\* holds every event of the sources once and in order with a manifest that
\* counts them, and what was neither contradictory, too large nor harmed is
\* accepted.
VerificationIsExact ==
  /\ stage = "accepted" =>
       LET events == archive.locals[2].body IN
       /\ Agree /\ ToSet(events) = Union /\ Ascending(events)
       /\ archive.locals[1].body[1] = [count |-> Cardinality(Union), truncated |-> Omitted > 0, omitted |-> Omitted]
  /\ stage = "refused" => harmed \/ ~ Agree \/ Cardinality(Union) > MaxEvents
=============================================================================
