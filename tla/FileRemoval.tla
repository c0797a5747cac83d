---------------------------- MODULE FileRemoval ----------------------------
(***************************************************************************)
(* Removal of diagnostic files on Unix                                     *)
(* (crates/wokcore-platform/src/diagnostics.rs): a file is renamed to a    *)
(* numbered tombstone that a marker documents, emptied, and unlinked, and  *)
(* what a crash leaves of this is reclaimed through the marker.            *)
(*                                                                         *)
(* A file is its identity.  Handles are the DiagnosticDirectory values of  *)
(* one process (segment retention, snapshot retention); readers hold the   *)
(* shared lock of open_read.  Other programs may put another file at a     *)
(* name, but stay away from the reserved names.                            *)
(***************************************************************************)
EXTENDS Naturals, FiniteSets

CONSTANTS
  Handles, Nobody,
  Names,         \* visible file names
  Own,           \* Own[n]: the diagnostic file at n to begin with
  Foreign,       \* files of other programs
  NoFile,          \* no file, no marker
  Partial,       \* a marker whose contents are not complete
  Slots,         \* 0..MAX_DIAGNOSTIC_DELETE_TOMBSTONES - 1
  MaxCrashes

Owned == {Own[n] : n \in Names}
Files == {Own[n] : n \in Names} \cup Foreign
SlotCount == Cardinality(Slots)

\* Identities are distinct, and the slots are numbered from zero.
Distinct ==
  /\ \A n, m \in Names : Own[n] = Own[m] => n = m
  /\ Owned \cap Foreign = {} /\ NoFile \notin Files /\ Partial \notin Files /\ NoFile # Partial
  /\ Nobody \notin Handles
  /\ SlotCount \in Nat \ {0} /\ Slots = 0..(SlotCount - 1)
ASSUME RemovalIdentities == Distinct

VARIABLES
  at,        \* at[n]: the file a visible name leads to
  content,   \* content[f]: data, empty
  tomb,      \* tomb[s]: the file renamed to tombstone s
  marker,    \* marker[s]: what the marker of s documents
  lease,     \* files a reader holds open
  fileLock, markerLock, parentLock,     \* exclusive locks
  nextSlot,  \* next_delete_tombstone_slot of each handle
  pc,        \* what each handle does next
  job,       \* the removal each handle works on
  crashes,
  asked      \* history: files to be removed, or replaced by another program

disk == <<at, content, tomb, marker>>
locks == <<fileLock, markerLock, parentLock>>
removalVars == <<disk, lease, locks, nextSlot, pc, job, crashes, asked>>

Job(name, file, slot, first, tries) ==
  [name |-> name, file |-> file, slot |-> slot, first |-> first, tries |-> tries]
NoJob == Job(NoFile, NoFile, 0, SlotCount, 0)

RemovalInit ==
  /\ at = [n \in Names |-> Own[n]]
  /\ content = [f \in Files |-> "data"]
  /\ tomb = [s \in Slots |-> NoFile] /\ marker = [s \in Slots |-> NoFile]
  /\ lease = {}
  /\ fileLock = [f \in Files |-> Nobody]
  /\ markerLock = [s \in Slots |-> Nobody]
  /\ parentLock = Nobody
  /\ nextSlot = [h \in Handles |-> 0]
  /\ pc = [h \in Handles |-> "closed"]
  /\ job = [h \in Handles |-> NoJob]
  /\ crashes = 0 /\ asked = {}

Go(h, label) == pc' = [pc EXCEPT ![h] = label]
SetJob(h, j) == job' = [job EXCEPT ![h] = j]
TakeParent(h) == parentLock' = h
FreeParent == parentLock' = Nobody

\* What closing its files frees of a handle.
Unlocked(h) ==
  /\ fileLock' = [f \in Files |-> IF fileLock[f] = h THEN Nobody ELSE fileLock[f]]
  /\ markerLock' = [s \in Slots |-> IF markerLock[s] = h THEN Nobody ELSE markerLock[s]]
  /\ parentLock' = IF parentLock = h THEN Nobody ELSE parentLock

\* The removal ends, with an error or without.
End(h) == Unlocked(h) /\ Go(h, "open") /\ SetJob(h, NoJob)

-----------------------------------------------------------------------------
(* Readers and other programs.                                             *)

\* open_read takes the shared lock, or fails.
Lease(f) ==
  /\ f \notin lease /\ fileLock[f] = Nobody /\ \E n \in Names : at[n] = f
  /\ lease' = lease \cup {f}
  /\ UNCHANGED <<disk, locks, nextSlot, pc, job, crashes, asked>>

EndLease(f) ==
  /\ f \in lease
  /\ lease' = lease \ {f}
  /\ UNCHANGED <<disk, locks, nextSlot, pc, job, crashes, asked>>

\* Another program renames its file over a diagnostic file: that one is gone.
Replace(n, f) ==
  /\ f \in Foreign /\ at[n] # NoFile /\ at[n] \notin Foreign
  /\ \A m \in Names : at[m] # f
  /\ \A s \in Slots : tomb[s] # f
  /\ at' = [at EXCEPT ![n] = f]
  /\ asked' = asked \cup {at[n]}
  /\ UNCHANGED <<content, tomb, marker, lease, locks, nextSlot, pc, job, crashes>>

-----------------------------------------------------------------------------
(* Reclaiming one slot, with the parent lock held.                         *)

Occupied(s) == tomb[s] # NoFile \/ marker[s] # NoFile

\* reclaim_delete_tombstone_slot_locked of a slot nobody removes through:
\* the marker must be complete, unlocked and document the very file there.
MayReclaim(s) ==
  /\ marker[s] \in Files /\ markerLock[s] = Nobody
  /\ tomb[s] = marker[s] /\ fileLock[tomb[s]] = Nobody

MarkerOnly(s) == marker[s] # NoFile /\ tomb[s] = NoFile

\* The steps of it: empty the file, unlink it, unlink the marker.
EmptyTomb(s) ==
  /\ content' = [content EXCEPT ![tomb[s]] = "empty"]
  /\ UNCHANGED <<at, tomb, marker>>
UnlinkTomb(s) == tomb' = [tomb EXCEPT ![s] = NoFile] /\ UNCHANGED <<at, content, marker>>
UnlinkMarker(s) == marker' = [marker EXCEPT ![s] = NoFile] /\ UNCHANGED <<at, content, tomb>>

ReclaimStep(s) ==
  \/ MarkerOnly(s) /\ UnlinkMarker(s)
  \/ MayReclaim(s) /\ content[tomb[s]] # "empty" /\ EmptyTomb(s)
  \/ MayReclaim(s) /\ content[tomb[s]] = "empty" /\ UnlinkTomb(s)

Reclaimable(s) == MarkerOnly(s) \/ MayReclaim(s)

-----------------------------------------------------------------------------
(* DiagnosticDirectory::open: initial_delete_tombstone_slot.               *)

\* The scan needs the parent lock; without it the handle starts at the end.
OpenDirectory(h) ==
  /\ pc[h] = "closed"
  /\ IF parentLock = Nobody
     THEN TakeParent(h) /\ Go(h, "scan") /\ SetJob(h, NoJob) /\ UNCHANGED nextSlot
     ELSE Go(h, "open") /\ UNCHANGED <<parentLock, job>>
          /\ nextSlot' = [nextSlot EXCEPT ![h] = SlotCount]
  /\ UNCHANGED <<disk, lease, fileLock, markerLock, crashes, asked>>

\* Slots are visited in order up to the first free one, each occupied one
\* reclaimed if it can be; claims begin at the first slot that is free then.
ScanSlot(h) ==
  LET s == job[h].slot IN
  /\ pc[h] = "scan"
  /\ IF s \in Slots /\ Occupied(s)
     THEN /\ IF Reclaimable(s) THEN ReclaimStep(s) ELSE UNCHANGED disk
          /\ \/ MayReclaim(s) /\ UNCHANGED job
             \/ /\ ~ MayReclaim(s)
                /\ SetJob(h, Job(NoFile, NoFile, s + 1,
                                 IF MarkerOnly(s) /\ job[h].first = SlotCount THEN s
                                 ELSE job[h].first, 0))
          /\ UNCHANGED <<parentLock, nextSlot, pc>>
     ELSE /\ nextSlot' = [nextSlot EXCEPT ![h] = IF job[h].first = SlotCount THEN s
                                                ELSE job[h].first]
          /\ FreeParent /\ Go(h, "open") /\ SetJob(h, NoJob) /\ UNCHANGED disk
  /\ UNCHANGED <<lease, fileLock, markerLock, crashes, asked>>

-----------------------------------------------------------------------------
(* remove_open_file.                                                       *)

\* DiagnosticFile::remove of the file the handle opened at n, while no reader
\* has it: the exclusive lock, then the parent lock of the reservation.
BeginRemove(h, n) ==
  /\ pc[h] = "open" /\ at[n] \in {Own[m] : m \in Names}
  /\ fileLock[at[n]] = Nobody /\ at[n] \notin lease /\ parentLock = Nobody
  /\ asked' = asked \cup {at[n]}
  /\ fileLock' = [fileLock EXCEPT ![at[n]] = h]
  /\ TakeParent(h)
  /\ SetJob(h, Job(n, at[n], 0, SlotCount, 0))
  /\ Go(h, "claim")
  /\ UNCHANGED <<disk, lease, markerLock, nextSlot, crashes>>

\* claim_delete_tombstone_slot, as often as there are slots.
ClaimSlot(h) ==
  LET s == IF nextSlot[h] >= SlotCount THEN 0 ELSE nextSlot[h] IN
  /\ pc[h] = "claim"
  /\ IF job[h].tries = SlotCount
     THEN End(h) /\ UNCHANGED nextSlot
     ELSE /\ nextSlot' = [nextSlot EXCEPT ![h] = (s + 1) % SlotCount]
          /\ SetJob(h, Job(job[h].name, job[h].file, s, SlotCount, job[h].tries + 1))
          /\ Go(h, "clear") /\ UNCHANGED locks
  /\ UNCHANGED <<disk, lease, crashes, asked>>

ClearSlot(h) ==
  LET s == job[h].slot IN
  /\ pc[h] = "clear"
  /\ \/ Reclaimable(s) /\ ReclaimStep(s) /\ UNCHANGED pc
     \/ ~ Reclaimable(s) /\ UNCHANGED disk /\ Go(h, IF Occupied(s) THEN "claim" ELSE "mark")
  /\ UNCHANGED <<lease, locks, nextSlot, job, crashes, asked>>

\* create_delete_tombstone_marker_locked: created and locked, then written.
CreateMarker(h) ==
  LET s == job[h].slot IN
  /\ pc[h] = "mark"
  /\ marker' = [marker EXCEPT ![s] = Partial]
  /\ markerLock' = [markerLock EXCEPT ![s] = h]
  /\ Go(h, "write")
  /\ UNCHANGED <<at, content, tomb, lease, fileLock, parentLock, nextSlot, job, crashes, asked>>

WriteMarker(h) ==
  LET s == job[h].slot IN
  /\ pc[h] = "write"
  /\ marker' = [marker EXCEPT ![s] = job[h].file]
  /\ Go(h, "rename")
  /\ UNCHANGED <<at, content, tomb, lease, locks, nextSlot, job, crashes, asked>>

\* The name must still lead to the file: if not, the marker is discarded.
CheckName(h) ==
  /\ pc[h] = "rename"
  /\ IF at[job[h].name] = job[h].file
     THEN Go(h, "move") /\ UNCHANGED <<marker, locks, job>>
     ELSE marker' = [marker EXCEPT ![job[h].slot] = NoFile] /\ End(h)
  /\ UNCHANGED <<at, content, tomb, lease, nextSlot, crashes, asked>>

\* The rename moves whatever the name leads to by now.
MoveToTomb(h) ==
  LET s == job[h].slot  n == job[h].name IN
  /\ pc[h] = "move"
  /\ tomb' = [tomb EXCEPT ![s] = at[n]]
  /\ at' = [at EXCEPT ![n] = NoFile]
  /\ Go(h, "verify")
  /\ UNCHANGED <<content, marker, lease, locks, nextSlot, job, crashes, asked>>

\* A removal that empties what it finds in the tombstone.
VerifyNothing(h) ==
  /\ pc[h] = "verify"
  /\ FreeParent /\ Go(h, "empty")
  /\ SetJob(h, Job(job[h].name, tomb[job[h].slot], job[h].slot, SlotCount, job[h].tries))
  /\ UNCHANGED <<disk, lease, fileLock, markerLock, nextSlot, crashes, asked>>

\* Another file was moved: it stays where it is, the removal fails.  The
\* reservation gives the parent lock back either way.
VerifyTomb(h) ==
  /\ pc[h] = "verify"
  /\ IF tomb[job[h].slot] = job[h].file
     THEN FreeParent /\ Go(h, "empty") /\ UNCHANGED <<fileLock, markerLock, job>>
     ELSE End(h)
  /\ UNCHANGED <<disk, lease, nextSlot, crashes, asked>>

EmptyFile(h) ==
  /\ pc[h] = "empty"
  /\ content' = [content EXCEPT ![job[h].file] = "empty"]
  /\ Go(h, "unlink")
  /\ UNCHANGED <<at, tomb, marker, lease, locks, nextSlot, job, crashes, asked>>

\* reclaim_delete_tombstone_slot of its own slot, which needs the parent lock
\* again; without it the slot is left to a later reclamation.
UnlinkOwn(h) ==
  LET s == job[h].slot IN
  /\ pc[h] = "unlink"
  /\ IF parentLock = Nobody /\ tomb[s] = job[h].file
     THEN TakeParent(h) /\ UnlinkTomb(s) /\ Go(h, "unmark")
          /\ UNCHANGED <<fileLock, markerLock, job>>
     ELSE End(h) /\ UNCHANGED disk
  /\ UNCHANGED <<lease, nextSlot, crashes, asked>>

UnmarkOwn(h) ==
  /\ pc[h] = "unmark"
  /\ UnlinkMarker(job[h].slot)
  /\ End(h)
  /\ UNCHANGED <<lease, nextSlot, crashes, asked>>

RemoveStep(h) ==
  \/ ClaimSlot(h) \/ ClearSlot(h) \/ CreateMarker(h) \/ WriteMarker(h) \/ CheckName(h)
  \/ MoveToTomb(h) \/ VerifyTomb(h) \/ EmptyFile(h) \/ UnlinkOwn(h) \/ UnmarkOwn(h)

-----------------------------------------------------------------------------
\* The process dies: its locks go, its files stay.
Crash ==
  /\ crashes < MaxCrashes
  /\ crashes' = crashes + 1
  /\ lease' = {}
  /\ fileLock' = [f \in Files |-> Nobody]
  /\ markerLock' = [s \in Slots |-> Nobody]
  /\ parentLock' = Nobody
  /\ pc' = [h \in Handles |-> "closed"]
  /\ job' = [h \in Handles |-> NoJob]
  /\ UNCHANGED <<disk, nextSlot, asked>>

RemovalNext ==
  \/ \E h \in Handles : OpenDirectory(h) \/ ScanSlot(h) \/ RemoveStep(h)
  \/ \E h \in Handles, n \in Names : BeginRemove(h, n)
  \/ \E f \in Files : Lease(f) \/ EndLease(f)
  \/ \E n \in Names, f \in Files : Replace(n, f)
  \/ Crash

RemovalSpec == RemovalInit /\ [][RemovalNext]_removalVars

-----------------------------------------------------------------------------
Linked(f) == (\E n \in Names : at[n] = f) \/ (\E s \in Slots : tomb[s] = f)

AskedAreLost ==
  /\ \A f \in Files : content[f] = "empty" \/ ~ Linked(f) => f \in asked \cup Foreign
  /\ \A f \in Foreign : content[f] = "data"
  /\ \A f \in lease : content[f] = "data"

SlotsAreExplained ==
  \A s \in Slots : Occupied(s) =>
    \/ MarkerOnly(s)
    \/ marker[s] \in Files /\ (tomb[s] = marker[s] \/ tomb[s] \in Foreign)

\* Nothing is emptied or unlinked but what was asked to go, whoever put which
\* file where meanwhile and wherever a crash came; no file is emptied while a
\* reader holds it; and a crash at any point leaves only slots that the marker
\* explains: one that can be reclaimed, or one that keeps another program's
\* file untouched (remove_open_file, reclaim_delete_tombstone_slot_locked).
OnlyAskedIsLost == AskedAreLost /\ SlotsAreExplained
=============================================================================
