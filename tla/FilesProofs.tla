---------------------------- MODULE FilesProofs ----------------------------
(***************************************************************************)
(* Proofs about FileRemoval, for any files, handles and tombstone slots,   *)
(* and about PinnedFile.                                                   *)
(***************************************************************************)
EXTENDS FileRemoval, PinnedFile, TLAPS

(* FileRemoval.  The parent lock serialises all changes of the reserved    *)
(* names but one: a removal gives it back before it empties its file, and  *)
(* from then on its locks on file and marker keep others from reclaiming   *)
(* the slot.  A marker only ever documents a file that was asked to go.    *)

Places == {"closed", "open", "scan", "claim", "clear", "mark", "write", "rename", "move",
           "verify", "empty", "unlink", "unmark"}
Jobs == [name : Names \cup {NoFile}, file : Files \cup {NoFile}, slot : Nat, first : Nat, tries : Nat]

Types ==
  /\ at \in [Names -> Files \cup {NoFile}]
  /\ content \in [Files -> {"data", "empty"}]
  /\ tomb \in [Slots -> Files \cup {NoFile}]
  /\ marker \in [Slots -> Owned \cup {NoFile, Partial}]
  /\ lease \subseteq Files
  /\ fileLock \in [Files -> Handles \cup {Nobody}]
  /\ markerLock \in [Slots -> Handles \cup {Nobody}]
  /\ parentLock \in Handles \cup {Nobody}
  /\ nextSlot \in [Handles -> Nat]
  /\ pc \in [Handles -> Places]
  /\ job \in [Handles -> Jobs]
  /\ asked \subseteq Files

\* What a handle holds, and what is true of its file, at each step of a removal.
HandleInv(h) ==
  LET f == job[h].file  s == job[h].slot IN
  /\ pc[h] \in Places \ {"closed", "open", "empty", "unlink"} => parentLock = h
  /\ pc[h] \notin {"closed", "open", "scan"} =>
       f \in Owned \cap asked /\ fileLock[f] = h /\ f \notin lease /\ job[h].name \in Names
  /\ pc[h] \notin {"closed", "open", "scan", "claim"} => s \in Slots
  /\ pc[h] = "mark" => tomb[s] = NoFile /\ marker[s] = NoFile
  /\ pc[h] \in {"write", "rename", "move", "unmark"} => tomb[s] = NoFile
  /\ pc[h] \in {"rename", "move", "verify", "empty", "unlink"} => marker[s] = f /\ markerLock[s] = h
  /\ pc[h] = "write" => markerLock[s] = h
  /\ pc[h] = "move" => at[job[h].name] \in {f} \cup Foreign
  /\ pc[h] \in {"empty", "unlink"} => tomb[s] = f

\* Every file is at one name at most, and a tombstone is explained by its marker.
LinksInv ==
  /\ \A n, m \in Names : at[n] = at[m] /\ at[n] # NoFile => n = m
  /\ \A s, t \in Slots : tomb[s] = tomb[t] /\ tomb[s] # NoFile => s = t
  /\ \A n \in Names, s \in Slots : at[n] = tomb[s] => at[n] = NoFile
  /\ \A n \in Names : at[n] # NoFile => content[at[n]] = "data"
  /\ \A s \in Slots : marker[s] \in Files => marker[s] \in asked
  /\ \A s \in Slots : tomb[s] # NoFile => marker[s] \in Files /\ tomb[s] \in {marker[s]} \cup Foreign
  /\ \A s \in Slots : tomb[s] = marker[s] => tomb[s] \notin lease

RemovalInv == Types /\ LinksInv /\ AskedAreLost /\ \A h \in Handles : HandleInv(h)

\* A step changes nothing of a handle whose own steps it is not and whose slot,
\* file and locks it leaves alone.
LEMMA HandleKept ==
  ASSUME NEW g \in Handles, HandleInv(g), pc'[g] = pc[g], job'[g] = job[g],
         pc[g] \in Places \ {"closed", "open", "empty", "unlink"} => parentLock' = g,
         asked \subseteq asked',
         pc[g] \notin {"closed", "open", "scan"} =>
           fileLock'[job[g].file] = g /\ job[g].file \notin lease',
         pc[g] \notin {"closed", "open", "scan", "claim", "clear"} =>
           /\ tomb'[job[g].slot] = tomb[job[g].slot]
           /\ marker'[job[g].slot] = marker[job[g].slot]
           /\ markerLock[job[g].slot] = g => markerLock'[job[g].slot] = g,
         pc[g] = "move" => at'[job[g].name] \in {at[job[g].name]} \cup Foreign
  PROVE  HandleInv(g)'
  BY ZenonT(60) DEF HandleInv, Places

\* Beside the holder of the parent lock a handle is idle, or it holds the
\* tombstone, the marker and the file it is about to empty or unlink.
LEMMA Apart ==
  ASSUME RemovalInv, NEW g \in Handles, parentLock # g
  PROVE  /\ pc[g] \in {"closed", "open", "empty", "unlink"}
         /\ pc[g] \in {"empty", "unlink"} =>
              /\ job[g].file \in Owned \cap asked /\ job[g].file \notin lease
              /\ job[g].slot \in Slots
              /\ tomb[job[g].slot] = job[g].file /\ marker[job[g].slot] = job[g].file
              /\ fileLock[job[g].file] = g /\ markerLock[job[g].slot] = g
  <1>1. HandleInv(g) /\ pc[g] \in Places
    BY ZenonT(60) DEF RemovalInv, Types
  <1>2. QED
    BY ZenonT(60), <1>1 DEF HandleInv, Places

\* What a handle works on is typed.
LEMMA JobTyped ==
  ASSUME Distinct, NEW name \in Names \cup {NoFile}, NEW file \in Files \cup {NoFile},
         NEW slot \in Nat, NEW first \in Nat, NEW tries \in Nat
  PROVE  /\ Job(name, file, slot, first, tries) \in Jobs
         /\ NoJob \in Jobs /\ SlotCount \in Nat /\ NoJob.slot = 0
  BY ZenonT(60) DEF Job, NoJob, Jobs, Distinct

\* Go and SetJob change what one handle does.
LEMMA Went ==
  ASSUME Types, NEW h \in Handles, NEW label \in Places, Go(h, label)
  PROVE  /\ pc' \in [Handles -> Places] /\ pc'[h] = label
         /\ \A g \in Handles : g # h => pc'[g] = pc[g]
  BY ZenonT(60) DEF Types, Go

LEMMA Given ==
  ASSUME Types, NEW h \in Handles, NEW j \in Jobs, SetJob(h, j)
  PROVE  /\ job' \in [Handles -> Jobs] /\ job'[h] = j
         /\ \A g \in Handles : g # h => job'[g] = job[g]
  BY ZenonT(60) DEF Types, SetJob

\* The end of a removal frees what its handle holds and nothing else.
LEMMA Ended ==
  ASSUME Distinct, Types, NEW h \in Handles, End(h)
  PROVE  /\ fileLock' \in [Files -> Handles \cup {Nobody}]
         /\ markerLock' \in [Slots -> Handles \cup {Nobody}]
         /\ parentLock' \in Handles \cup {Nobody}
         /\ pc' \in [Handles -> Places] /\ pc'[h] = "open"
         /\ job' \in [Handles -> Jobs]
         /\ \A g \in Handles \ {h} :
              /\ pc'[g] = pc[g] /\ job'[g] = job[g]
              /\ parentLock = g => parentLock' = g
              /\ \A f \in Files : fileLock[f] = g => fileLock'[f] = g
              /\ \A s \in Slots : markerLock[s] = g => markerLock'[s] = g
  <1>1. NoJob \in Jobs
    BY ZenonT(60) DEF NoJob, Job, Jobs, Distinct
  <1>2. "open" \in Places
    BY ZenonT(60) DEF Places
  <1>3. Go(h, "open") /\ SetJob(h, NoJob) /\ Unlocked(h)
    BY ZenonT(60) DEF End
  <1>4. /\ pc' \in [Handles -> Places] /\ pc'[h] = "open"
        /\ \A g \in Handles : g # h => pc'[g] = pc[g]
    BY ZenonT(60), <1>2, <1>3, Went
  <1>5. /\ job' \in [Handles -> Jobs]
        /\ \A g \in Handles : g # h => job'[g] = job[g]
    BY ZenonT(60), <1>1, <1>3, Given
  <1>6. /\ fileLock' \in [Files -> Handles \cup {Nobody}]
        /\ markerLock' \in [Slots -> Handles \cup {Nobody}]
        /\ parentLock' \in Handles \cup {Nobody}
    BY ZenonT(60), <1>3 DEF Types, Unlocked
  <1>7. ASSUME NEW g \in Handles \ {h}
        PROVE  /\ parentLock = g => parentLock' = g
               /\ \A f \in Files : fileLock[f] = g => fileLock'[f] = g
               /\ \A s \in Slots : markerLock[s] = g => markerLock'[s] = g
    BY SMTT(60), <1>3 DEF Types, Unlocked
  <1>8. QED
    BY ZenonT(60), <1>4, <1>5, <1>6, <1>7

\* The end of a removal keeps the invariant, also when it unlinks the marker
\* of a slot with no tombstone.
LEMMA EndKeeps ==
  ASSUME Distinct, RemovalInv, NEW h \in Handles, End(h),
         UNCHANGED <<at, content, tomb, lease, nextSlot, asked>>,
         \/ UNCHANGED marker
         \/ \E s \in Slots : /\ parentLock = h /\ tomb[s] = NoFile
                             /\ marker' = [marker EXCEPT ![s] = NoFile]
  PROVE  RemovalInv'
  <1>0. Types /\ LinksInv /\ AskedAreLost
    BY ZenonT(60) DEF RemovalInv
  <1>1. marker' \in [Slots -> Owned \cup {NoFile, Partial}]
    BY ZenonT(60), <1>0 DEF Types
  <1>2. Types'
    BY ZenonT(60), <1>0, <1>1, Ended DEF Types, Files
  <1>3. LinksInv'
    <2>1. CASE UNCHANGED marker
      BY ZenonT(60), <1>0, <2>1 DEF LinksInv, Files
    <2>2. ASSUME NEW s \in Slots, tomb[s] = NoFile, marker' = [marker EXCEPT ![s] = NoFile]
          PROVE  LinksInv'
      <3> DEFINE F == Files
      <3>1. lease \subseteq F /\ NoFile \notin F /\ F' = F
        BY ZenonT(60), <1>0 DEF Types, Distinct, Files
      <3>2. \A t \in Slots : marker'[t] = IF t = s THEN NoFile ELSE marker[t]
        BY ZenonT(60), <2>2, <1>0 DEF Types
      <3> HIDE DEF F
      <3>3. /\ \A t \in Slots : marker[t] \in F => marker[t] \in asked
            /\ \A t \in Slots : tomb[t] # NoFile =>
                 marker[t] \in F /\ tomb[t] \in {marker[t]} \cup Foreign
            /\ \A t \in Slots : tomb[t] = marker[t] => tomb[t] \notin lease
        BY ZenonT(60), <1>0 DEF LinksInv, F
      <3>4. /\ \A t \in Slots : marker'[t] \in F => marker'[t] \in asked
            /\ \A t \in Slots : tomb[t] # NoFile =>
                 marker'[t] \in F /\ tomb[t] \in {marker'[t]} \cup Foreign
            /\ \A t \in Slots : tomb[t] = marker'[t] => tomb[t] \notin lease
        BY ZenonT(60), <3>1, <3>2, <3>3, <2>2
      <3>5. QED
        BY ZenonT(60), <3>1, <3>4, <1>0 DEF LinksInv, F
    <2>3. QED
      BY ZenonT(60), <2>1, <2>2
  <1>4. AskedAreLost'
    BY ZenonT(60), <1>0 DEF AskedAreLost, Linked, Files
  <1>5. HandleInv(h)'
    BY ZenonT(60), Ended, <1>0 DEF HandleInv, Places
  <1>6. ASSUME NEW g \in Handles, g # h
        PROVE  HandleInv(g)'
    <2>1. HandleInv(g)
      BY ZenonT(60) DEF RemovalInv
    <2>2. /\ pc'[g] = pc[g] /\ job'[g] = job[g]
          /\ parentLock = g => parentLock' = g
          /\ \A f \in Files : fileLock[f] = g => fileLock'[f] = g
          /\ \A s \in Slots : markerLock[s] = g => markerLock'[s] = g
      BY ZenonT(60), <1>0, <1>6, Ended
    <2>3. CASE UNCHANGED marker
      BY ZenonT(60), <2>1, <2>2, <2>3 DEF HandleInv, Places, Files, Owned
    <2>4. CASE ~ UNCHANGED marker
      <3>1. PICK s \in Slots : /\ parentLock = h /\ tomb[s] = NoFile
                               /\ marker' = [marker EXCEPT ![s] = NoFile]
        BY ZenonT(60), <2>4
      <3>2. parentLock # g
        BY ZenonT(60), <3>1, <1>6
      <3>3. /\ pc[g] \in {"closed", "open", "empty", "unlink"}
            /\ pc[g] \in {"empty", "unlink"} =>
                 /\ job[g].file \in Files /\ job[g].slot \in Slots /\ job[g].slot # s
        BY SMTT(60), <3>1, <3>2, Apart DEF Files, Owned, Distinct
      <3>4. pc[g] \in {"empty", "unlink"} => marker'[job[g].slot] = marker[job[g].slot]
        BY ZenonT(60), <3>1, <3>3, <1>0 DEF Types
      <3>5. QED
        BY ZenonT(60), <2>1, <2>2, <3>3, <3>4 DEF HandleInv, Places
    <2>5. QED
      BY ZenonT(60), <2>3, <2>4
  <1>7. QED
    BY ZenonT(60), <1>2, <1>3, <1>4, <1>5, <1>6 DEF RemovalInv

\* Steps that leave disk, leases and history alone keep what is said of them.
LEMMA DiskKept ==
  ASSUME RemovalInv, UNCHANGED <<at, content, tomb, marker, lease, asked>>
  PROVE  LinksInv' /\ AskedAreLost'
  BY ZenonT(60) DEF RemovalInv, LinksInv, AskedAreLost, Linked, Files

\* The types, once those of the variables a step changes are known.
LEMMA Typed ==
  ASSUME Types,
         at' \in [Names -> Files \cup {NoFile}],
         content' \in [Files -> {"data", "empty"}],
         tomb' \in [Slots -> Files \cup {NoFile}],
         marker' \in [Slots -> Owned \cup {NoFile, Partial}],
         lease' \subseteq Files,
         fileLock' \in [Files -> Handles \cup {Nobody}],
         markerLock' \in [Slots -> Handles \cup {Nobody}],
         parentLock' \in Handles \cup {Nobody},
         nextSlot' \in [Handles -> Nat],
         pc' \in [Handles -> Places],
         job' \in [Handles -> Jobs],
         asked' \subseteq Files
  PROVE  Types'
  BY ZenonT(60) DEF Types, Files, Owned, Jobs

\* An opened directory is scanned under the parent lock, or not at all.
LEMMA OpenKeeps ==
  ASSUME Distinct, RemovalInv, NEW h \in Handles, OpenDirectory(h)
  PROVE  RemovalInv'
  <1>0. Types
    BY ZenonT(60) DEF RemovalInv
  <1>1. UNCHANGED <<at, content, tomb, marker, lease, fileLock, markerLock, asked>>
    BY ZenonT(60) DEF OpenDirectory, disk
  <1>2. LinksInv' /\ AskedAreLost'
    BY ZenonT(60), <1>1, DiskKept
  <1>3. NoJob \in Jobs /\ SlotCount \in Nat
    BY ZenonT(60) DEF NoJob, Job, Jobs, Distinct
  <1>4. \A g \in Handles : g # h => HandleInv(g)
    BY ZenonT(60) DEF RemovalInv
  <1>5. CASE parentLock = Nobody
    <2>1. Go(h, "scan") /\ SetJob(h, NoJob) /\ parentLock' = h /\ UNCHANGED nextSlot
      BY ZenonT(60), <1>5 DEF OpenDirectory, TakeParent
    <2>2. /\ pc' \in [Handles -> Places] /\ pc'[h] = "scan"
          /\ \A g \in Handles : g # h => pc'[g] = pc[g]
      BY ZenonT(60), <1>0, <2>1, Went DEF Places
    <2>3. /\ job' \in [Handles -> Jobs]
          /\ \A g \in Handles : g # h => job'[g] = job[g]
      BY ZenonT(60), <1>0, <1>3, <2>1, Given
    <2>4. Types'
      BY ZenonT(60), <1>0, <1>1, <2>1, <2>2, <2>3, Typed DEF Types
    <2>5. HandleInv(h)'
      BY ZenonT(60), <2>1, <2>2 DEF HandleInv, Places
    <2>6. ASSUME NEW g \in Handles, g # h
          PROVE  HandleInv(g)'
      <3>1. parentLock # g
        BY ZenonT(60), <1>5 DEF Distinct
      <3>2. pc[g] \in {"closed", "open", "empty", "unlink"}
        BY ZenonT(60), <3>1, Apart
      <3>3. QED
        BY ZenonT(60), <1>1, <1>4, <2>2, <2>3, <2>6, <3>2 DEF HandleInv, Places
    <2>7. QED
      BY ZenonT(60), <1>2, <2>4, <2>5, <2>6 DEF RemovalInv
  <1>6. CASE parentLock # Nobody
    <2>1. /\ Go(h, "open") /\ UNCHANGED <<parentLock, job>>
          /\ nextSlot' = [nextSlot EXCEPT ![h] = SlotCount]
      BY ZenonT(60), <1>6 DEF OpenDirectory
    <2>2. /\ pc' \in [Handles -> Places] /\ pc'[h] = "open"
          /\ \A g \in Handles : g # h => pc'[g] = pc[g]
      BY ZenonT(60), <1>0, <2>1, Went DEF Places
    <2>3. nextSlot' \in [Handles -> Nat]
      BY ZenonT(60), <1>0, <1>3, <2>1 DEF Types
    <2>4. Types'
      BY ZenonT(60), <1>0, <1>1, <2>1, <2>2, <2>3, Typed DEF Types
    <2>5. HandleInv(h)'
      BY ZenonT(60), <2>1, <2>2 DEF HandleInv, Places
    <2>6. ASSUME NEW g \in Handles, g # h
          PROVE  HandleInv(g)'
      BY ZenonT(60), <1>1, <1>4, <2>1, <2>2, <2>6 DEF HandleInv, Places
    <2>7. QED
      BY ZenonT(60), <1>2, <2>4, <2>5, <2>6 DEF RemovalInv
  <1>7. QED
    BY ZenonT(60), <1>5, <1>6

\* A removal begins with the locks of its file and of the directory.
LEMMA BeginKeeps ==
  ASSUME Distinct, RemovalInv, NEW h \in Handles, NEW n \in Names, BeginRemove(h, n)
  PROVE  RemovalInv'
  <1>0. Types /\ LinksInv /\ AskedAreLost
    BY ZenonT(60) DEF RemovalInv
  <1>1. /\ UNCHANGED <<at, content, tomb, marker, lease, markerLock, nextSlot>>
        /\ at[n] \in Owned \cap Files /\ fileLock[at[n]] = Nobody /\ at[n] \notin lease
        /\ parentLock = Nobody /\ parentLock' = h
        /\ asked' = asked \cup {at[n]} /\ fileLock' = [fileLock EXCEPT ![at[n]] = h]
        /\ SetJob(h, Job(n, at[n], 0, SlotCount, 0)) /\ Go(h, "claim")
    BY ZenonT(60) DEF BeginRemove, disk, TakeParent, Owned, Files
  <1>2. /\ pc' \in [Handles -> Places] /\ pc'[h] = "claim"
        /\ \A g \in Handles : g # h => pc'[g] = pc[g]
    BY ZenonT(60), <1>0, <1>1, Went DEF Places
  <1>3. Job(n, at[n], 0, SlotCount, 0) \in Jobs
    BY ZenonT(60), <1>1, JobTyped DEF Distinct
  <1>4. /\ job' \in [Handles -> Jobs] /\ job'[h] = Job(n, at[n], 0, SlotCount, 0)
        /\ \A g \in Handles : g # h => job'[g] = job[g]
    BY ZenonT(60), <1>0, <1>1, <1>3, Given
  <1>5. fileLock' \in [Files -> Handles \cup {Nobody}]
    BY ZenonT(60), <1>0, <1>1 DEF Types
  <1>6. Types'
    BY ZenonT(60), <1>0, <1>1, <1>2, <1>4, <1>5, Typed DEF Types
  <1>7. LinksInv'
    BY ZenonT(60), <1>0, <1>1 DEF LinksInv, Files
  <1>8. AskedAreLost'
    BY ZenonT(60), <1>0, <1>1 DEF AskedAreLost, Linked, Files
  <1>9. HandleInv(h)'
    <2>1. fileLock'[at[n]] = h
      BY ZenonT(60), <1>0, <1>1 DEF Types
    <2>2. job'[h].name = n /\ job'[h].file = at[n]
      BY SMTT(60), <1>4 DEF Job
    <2>3. QED
      BY ZenonT(60), <1>1, <1>2, <2>1, <2>2 DEF HandleInv, Places, Owned
  <1>10. ASSUME NEW g \in Handles, g # h
         PROVE  HandleInv(g)'
    <2>1. HandleInv(g)
      BY ZenonT(60) DEF RemovalInv
    <2>2. /\ pc[g] \in {"closed", "open", "empty", "unlink"}
          /\ pc[g] \in {"empty", "unlink"} =>
               job[g].file \in Files /\ fileLock[job[g].file] = g
      BY ZenonT(60), <1>1, Apart DEF Distinct, Files, Owned
    <2>3. pc[g] \in {"empty", "unlink"} => fileLock'[job[g].file] = g
      BY ZenonT(60), <1>0, <1>1, <2>2 DEF Types, Distinct
    <2>4. QED
      BY ZenonT(60), <1>1, <1>2, <1>4, <1>10, <2>1, <2>2, <2>3 DEF HandleInv, Places
  <1>11. QED
    BY ZenonT(60), <1>6, <1>7, <1>8, <1>9, <1>10 DEF RemovalInv

\* claim_delete_tombstone_slot names a slot, or gives up after a full round.
LEMMA ClaimKeeps ==
  ASSUME Distinct, RemovalInv, NEW h \in Handles, ClaimSlot(h)
  PROVE  RemovalInv'
  <1>0. Types /\ HandleInv(h) /\ pc[h] = "claim"
    BY ZenonT(60) DEF RemovalInv, ClaimSlot
  <1>1. CASE job[h].tries = SlotCount
    BY ZenonT(60), <1>1, EndKeeps DEF ClaimSlot, disk
  <1>2. CASE job[h].tries # SlotCount
    <2> DEFINE s == IF nextSlot[h] >= SlotCount THEN 0 ELSE nextSlot[h]
               j == Job(job[h].name, job[h].file, s, SlotCount, job[h].tries + 1)
    <2>1. /\ UNCHANGED <<at, content, tomb, marker, lease, fileLock, markerLock, parentLock, asked>>
          /\ nextSlot' = [nextSlot EXCEPT ![h] = (s + 1) % SlotCount]
          /\ SetJob(h, j) /\ Go(h, "clear")
      BY ZenonT(60), <1>2 DEF ClaimSlot, disk, locks
    <2>2. s \in Slots /\ s \in Nat /\ SlotCount \in Nat /\ SlotCount > 0
      BY SMTT(60), <1>0 DEF Types, Distinct
    <2>3. (s + 1) % SlotCount \in Nat
      BY SMTT(60), <2>2
    <2>4. job[h] \in Jobs
      BY ZenonT(60), <1>0 DEF Types
    <2>5. /\ job[h].name \in Names \cup {NoFile} /\ job[h].file \in Files \cup {NoFile}
          /\ job[h].tries + 1 \in Nat
      BY SMTT(60), <2>4 DEF Jobs
    <2>6. j \in Jobs
      BY ZenonT(60), <2>2, <2>5, JobTyped
    <2>7. j.name = job[h].name /\ j.file = job[h].file /\ j.slot = s
      BY ZenonT(60) DEF Job
    <2> HIDE DEF s, j
    <2>8. /\ pc' \in [Handles -> Places] /\ pc'[h] = "clear"
          /\ \A g \in Handles : g # h => pc'[g] = pc[g]
      BY ZenonT(60), <1>0, <2>1, Went DEF Places
    <2>9. /\ job' \in [Handles -> Jobs] /\ job'[h] = j
          /\ \A g \in Handles : g # h => job'[g] = job[g]
      BY ZenonT(60), <1>0, <2>1, <2>6, Given
    <2>10. nextSlot' \in [Handles -> Nat]
      BY ZenonT(60), <1>0, <2>1, <2>3 DEF Types
    <2>11. Types'
      BY ZenonT(60), <1>0, <2>1, <2>8, <2>9, <2>10, Typed DEF Types
    <2>12. HandleInv(h)'
      BY ZenonT(60), <1>0, <2>1, <2>2, <2>7, <2>8, <2>9 DEF HandleInv, Places, Owned
    <2>13. ASSUME NEW g \in Handles, g # h
           PROVE  HandleInv(g)'
      <3>1. HandleInv(g)
        BY ZenonT(60) DEF RemovalInv
      <3>2. QED
        BY ZenonT(60), <2>1, <2>8, <2>9, <2>13, <3>1 DEF HandleInv, Places
    <2>14. QED
      BY ZenonT(60), <2>1, <2>11, <2>12, <2>13, DiskKept DEF RemovalInv
  <1>3. QED
    BY ZenonT(60), <1>1, <1>2

\* A step of reclaiming a slot, under the parent lock: the file that goes is the
\* one its marker documents, and nobody is removing it.
LEMMA ReclaimKeeps ==
  ASSUME Distinct, RemovalInv, NEW h \in Handles, parentLock = h, NEW s \in Slots,
         ReclaimStep(s), UNCHANGED <<lease, fileLock, markerLock, asked>>
  PROVE  /\ at' \in [Names -> Files \cup {NoFile}]
         /\ content' \in [Files -> {"data", "empty"}]
         /\ tomb' \in [Slots -> Files \cup {NoFile}]
         /\ marker' \in [Slots -> Owned \cup {NoFile, Partial}]
         /\ LinksInv' /\ AskedAreLost'
         /\ \A g \in Handles : /\ g # h /\ pc'[g] = pc[g] /\ job'[g] = job[g]
                               => HandleInv(g)'
  <1>0. Types /\ LinksInv /\ AskedAreLost
    BY ZenonT(60) DEF RemovalInv
  <1>1. ASSUME NEW g \in Handles, g # h, pc'[g] = pc[g], job'[g] = job[g],
               UNCHANGED at,
               \A t \in Slots : markerLock[t] # Nobody /\ tomb[t] # NoFile
                                  /\ fileLock[tomb[t]] # Nobody
                                => tomb'[t] = tomb[t] /\ marker'[t] = marker[t]
        PROVE  HandleInv(g)'
    <2>1. /\ pc[g] \in {"closed", "open", "empty", "unlink"}
          /\ pc[g] \in {"empty", "unlink"} =>
               /\ job[g].slot \in Slots /\ tomb[job[g].slot] = job[g].file
               /\ job[g].file \in Files
               /\ fileLock[job[g].file] = g /\ markerLock[job[g].slot] = g
      BY ZenonT(60), <1>1, Apart DEF Files, Owned
    <2>2. pc[g] \in {"empty", "unlink"} =>
            /\ tomb'[job[g].slot] = tomb[job[g].slot]
            /\ marker'[job[g].slot] = marker[job[g].slot]
      BY SMTT(60), <1>1, <2>1 DEF Distinct
    <2>3. HandleInv(g)
      BY ZenonT(60) DEF RemovalInv
    <2>4. QED
      BY ZenonT(60), <1>1, <2>1, <2>2, <2>3 DEF HandleInv, Places
  <1>2. CASE MarkerOnly(s) /\ UnlinkMarker(s)
    <2>1. /\ UNCHANGED <<at, content, tomb>> /\ tomb[s] = NoFile
          /\ marker' = [marker EXCEPT ![s] = NoFile]
      BY ZenonT(60), <1>2 DEF MarkerOnly, UnlinkMarker
    <2>2. marker' \in [Slots -> Owned \cup {NoFile, Partial}]
      BY ZenonT(60), <1>0, <2>1 DEF Types
    <2>3. \A t \in Slots : t # s => marker'[t] = marker[t]
      BY ZenonT(60), <1>0, <2>1 DEF Types
    <2>4. LinksInv'
      <3> DEFINE F == Files
      <3>1. lease \subseteq F /\ NoFile \notin F /\ F' = F
        BY ZenonT(60), <1>0 DEF Types, Distinct, Files
      <3>2. \A t \in Slots : marker'[t] = IF t = s THEN NoFile ELSE marker[t]
        BY ZenonT(60), <1>0, <2>1 DEF Types
      <3> HIDE DEF F
      <3>3. /\ \A t \in Slots : marker[t] \in F => marker[t] \in asked
            /\ \A t \in Slots : tomb[t] # NoFile =>
                 marker[t] \in F /\ tomb[t] \in {marker[t]} \cup Foreign
            /\ \A t \in Slots : tomb[t] = marker[t] => tomb[t] \notin lease
        BY ZenonT(60), <1>0 DEF LinksInv, F
      <3>4. /\ \A t \in Slots : marker'[t] \in F => marker'[t] \in asked
            /\ \A t \in Slots : tomb[t] # NoFile =>
                 marker'[t] \in F /\ tomb[t] \in {marker'[t]} \cup Foreign
            /\ \A t \in Slots : tomb[t] = marker'[t] => tomb[t] \notin lease
        BY ZenonT(60), <2>1, <3>1, <3>2, <3>3
      <3>5. QED
        BY ZenonT(60), <1>0, <2>1, <3>1, <3>4 DEF LinksInv, F
    <2>5. AskedAreLost'
      BY ZenonT(60), <1>0, <2>1 DEF AskedAreLost, Linked, Files
    <2>6. QED
      BY ZenonT(60), <1>0, <1>1, <2>1, <2>2, <2>3, <2>4, <2>5 DEF Types
  <1>3. CASE MayReclaim(s) /\ (EmptyTomb(s) \/ (content[tomb[s]] = "empty" /\ UnlinkTomb(s)))
    <2>0. /\ tomb[s] = marker[s] /\ marker[s] \in Files
          /\ marker[s] \in Owned \cup {NoFile, Partial}
          /\ markerLock[s] = Nobody /\ fileLock[tomb[s]] = Nobody
      BY ZenonT(60), <1>0, <1>3 DEF MayReclaim, Types
    <2>1. /\ tomb[s] = marker[s] /\ tomb[s] \in Files /\ tomb[s] \in asked
          /\ tomb[s] \in Owned /\ tomb[s] \notin Foreign /\ tomb[s] \notin lease
          /\ markerLock[s] = Nobody /\ fileLock[tomb[s]] = Nobody
      BY ZenonT(60), <1>0, <2>0 DEF LinksInv, Distinct
    <2>2. CASE EmptyTomb(s)
      <3>1. /\ content' = [content EXCEPT ![tomb[s]] = "empty"]
            /\ UNCHANGED <<at, tomb, marker>>
        BY ZenonT(60), <2>2 DEF EmptyTomb
      <3>2. content' \in [Files -> {"data", "empty"}]
        BY ZenonT(60), <1>0, <3>1 DEF Types
      <3>3. \A f \in Files : content'[f] = IF f = tomb[s] THEN "empty" ELSE content[f]
        BY ZenonT(60), <1>0, <3>1 DEF Types
      <3>4. LinksInv'
        BY SMTT(60), <1>0, <2>1, <3>1, <3>3 DEF LinksInv, Types, Files
      <3>5. AskedAreLost'
        BY ZenonT(60), <1>0, <2>1, <3>1, <3>3 DEF AskedAreLost, Linked, Types, Files
      <3>6. QED
        BY ZenonT(60), <1>0, <1>1, <3>1, <3>2, <3>4, <3>5 DEF Types
    <2>3. CASE UnlinkTomb(s)
      <3>1. /\ tomb' = [tomb EXCEPT ![s] = NoFile]
            /\ UNCHANGED <<at, content, marker>>
        BY ZenonT(60), <2>3 DEF UnlinkTomb
      <3>2. tomb' \in [Slots -> Files \cup {NoFile}]
        BY ZenonT(60), <1>0, <3>1 DEF Types
      <3>3. \A t \in Slots : tomb'[t] = IF t = s THEN NoFile ELSE tomb[t]
        BY ZenonT(60), <1>0, <3>1 DEF Types
      <3>4. LinksInv'
        BY SMTT(60), <1>0, <2>1, <3>1, <3>3 DEF LinksInv, Types, Files, Distinct
      <3>5. AskedAreLost'
        BY SMTT(60), <1>0, <2>1, <3>1, <3>3 DEF AskedAreLost, Linked, Types, Files,
           Distinct
      <3>6. \A t \in Slots : markerLock[t] # Nobody => tomb'[t] = tomb[t]
        BY ZenonT(60), <2>1, <3>3
      <3>7. QED
        BY ZenonT(60), <1>0, <1>1, <3>1, <3>2, <3>4, <3>5, <3>6 DEF Types
    <2>4. QED
      BY ZenonT(60), <1>3, <2>2, <2>3
  <1>4. QED
    BY ZenonT(60), <1>2, <1>3 DEF ReclaimStep

\* The scan of initial_delete_tombstone_slot.
LEMMA ScanKeeps ==
  ASSUME Distinct, RemovalInv, NEW h \in Handles, ScanSlot(h)
  PROVE  RemovalInv'
  <1> DEFINE s == job[h].slot
  <1>0. /\ Types /\ HandleInv(h) /\ pc[h] = "scan" /\ parentLock = h
        /\ UNCHANGED <<lease, fileLock, markerLock, asked>>
    BY ZenonT(60) DEF RemovalInv, ScanSlot, HandleInv, Places
  <1>1. /\ job[h] \in Jobs /\ s \in Nat /\ job[h].first \in Nat /\ NoJob \in Jobs
        /\ SlotCount \in Nat
    BY ZenonT(60), <1>0 DEF Types, Jobs, NoJob, Job, Distinct
  <1>2. CASE s \in Slots /\ Occupied(s)
    <2> DEFINE first == IF MarkerOnly(s) /\ job[h].first = SlotCount THEN s ELSE job[h].first
    <2>1. /\ IF Reclaimable(s) THEN ReclaimStep(s) ELSE UNCHANGED disk
          /\ UNCHANGED job \/ SetJob(h, Job(NoFile, NoFile, s + 1, first, 0))
          /\ UNCHANGED <<parentLock, nextSlot, pc>>
      BY ZenonT(60), <1>2 DEF ScanSlot
    <2>0. first \in Nat /\ s + 1 \in Nat
      BY SMTT(60), <1>1
    <2> HIDE DEF first
    <2>2. Job(NoFile, NoFile, s + 1, first, 0) \in Jobs
      BY ZenonT(60), <2>0, JobTyped
    <2>3. /\ job' \in [Handles -> Jobs]
          /\ \A g \in Handles : g # h => job'[g] = job[g]
      BY ZenonT(60), <1>0, <2>1, <2>2, Given DEF Types
    <2>4. HandleInv(h)'
      BY ZenonT(60), <1>0, <2>1 DEF HandleInv, Places
    <2>5. CASE Reclaimable(s)
      <3>1. /\ at' \in [Names -> Files \cup {NoFile}]
            /\ content' \in [Files -> {"data", "empty"}]
            /\ tomb' \in [Slots -> Files \cup {NoFile}]
            /\ marker' \in [Slots -> Owned \cup {NoFile, Partial}]
            /\ LinksInv' /\ AskedAreLost'
            /\ \A g \in Handles : g # h => HandleInv(g)'
        BY ZenonT(60), <1>0, <1>2, <2>1, <2>3, <2>5, ReclaimKeeps
      <3>2. Types'
        BY ZenonT(60), <1>0, <2>1, <2>3, <3>1, Typed DEF Types
      <3>3. QED
        BY ZenonT(60), <2>4, <3>1, <3>2 DEF RemovalInv
    <2>6. CASE ~ Reclaimable(s)
      <3>1. UNCHANGED <<at, content, tomb, marker>>
        BY ZenonT(60), <2>1, <2>6 DEF disk
      <3>2. Types'
        BY ZenonT(60), <1>0, <2>1, <2>3, <3>1, Typed DEF Types
      <3>3. ASSUME NEW g \in Handles, g # h
            PROVE  HandleInv(g)'
        <4>1. HandleInv(g)
          BY ZenonT(60) DEF RemovalInv
        <4>2. QED
          BY ZenonT(60), <1>0, <2>1, <2>3, <3>1, <3>3, <4>1 DEF HandleInv, Places
      <3>4. QED
        BY ZenonT(60), <1>0, <2>4, <3>1, <3>2, <3>3, DiskKept DEF RemovalInv
    <2>7. QED
      BY ZenonT(60), <2>5, <2>6
  <1>3. CASE ~ (s \in Slots /\ Occupied(s))
    <2>1. /\ nextSlot' = [nextSlot EXCEPT ![h] = IF job[h].first = SlotCount THEN s
                                                ELSE job[h].first]
          /\ parentLock' = Nobody /\ Go(h, "open") /\ SetJob(h, NoJob)
          /\ UNCHANGED <<at, content, tomb, marker>>
      BY ZenonT(60), <1>3 DEF ScanSlot, FreeParent, disk
    <2>2. nextSlot' \in [Handles -> Nat]
      BY ZenonT(60), <1>0, <1>1, <2>1 DEF Types
    <2>3. /\ pc' \in [Handles -> Places] /\ pc'[h] = "open"
          /\ \A g \in Handles : g # h => pc'[g] = pc[g]
      BY ZenonT(60), <1>0, <2>1, Went DEF Places
    <2>4. /\ job' \in [Handles -> Jobs]
          /\ \A g \in Handles : g # h => job'[g] = job[g]
      BY ZenonT(60), <1>0, <1>1, <2>1, Given
    <2>5. Types'
      BY ZenonT(60), <1>0, <2>1, <2>2, <2>3, <2>4, Typed DEF Types
    <2>6. HandleInv(h)'
      BY ZenonT(60), <2>3 DEF HandleInv, Places
    <2>7. ASSUME NEW g \in Handles, g # h
          PROVE  HandleInv(g)'
      <3>1. HandleInv(g) /\ pc[g] \in {"closed", "open", "empty", "unlink"}
        BY ZenonT(60), <1>0, <2>7, Apart DEF RemovalInv
      <3>2. QED
        BY ZenonT(60), <1>0, <2>1, <2>3, <2>4, <2>7, <3>1 DEF HandleInv, Places
    <2>8. QED
      BY ZenonT(60), <1>0, <2>1, <2>5, <2>6, <2>7, DiskKept DEF RemovalInv
  <1>4. QED
    BY ZenonT(60), <1>2, <1>3

\* The claimed slot is reclaimed, or left to what occupies it.
LEMMA ClearKeeps ==
  ASSUME Distinct, RemovalInv, NEW h \in Handles, ClearSlot(h)
  PROVE  RemovalInv'
  <1> DEFINE s == job[h].slot
  <1>0. /\ Types /\ HandleInv(h) /\ pc[h] = "clear" /\ parentLock = h /\ s \in Slots
        /\ UNCHANGED <<lease, fileLock, markerLock, parentLock, nextSlot, job, asked>>
    BY ZenonT(60) DEF RemovalInv, ClearSlot, HandleInv, Places, locks
  <1>1. CASE Reclaimable(s) /\ ReclaimStep(s) /\ UNCHANGED pc
    <2>1. /\ at' \in [Names -> Files \cup {NoFile}]
          /\ content' \in [Files -> {"data", "empty"}]
          /\ tomb' \in [Slots -> Files \cup {NoFile}]
          /\ marker' \in [Slots -> Owned \cup {NoFile, Partial}]
          /\ LinksInv' /\ AskedAreLost'
          /\ \A g \in Handles : g # h => HandleInv(g)'
      BY ZenonT(60), <1>0, <1>1, ReclaimKeeps
    <2>2. Types'
      BY ZenonT(60), <1>0, <1>1, <2>1, Typed DEF Types
    <2>3. HandleInv(h)'
      BY ZenonT(60), <1>0, <1>1 DEF HandleInv, Places
    <2>4. QED
      BY ZenonT(60), <2>1, <2>2, <2>3 DEF RemovalInv
  <1>2. CASE ~ Reclaimable(s) /\ UNCHANGED disk /\ Go(h, IF Occupied(s) THEN "claim" ELSE "mark")
    <2>1. UNCHANGED <<at, content, tomb, marker>>
      BY ZenonT(60), <1>2 DEF disk
    <2>2. /\ pc' \in [Handles -> Places]
          /\ pc'[h] = IF Occupied(s) THEN "claim" ELSE "mark"
          /\ \A g \in Handles : g # h => pc'[g] = pc[g]
      BY ZenonT(60), <1>0, <1>2, Went DEF Places
    <2>3. Types'
      BY ZenonT(60), <1>0, <2>1, <2>2, Typed DEF Types
    <2>4. HandleInv(h)'
      BY ZenonT(60), <1>0, <2>1, <2>2 DEF HandleInv, Places, Occupied
    <2>5. ASSUME NEW g \in Handles, g # h
          PROVE  HandleInv(g)'
      <3>1. HandleInv(g)
        BY ZenonT(60) DEF RemovalInv
      <3>2. QED
        BY ZenonT(60), <1>0, <2>1, <2>2, <2>5, <3>1 DEF HandleInv, Places
    <2>6. QED
      BY ZenonT(60), <1>0, <2>1, <2>3, <2>4, <2>5, DiskKept DEF RemovalInv
  <1>3. QED
    BY ZenonT(60), <1>1, <1>2 DEF ClearSlot

\* create_delete_tombstone_marker_locked, in a slot that is free.
LEMMA CreateKeeps ==
  ASSUME Distinct, RemovalInv, NEW h \in Handles, CreateMarker(h)
  PROVE  RemovalInv'
  <1> DEFINE s == job[h].slot
  <1>0. /\ Types /\ LinksInv /\ AskedAreLost /\ HandleInv(h)
        /\ pc[h] = "mark" /\ parentLock = h /\ s \in Slots
        /\ tomb[s] = NoFile /\ marker[s] = NoFile
    BY ZenonT(60) DEF RemovalInv, CreateMarker, HandleInv, Places
  <1>1. /\ UNCHANGED <<at, content, tomb, lease, fileLock, parentLock, nextSlot, job, asked>>
        /\ marker' = [marker EXCEPT ![s] = Partial]
        /\ markerLock' = [markerLock EXCEPT ![s] = h] /\ Go(h, "write")
    BY ZenonT(60) DEF CreateMarker
  <1> HIDE DEF s
  <1>2. /\ marker' \in [Slots -> Owned \cup {NoFile, Partial}]
        /\ \A t \in Slots : marker'[t] = IF t = s THEN Partial ELSE marker[t]
    BY ZenonT(60), <1>0, <1>1 DEF Types
  <1>3. /\ markerLock' \in [Slots -> Handles \cup {Nobody}]
        /\ \A t \in Slots : markerLock'[t] = IF t = s THEN h ELSE markerLock[t]
    BY ZenonT(60), <1>0, <1>1 DEF Types
  <1>4. /\ pc' \in [Handles -> Places] /\ pc'[h] = "write"
        /\ \A g \in Handles : g # h => pc'[g] = pc[g]
    BY ZenonT(60), <1>0, <1>1, Went DEF Places
  <1>5. Types'
    BY ZenonT(60), <1>0, <1>1, <1>2, <1>3, <1>4, Typed DEF Types
  <1>6. LinksInv'
    <2>1. Partial \notin Files /\ NoFile # Partial /\ Files' = Files
      BY ZenonT(60) DEF Distinct, Files
    <2>2. QED
      BY ZenonT(60), <1>0, <1>1, <1>2, <2>1 DEF LinksInv
  <1>7. AskedAreLost'
    BY ZenonT(60), <1>0, <1>1 DEF AskedAreLost, Linked, Files
  <1>8. HandleInv(h)'
    BY ZenonT(60), <1>0, <1>1, <1>2, <1>3, <1>4 DEF HandleInv, Places, s
  <1>9. ASSUME NEW g \in Handles, g # h
        PROVE  HandleInv(g)'
    <2>1. /\ HandleInv(g) /\ pc[g] \in {"closed", "open", "empty", "unlink"}
          /\ pc[g] \in {"empty", "unlink"} => job[g].slot \in Slots /\ job[g].slot # s
      BY <1>0, <1>9, Apart DEF RemovalInv, Distinct, Files, Owned
    <2>2. QED
      BY ZenonT(60), <1>1, <1>2, <1>3, <1>4, <1>9, <2>1 DEF HandleInv, Places
  <1>10. QED
    BY ZenonT(60), <1>5, <1>6, <1>7, <1>8, <1>9 DEF RemovalInv

\* The marker is complete: it documents the file of the removal.
LEMMA WriteKeeps ==
  ASSUME Distinct, RemovalInv, NEW h \in Handles, WriteMarker(h)
  PROVE  RemovalInv'
  <1> DEFINE s == job[h].slot
             f == job[h].file
  <1>0. /\ Types /\ LinksInv /\ AskedAreLost /\ HandleInv(h)
        /\ pc[h] = "write" /\ parentLock = h /\ s \in Slots
        /\ tomb[s] = NoFile /\ markerLock[s] = h /\ f \in Owned \cap asked
    BY ZenonT(60) DEF RemovalInv, WriteMarker, HandleInv, Places
  <1>1. /\ UNCHANGED <<at, content, tomb, lease, fileLock, markerLock, parentLock, nextSlot,
                       job, asked>>
        /\ marker' = [marker EXCEPT ![s] = f] /\ Go(h, "rename")
    BY ZenonT(60) DEF WriteMarker, locks
  <1> HIDE DEF s, f
  <1>2. /\ marker' \in [Slots -> Owned \cup {NoFile, Partial}]
        /\ \A t \in Slots : marker'[t] = IF t = s THEN f ELSE marker[t]
    BY ZenonT(60), <1>0, <1>1 DEF Types
  <1>3. /\ pc' \in [Handles -> Places] /\ pc'[h] = "rename"
        /\ \A g \in Handles : g # h => pc'[g] = pc[g]
    BY ZenonT(60), <1>0, <1>1, Went DEF Places
  <1>4. Types'
    BY ZenonT(60), <1>0, <1>1, <1>2, <1>3, Typed DEF Types
  <1>5. LinksInv'
    <2>1. NoFile \notin Files /\ f \in Files /\ Files' = Files
      BY ZenonT(60), <1>0 DEF Distinct, Files, Owned
    <2>2. QED
      BY ZenonT(60), <1>0, <1>1, <1>2, <2>1 DEF LinksInv
  <1>6. AskedAreLost'
    BY ZenonT(60), <1>0, <1>1 DEF AskedAreLost, Linked, Files
  <1>7. HandleInv(h)'
    BY ZenonT(60), <1>0, <1>1, <1>2, <1>3 DEF HandleInv, Places, s, f
  <1>8. ASSUME NEW g \in Handles, g # h
        PROVE  HandleInv(g)'
    <2>1. /\ HandleInv(g) /\ pc[g] \in {"closed", "open", "empty", "unlink"}
          /\ pc[g] \in {"empty", "unlink"} => job[g].slot \in Slots /\ job[g].slot # s
      BY ZenonT(60), <1>0, <1>8, Apart DEF RemovalInv
    <2>2. QED
      BY ZenonT(60), <1>1, <1>2, <1>3, <1>8, <2>1 DEF HandleInv, Places
  <1>9. QED
    BY ZenonT(60), <1>4, <1>5, <1>6, <1>7, <1>8 DEF RemovalInv

\* The name still leads to the file, or the removal ends and takes its marker along.
LEMMA CheckKeeps ==
  ASSUME Distinct, RemovalInv, NEW h \in Handles, CheckName(h)
  PROVE  RemovalInv'
  <1>0. /\ Types /\ HandleInv(h) /\ pc[h] = "rename" /\ parentLock = h
        /\ job[h].slot \in Slots /\ tomb[job[h].slot] = NoFile
        /\ UNCHANGED <<at, content, tomb, lease, nextSlot, asked>>
    BY ZenonT(60) DEF RemovalInv, CheckName, HandleInv, Places
  <1>1. CASE at[job[h].name] = job[h].file
    <2>1. Go(h, "move") /\ UNCHANGED <<marker, fileLock, markerLock, parentLock, job>>
      BY ZenonT(60), <1>1 DEF CheckName, locks
    <2>2. /\ pc' \in [Handles -> Places] /\ pc'[h] = "move"
          /\ \A g \in Handles : g # h => pc'[g] = pc[g]
      BY ZenonT(60), <1>0, <2>1, Went DEF Places
    <2>3. Types'
      BY ZenonT(60), <1>0, <2>1, <2>2, Typed DEF Types
    <2>4. HandleInv(h)'
      BY ZenonT(60), <1>0, <1>1, <2>1, <2>2 DEF HandleInv, Places
    <2>5. ASSUME NEW g \in Handles, g # h
          PROVE  HandleInv(g)'
      <3>1. HandleInv(g)
        BY ZenonT(60) DEF RemovalInv
      <3>2. QED
        BY ZenonT(60), <1>0, <2>1, <2>2, <2>5, <3>1 DEF HandleInv, Places
    <2>6. QED
      BY ZenonT(60), <1>0, <2>1, <2>3, <2>4, <2>5, DiskKept DEF RemovalInv
  <1>2. CASE at[job[h].name] # job[h].file
    <2>1. marker' = [marker EXCEPT ![job[h].slot] = NoFile] /\ End(h)
      BY ZenonT(60), <1>2 DEF CheckName
    <2>2. QED
      BY ZenonT(60), <1>0, <2>1, EndKeeps
  <1>3. QED
    BY ZenonT(60), <1>1, <1>2

\* The rename takes what the name leads to: the file, or another program's.
LEMMA MoveKeeps ==
  ASSUME Distinct, RemovalInv, NEW h \in Handles, MoveToTomb(h)
  PROVE  RemovalInv'
  <1> DEFINE s == job[h].slot
             f == job[h].file
             n == job[h].name
             moved == at[n]
  <1>0. /\ Types /\ LinksInv /\ AskedAreLost /\ HandleInv(h)
        /\ pc[h] = "move" /\ parentLock = h /\ s \in Slots /\ n \in Names
        /\ tomb[s] = NoFile /\ marker[s] = f /\ markerLock[s] = h
        /\ f \in Owned /\ f \notin lease /\ moved \in {f} \cup Foreign
    BY ZenonT(60) DEF RemovalInv, MoveToTomb, HandleInv, Places
  <1>1. /\ UNCHANGED <<content, marker, lease, fileLock, markerLock, parentLock, nextSlot,
                       job, asked>>
        /\ tomb' = [tomb EXCEPT ![s] = moved] /\ at' = [at EXCEPT ![n] = NoFile]
        /\ Go(h, "verify")
    BY ZenonT(60) DEF MoveToTomb, locks
  <1>2. f \in Files /\ moved \in Files /\ NoFile \notin Files /\ Files' = Files
        /\ f \notin Foreign /\ moved = at[n]
    BY ZenonT(60), <1>0 DEF Files, Owned, Distinct
  <1> HIDE DEF s, f, n, moved
  <1>3. /\ tomb' \in [Slots -> Files \cup {NoFile}]
        /\ \A t \in Slots : tomb'[t] = IF t = s THEN moved ELSE tomb[t]
    BY ZenonT(60), <1>0, <1>1, <1>2 DEF Types
  <1>4. /\ at' \in [Names -> Files \cup {NoFile}]
        /\ \A m \in Names : at'[m] = IF m = n THEN NoFile ELSE at[m]
    BY ZenonT(60), <1>0, <1>1, <1>2 DEF Types
  <1>5. /\ pc' \in [Handles -> Places] /\ pc'[h] = "verify"
        /\ \A g \in Handles : g # h => pc'[g] = pc[g]
    BY ZenonT(60), <1>0, <1>1, Went DEF Places
  <1>6. Types'
    BY ZenonT(60), <1>0, <1>1, <1>3, <1>4, <1>5, Typed DEF Types
  <1>7. LinksInv'
    BY SMTT(60), <1>0, <1>1, <1>2, <1>3, <1>4 DEF LinksInv
  <1>8. AskedAreLost'
    <2>1. ASSUME NEW e \in Files, Linked(e)
          PROVE  Linked(e)'
      BY ZenonT(60), <1>0, <1>2, <1>3, <1>4, <2>1 DEF Linked
    <2>2. QED
      BY ZenonT(60), <1>0, <1>1, <1>2, <2>1 DEF AskedAreLost
  <1>9. HandleInv(h)'
    BY ZenonT(60), <1>0, <1>1, <1>3, <1>5 DEF HandleInv, Places, s, f
  <1>10. ASSUME NEW g \in Handles, g # h
         PROVE  HandleInv(g)'
    <2>1. /\ HandleInv(g) /\ pc[g] \in {"closed", "open", "empty", "unlink"}
          /\ pc[g] \in {"empty", "unlink"} => job[g].slot \in Slots /\ job[g].slot # s
      BY ZenonT(60), <1>0, <1>10, Apart DEF RemovalInv
    <2>2. QED
      BY ZenonT(60), <1>1, <1>3, <1>5, <1>10, <2>1 DEF HandleInv, Places
  <1>11. QED
    BY ZenonT(60), <1>6, <1>7, <1>8, <1>9, <1>10 DEF RemovalInv

\* Only the very file of the removal goes on to be emptied.
LEMMA VerifyKeeps ==
  ASSUME Distinct, RemovalInv, NEW h \in Handles, VerifyTomb(h)
  PROVE  RemovalInv'
  <1>0. /\ Types /\ HandleInv(h) /\ pc[h] = "verify" /\ parentLock = h
        /\ UNCHANGED <<at, content, tomb, marker, lease, nextSlot, asked>>
    BY ZenonT(60) DEF RemovalInv, VerifyTomb, HandleInv, Places, disk
  <1>1. CASE tomb[job[h].slot] = job[h].file
    <2>1. Go(h, "empty") /\ parentLock' = Nobody /\ UNCHANGED <<fileLock, markerLock, job>>
      BY ZenonT(60), <1>1 DEF VerifyTomb, FreeParent
    <2>2. /\ pc' \in [Handles -> Places] /\ pc'[h] = "empty"
          /\ \A g \in Handles : g # h => pc'[g] = pc[g]
      BY ZenonT(60), <1>0, <2>1, Went DEF Places
    <2>3. Types'
      BY ZenonT(60), <1>0, <2>1, <2>2, Typed DEF Types
    <2>4. HandleInv(h)'
      BY ZenonT(60), <1>0, <1>1, <2>1, <2>2 DEF HandleInv, Places
    <2>5. ASSUME NEW g \in Handles, g # h
          PROVE  HandleInv(g)'
      <3>1. HandleInv(g) /\ pc[g] \in {"closed", "open", "empty", "unlink"}
        BY ZenonT(60), <1>0, <2>5, Apart DEF RemovalInv
      <3>2. QED
        BY ZenonT(60), <1>0, <2>1, <2>2, <2>5, <3>1 DEF HandleInv, Places
    <2>6. QED
      BY ZenonT(60), <1>0, <2>3, <2>4, <2>5, DiskKept DEF RemovalInv
  <1>2. CASE tomb[job[h].slot] # job[h].file
    BY ZenonT(60), <1>0, <1>2, EndKeeps DEF VerifyTomb
  <1>3. QED
    BY ZenonT(60), <1>1, <1>2

\* The file is emptied: it is in its tombstone, asked to go, and no reader has it.
LEMMA EmptyKeeps ==
  ASSUME Distinct, RemovalInv, NEW h \in Handles, EmptyFile(h)
  PROVE  RemovalInv'
  <1> DEFINE s == job[h].slot
             f == job[h].file
  <1>0. /\ Types /\ LinksInv /\ AskedAreLost /\ HandleInv(h)
        /\ pc[h] = "empty" /\ s \in Slots /\ tomb[s] = f
        /\ f \in Owned \cap asked /\ f \notin lease
    BY ZenonT(60) DEF RemovalInv, EmptyFile, HandleInv, Places
  <1>1. /\ UNCHANGED <<at, tomb, marker, lease, fileLock, markerLock, parentLock, nextSlot,
                       job, asked>>
        /\ content' = [content EXCEPT ![f] = "empty"] /\ Go(h, "unlink")
    BY ZenonT(60) DEF EmptyFile, locks
  <1>2. f \in Files /\ f \notin Foreign /\ f # NoFile
    BY ZenonT(60), <1>0 DEF Files, Owned, Distinct
  <1> HIDE DEF s, f
  <1>3. /\ content' \in [Files -> {"data", "empty"}]
        /\ \A e \in Files : content'[e] = IF e = f THEN "empty" ELSE content[e]
    BY ZenonT(60), <1>0, <1>1 DEF Types
  <1>4. /\ pc' \in [Handles -> Places] /\ pc'[h] = "unlink"
        /\ \A g \in Handles : g # h => pc'[g] = pc[g]
    BY ZenonT(60), <1>0, <1>1, Went DEF Places
  <1>5. Types'
    BY ZenonT(60), <1>0, <1>1, <1>3, <1>4, Typed DEF Types
  <1>6. LinksInv'
    <2>1. \A n \in Names : at[n] # f /\ (at[n] # NoFile => at[n] \in Files)
      BY ZenonT(60), <1>0, <1>2 DEF LinksInv, Types
    <2>2. QED
      BY ZenonT(60), <1>0, <1>1, <1>3, <2>1 DEF LinksInv, Files
  <1>7. AskedAreLost'
    <2>1. Files' = Files /\ lease \subseteq Files /\ Foreign \subseteq Files
      BY ZenonT(60), <1>0 DEF Files, Types
    <2>2. \A e \in Files : Linked(e)' <=> Linked(e)
      BY ZenonT(60), <1>1 DEF Linked
    <2>3. QED
      BY ZenonT(60), <1>0, <1>1, <1>2, <1>3, <2>1, <2>2 DEF AskedAreLost
  <1>8. HandleInv(h)'
    BY ZenonT(60), <1>0, <1>1, <1>4 DEF HandleInv, Places, s, f
  <1>9. ASSUME NEW g \in Handles, g # h
        PROVE  HandleInv(g)'
    <2>1. HandleInv(g)
      BY ZenonT(60) DEF RemovalInv
    <2>2. QED
      BY ZenonT(60), <1>1, <1>4, <1>9, <2>1 DEF HandleInv, Places
  <1>10. QED
    BY ZenonT(60), <1>5, <1>6, <1>7, <1>8, <1>9 DEF RemovalInv

\* The tombstone goes under the parent lock, or stays for a later reclamation.
LEMMA UnlinkKeeps ==
  ASSUME Distinct, RemovalInv, NEW h \in Handles, UnlinkOwn(h)
  PROVE  RemovalInv'
  <1> DEFINE s == job[h].slot
             f == job[h].file
  <1>0. /\ Types /\ LinksInv /\ AskedAreLost /\ HandleInv(h)
        /\ pc[h] = "unlink" /\ s \in Slots /\ tomb[s] = f /\ markerLock[s] = h
        /\ f \in Owned \cap asked /\ f \notin lease
        /\ UNCHANGED <<lease, nextSlot, asked>>
    BY ZenonT(60) DEF RemovalInv, UnlinkOwn, HandleInv, Places
  <1>1. CASE parentLock = Nobody
    <2>1. /\ parentLock' = h /\ tomb' = [tomb EXCEPT ![s] = NoFile] /\ Go(h, "unmark")
          /\ UNCHANGED <<at, content, marker, fileLock, markerLock, job>>
      BY ZenonT(60), <1>0, <1>1 DEF UnlinkOwn, TakeParent, UnlinkTomb
    <2>2. /\ pc' \in [Handles -> Places] /\ pc'[h] = "unmark"
          /\ \A g \in Handles : g # h => pc'[g] = pc[g]
      BY ZenonT(60), <1>0, <2>1, Went DEF Places
    <2> HIDE DEF s, f
    <2>3. /\ tomb' \in [Slots -> Files \cup {NoFile}]
          /\ \A t \in Slots : tomb'[t] = IF t = s THEN NoFile ELSE tomb[t]
      BY ZenonT(60), <1>0, <2>1 DEF Types
    <2>4. Types'
      BY ZenonT(60), <1>0, <2>1, <2>2, <2>3, Typed DEF Types
    <2>5. LinksInv'
      <3>1. Files' = Files /\ NoFile \notin Files /\ lease \subseteq Files
        BY ZenonT(60), <1>0 DEF Files, Distinct, Types
      <3>2. QED
        BY ZenonT(60), <1>0, <2>1, <2>3, <3>1 DEF LinksInv
    <2>6. AskedAreLost'
      <3>1. Files' = Files
        BY ZenonT(60) DEF Files
      <3>2. ASSUME NEW e \in Files, e # f, Linked(e)
            PROVE  Linked(e)'
        BY ZenonT(60), <1>0, <2>1, <2>3, <3>2 DEF Linked
      <3>3. QED
        BY ZenonT(60), <1>0, <2>1, <3>1, <3>2 DEF AskedAreLost
    <2>7. HandleInv(h)'
      BY ZenonT(60), <1>0, <2>1, <2>2, <2>3 DEF HandleInv, Places, s, f
    <2>8. ASSUME NEW g \in Handles, g # h
          PROVE  HandleInv(g)'
      <3>1. /\ HandleInv(g) /\ pc[g] \in {"closed", "open", "empty", "unlink"}
            /\ pc[g] \in {"empty", "unlink"} => job[g].slot \in Slots /\ job[g].slot # s
        BY ZenonT(60), <1>0, <1>1, <2>8, Apart DEF RemovalInv, Distinct
      <3>2. QED
        BY ZenonT(60), <1>0, <2>1, <2>2, <2>3, <2>8, <3>1 DEF HandleInv, Places
    <2>9. QED
      BY ZenonT(60), <2>4, <2>5, <2>6, <2>7, <2>8 DEF RemovalInv
  <1>2. CASE parentLock # Nobody
    BY ZenonT(60), <1>0, <1>2, EndKeeps DEF UnlinkOwn, disk
  <1>3. QED
    BY ZenonT(60), <1>1, <1>2

LEMMA UnmarkKeeps ==
  ASSUME Distinct, RemovalInv, NEW h \in Handles, UnmarkOwn(h)
  PROVE  RemovalInv'
  <1>1. /\ HandleInv(h) /\ pc[h] = "unmark" /\ parentLock = h
        /\ job[h].slot \in Slots /\ tomb[job[h].slot] = NoFile
    BY ZenonT(60) DEF RemovalInv, UnmarkOwn, HandleInv, Places
  <1>2. /\ UNCHANGED <<at, content, tomb, lease, nextSlot, asked>> /\ End(h)
        /\ marker' = [marker EXCEPT ![job[h].slot] = NoFile]
    BY ZenonT(60) DEF UnmarkOwn, UnlinkMarker
  <1>3. QED
    BY ZenonT(60), <1>1, <1>2, EndKeeps

\* Readers: a lease is taken of a file at a visible name that nobody removes.
LEMMA LeaseKeeps ==
  ASSUME Distinct, RemovalInv, NEW f \in Files, Lease(f) \/ EndLease(f)
  PROVE  RemovalInv'
  <1>0. /\ Types /\ LinksInv /\ AskedAreLost
        /\ UNCHANGED <<at, content, tomb, marker, fileLock, markerLock, parentLock, nextSlot, pc,
                       job, asked>>
    BY ZenonT(60) DEF RemovalInv, Lease, EndLease, disk, locks
  <1>1. CASE Lease(f)
    <2>1. lease' = lease \cup {f} /\ fileLock[f] = Nobody
      BY ZenonT(60), <1>1 DEF Lease
    <2>2. PICK n \in Names : at[n] = f
      BY ZenonT(60), <1>1 DEF Lease
    <2>3. Types'
      BY ZenonT(60), <1>0, <2>1, Typed DEF Types
    <2>4. LinksInv'
      BY ZenonT(60), <1>0, <2>1, <2>2 DEF LinksInv, Distinct, Files
    <2>5. content[f] = "data"
      BY ZenonT(60), <1>0, <2>2 DEF LinksInv, Distinct
    <2>6. AskedAreLost'
      BY ZenonT(60), <1>0, <2>1, <2>5 DEF AskedAreLost, Linked, Files
    <2>7. ASSUME NEW g \in Handles
          PROVE  HandleInv(g)'
      <3>1. HandleInv(g)
        BY ZenonT(60) DEF RemovalInv
      <3>2. QED
        BY ZenonT(60), <1>0, <2>1, <3>1 DEF HandleInv, Distinct
    <2>8. QED
      BY ZenonT(60), <2>3, <2>4, <2>6, <2>7 DEF RemovalInv
  <1>2. CASE EndLease(f)
    <2>1. lease' = lease \ {f}
      BY ZenonT(60), <1>2 DEF EndLease
    <2>2. Types'
      BY ZenonT(60), <1>0, <2>1, Typed DEF Types
    <2>3. LinksInv'
      BY ZenonT(60), <1>0, <2>1 DEF LinksInv, Files
    <2>4. AskedAreLost'
      BY ZenonT(60), <1>0, <2>1 DEF AskedAreLost, Linked, Files
    <2>5. ASSUME NEW g \in Handles
          PROVE  HandleInv(g)'
      <3>1. HandleInv(g)
        BY ZenonT(60) DEF RemovalInv
      <3>2. QED
        BY ZenonT(60), <1>0, <2>1, <3>1 DEF HandleInv
    <2>6. QED
      BY ZenonT(60), <2>2, <2>3, <2>4, <2>5 DEF RemovalInv
  <1>3. QED
    BY ZenonT(60), <1>1, <1>2

\* Another program's file takes a name, between any two steps of a removal.
LEMMA ReplaceKeeps ==
  ASSUME Distinct, RemovalInv, NEW n \in Names, NEW f \in Files, Replace(n, f)
  PROVE  RemovalInv'
  <1>0. Types /\ LinksInv /\ AskedAreLost
    BY ZenonT(60) DEF RemovalInv
  <1>1. /\ UNCHANGED <<content, tomb, marker, lease, fileLock, markerLock, parentLock, nextSlot,
                       pc, job>>
        /\ f \in Foreign /\ at[n] # NoFile /\ at[n] \notin Foreign
        /\ \A m \in Names : at[m] # f
        /\ \A s \in Slots : tomb[s] # f
        /\ at' = [at EXCEPT ![n] = f] /\ asked' = asked \cup {at[n]}
    BY ZenonT(60) DEF Replace, locks
  <1>2. /\ at' \in [Names -> Files \cup {NoFile}]
        /\ \A m \in Names : at'[m] = IF m = n THEN f ELSE at[m]
    BY ZenonT(60), <1>0, <1>1 DEF Types
  <1>3. at[n] \in Files /\ NoFile \notin Files /\ Files' = Files
    BY ZenonT(60), <1>0, <1>1 DEF Types, Distinct, Files
  <1>4. Types'
    BY ZenonT(60), <1>0, <1>1, <1>2, <1>3, Typed DEF Types
  <1>5. content[f] = "data"
    BY ZenonT(60), <1>0, <1>1 DEF AskedAreLost
  <1>6. LinksInv'
    BY ZenonT(60), <1>0, <1>1, <1>2, <1>3, <1>5 DEF LinksInv
  <1>7. AskedAreLost'
    <2>1. ASSUME NEW e \in Files, e # at[n], Linked(e)
          PROVE  Linked(e)'
      BY ZenonT(60), <1>1, <1>2, <2>1 DEF Linked
    <2>2. QED
      BY ZenonT(60), <1>0, <1>1, <1>3, <2>1 DEF AskedAreLost
  <1>8. ASSUME NEW g \in Handles
        PROVE  HandleInv(g)'
    <2>1. HandleInv(g) /\ (pc[g] = "move" => job[g].name \in Names)
      BY ZenonT(60) DEF RemovalInv, HandleInv
    <2>2. pc[g] = "move" => at'[job[g].name] \in {at[job[g].name]} \cup Foreign
      BY ZenonT(60), <1>1, <1>2, <2>1
    <2>3. QED
      BY ZenonT(60), <1>1, <2>1, <2>2 DEF HandleInv
  <1>9. QED
    BY ZenonT(60), <1>4, <1>6, <1>7, <1>8 DEF RemovalInv

\* A crash frees all locks; what is on disk is as explained as before.
LEMMA CrashKeeps ==
  ASSUME Distinct, RemovalInv, Crash
  PROVE  RemovalInv'
  <1>0. Types /\ LinksInv /\ AskedAreLost
    BY ZenonT(60) DEF RemovalInv
  <1>1. UNCHANGED <<at, content, tomb, marker, nextSlot, asked>> /\ lease' = {}
    BY ZenonT(60) DEF Crash, disk
  <1>2. NoJob \in Jobs
    BY ZenonT(60) DEF NoJob, Job, Jobs, Distinct
  <1>3. /\ fileLock' \in [Files -> Handles \cup {Nobody}]
        /\ markerLock' \in [Slots -> Handles \cup {Nobody}]
        /\ parentLock' \in Handles \cup {Nobody}
    BY ZenonT(60) DEF Crash
  <1>4. pc' \in [Handles -> Places] /\ \A h \in Handles : pc'[h] = "closed"
    BY ZenonT(60) DEF Crash, Places
  <1>5. job' \in [Handles -> Jobs]
    BY ZenonT(60), <1>2 DEF Crash
  <1>6. Types'
    BY ZenonT(60), <1>0, <1>1, <1>3, <1>4, <1>5, Typed DEF Types
  <1>7. LinksInv' /\ AskedAreLost'
    BY ZenonT(60), <1>0, <1>1 DEF LinksInv, AskedAreLost, Linked, Files
  <1>8. \A h \in Handles : HandleInv(h)'
    BY ZenonT(60), <1>4 DEF HandleInv, Places
  <1>9. QED
    BY ZenonT(60), <1>6, <1>7, <1>8 DEF RemovalInv

LEMMA RemovalBegins ==
  ASSUME Distinct, RemovalInit
  PROVE  RemovalInv
  <1>1. NoJob \in Jobs
    BY ZenonT(60) DEF NoJob, Job, Jobs, Distinct
  <1>2. /\ at = [n \in Names |-> Own[n]] /\ \A n \in Names : Own[n] \in Files
    BY ZenonT(60) DEF RemovalInit, Files
  <1>3. /\ at \in [Names -> Files \cup {NoFile}] /\ content \in [Files -> {"data", "empty"}]
        /\ tomb \in [Slots -> Files \cup {NoFile}]
        /\ marker \in [Slots -> Owned \cup {NoFile, Partial}]
        /\ lease \subseteq Files /\ asked \subseteq Files
    BY ZenonT(60), <1>2 DEF RemovalInit
  <1>4. /\ fileLock \in [Files -> Handles \cup {Nobody}]
        /\ markerLock \in [Slots -> Handles \cup {Nobody}]
        /\ parentLock \in Handles \cup {Nobody} /\ nextSlot \in [Handles -> Nat]
    BY ZenonT(60) DEF RemovalInit
  <1>5. pc \in [Handles -> Places] /\ \A h \in Handles : pc[h] = "closed"
    BY ZenonT(60) DEF RemovalInit, Places
  <1>6. job \in [Handles -> Jobs]
    BY ZenonT(60), <1>1 DEF RemovalInit
  <1>7. Types
    BY ZenonT(60), <1>3, <1>4, <1>5, <1>6 DEF Types
  <1>8. LinksInv
    <2>1. /\ \A s \in Slots : tomb[s] = NoFile /\ marker[s] = NoFile
          /\ \A f \in Files : content[f] = "data"
          /\ \A n \in Names : at[n] = Own[n]
          /\ lease = {}
      BY ZenonT(60) DEF RemovalInit
    <2>2. QED
      BY ZenonT(60), <1>2, <2>1 DEF LinksInv, Distinct
  <1>9. AskedAreLost
    BY ZenonT(60), <1>2 DEF RemovalInit, AskedAreLost, Linked, Files
  <1>10. \A h \in Handles : HandleInv(h)
    BY ZenonT(60), <1>5 DEF HandleInv, Places
  <1>11. QED
    BY ZenonT(60), <1>7, <1>8, <1>9, <1>10 DEF RemovalInv

LEMMA RemovalSteps ==
  ASSUME Distinct, RemovalInv, [RemovalNext]_removalVars
  PROVE  RemovalInv'
  <1>1. CASE UNCHANGED removalVars
    <2>1. /\ UNCHANGED <<at, content, tomb, marker, lease, fileLock, markerLock, parentLock>>
          /\ UNCHANGED <<nextSlot, pc, job, asked>>
      BY ZenonT(60), <1>1 DEF removalVars, disk, locks
    <2>2. Types'
      BY ZenonT(60), <2>1 DEF RemovalInv, Types, Files, Owned, Jobs
    <2>3. ASSUME NEW h \in Handles
          PROVE  HandleInv(h)'
      BY ZenonT(60), <2>1 DEF RemovalInv, HandleInv
    <2>4. QED
      BY ZenonT(60), <2>1, <2>2, <2>3, DiskKept DEF RemovalInv
  <1>2. ASSUME NEW h \in Handles, OpenDirectory(h) \/ ScanSlot(h) \/ RemoveStep(h)
        PROVE  RemovalInv'
    BY ZenonT(60), <1>2, OpenKeeps, ScanKeeps, ClaimKeeps, ClearKeeps, CreateKeeps,
       WriteKeeps,
       CheckKeeps,
       MoveKeeps, VerifyKeeps, EmptyKeeps, UnlinkKeeps, UnmarkKeeps DEF RemoveStep
  <1>3. ASSUME NEW h \in Handles, NEW n \in Names, BeginRemove(h, n)
        PROVE  RemovalInv'
    BY ZenonT(60), <1>3, BeginKeeps
  <1>4. ASSUME NEW f \in Files, Lease(f) \/ EndLease(f)
        PROVE  RemovalInv'
    BY ZenonT(60), <1>4, LeaseKeeps
  <1>5. ASSUME NEW n \in Names, NEW f \in Files, Replace(n, f)
        PROVE  RemovalInv'
    BY ZenonT(60), <1>5, ReplaceKeeps
  <1>6. QED
    BY ZenonT(60), <1>1, <1>2, <1>3, <1>4, <1>5, CrashKeeps DEF RemovalNext

LEMMA RemovalInvariance ==
  ASSUME Distinct
  PROVE  RemovalSpec => []RemovalInv
  <1>1. RemovalInit => RemovalInv
    BY ZenonT(60), RemovalBegins
  <1>2. RemovalInv /\ [RemovalNext]_removalVars => RemovalInv'
    BY ZenonT(60), RemovalSteps
  <1>3. QED
    BY <1>1, <1>2, PTL DEF RemovalSpec

\* For any number of handles, files, slots and crashes: nothing is emptied or
\* unlinked but what was asked to go, no other program's file is touched, no
\* file is emptied while a reader holds it; and whatever a crash interrupts, the
\* marker of an occupied slot explains it, so that
\* reclaim_delete_tombstone_slot_locked can take it back or it keeps another
\* program's file.
THEOREM NothingElseIsLost == RemovalSpec => []OnlyAskedIsLost
  <1>1. RemovalInv => AskedAreLost
    BY ZenonT(60) DEF RemovalInv
  <1>2. RemovalInv => SlotsAreExplained
    BY ZenonT(60) DEF RemovalInv, LinksInv, SlotsAreExplained, Occupied, MarkerOnly
  <1>3. QED
    BY <1>1, <1>2, RemovalInvariance, RemovalIdentities, PTL DEF OnlyAskedIsLost

-----------------------------------------------------------------------------
(* PinnedFile, for any number of chunks and of steps of other programs.    *)

Objects == {"own", "foreign", "none"}

\* Where the own object can be, and what is known of its contents, at each
\* step of the owner.
WhereItIs ==
  /\ step \in {"create", "write", "verify", "commit", "publish", "check", "over"}
  /\ temporary \in Objects /\ target \in Objects
  /\ written \in Nat /\ frozen \in Int
  /\ answer \in {"none", "error", "published"}
  /\ step # "over" => answer = "none"
  /\ target = "own" => step \in {"check", "over"}
  /\ temporary # "none" => platform = "named" /\ step # "create"
  /\ step = "check" => temporary = "none"
  /\ platform # "named" /\ step \in {"verify", "commit", "publish", "check"} => written = frozen
  /\ platform # "named" /\ step = "check" => target = "own"

PinnedInv == WhereItIs /\ AnswerIsSo

LEMMA AbandonKeepsInv == PinnedInv /\ Abandon => PinnedInv'
  BY DEF PinnedInv, WhereItIs, AnswerIsSo, Abandon, To, Objects

LEMMA PinnedStepKeepsInv == PinnedInv /\ [PinnedNext]_pinnedVars => PinnedInv'
<1> SUFFICES ASSUME PinnedInv, [PinnedNext]_pinnedVars PROVE PinnedInv'
  OBVIOUS
<1> USE DEF PinnedInv, WhereItIs, AnswerIsSo, To, Objects
<1>1. CASE Create
  BY <1>1, AbandonKeepsInv DEF Create
<1>2. CASE WriteChunk
  BY <1>2 DEF WriteChunk
<1>3. CASE Freeze
  BY <1>3, AbandonKeepsInv DEF Freeze
<1>4. CASE ReadBack
  BY <1>4, AbandonKeepsInv DEF ReadBack
<1>5. CASE Recheck
  BY <1>5, AbandonKeepsInv DEF Recheck
<1>6. CASE PublishNoReplace
  BY <1>6, AbandonKeepsInv DEF PublishNoReplace
<1>7. CASE CheckPublished
  BY <1>7, AbandonKeepsInv DEF CheckPublished
<1>8. CASE GiveUp
  BY <1>8, AbandonKeepsInv DEF GiveUp
<1>9. CASE Meddle
  BY <1>9 DEF Meddle
<1>10. CASE UNCHANGED pinnedVars
  BY <1>10 DEF pinnedVars
<1> QED
  BY <1>1, <1>2, <1>3, <1>4, <1>5, <1>6, <1>7, <1>8, <1>9, <1>10 DEF PinnedNext

LEMMA PinnedInvariance == PinnedSpec => []PinnedInv
<1>1. PinnedInit => PinnedInv
  BY DEF PinnedInit, PinnedInv, WhereItIs, AnswerIsSo, Objects, NotFrozen
<1> QED
  BY <1>1, PinnedStepKeepsInv, PTL DEF PinnedSpec

\* On either platform, whatever other programs do at the two names and to the
\* contents meanwhile, and however often: what commit_pinned and the drop of a
\* destination tell the caller is so, and no step of a publication or of its
\* abandonment replaces or removes another program's file.
THEOREM PublicationsAreTrue == PinnedSpec => PublicationIsTrue
<1>1. PinnedInv => AnswerIsSo
  BY DEF PinnedInv
<1>2. PinnedInv /\ [PinnedNext]_pinnedVars => [KeepsOthers]_pinnedVars
  BY DEF PinnedInv, WhereItIs, Objects, PinnedNext, pinnedVars, KeepsOthers, To, Abandon,
         Create, WriteChunk, Freeze, ReadBack, Recheck, PublishNoReplace, CheckPublished,
         GiveUp, Meddle
<1> QED
  BY <1>1, <1>2, PinnedInvariance, PTL DEF PinnedSpec, PublicationIsTrue
=============================================================================
