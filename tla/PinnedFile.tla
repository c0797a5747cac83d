----------------------------- MODULE PinnedFile -----------------------------
(***************************************************************************)
(* PinnedExportDestination                                                 *)
(* (crates/wokcore-platform/src/sessions/export_destination.rs), through   *)
(* which every new diagnostic file and every package comes to its name:    *)
(* written to a temporary, frozen, read back, and published where nothing  *)
(* was.  On Linux the temporary has no name; on Apple systems it has one   *)
(* until a rename that fails if the target exists, and an object that can  *)
(* be followed wherever it is moved.                                       *)
(***************************************************************************)
EXTENDS Integers

CONSTANTS
  Platforms,    \* subset of {"unnamed", "named"}
  MaxWrites,    \* chunks written
  MaxMeddling   \* steps of other programs

VARIABLES
  platform,
  step,       \* what the owner does next
  temporary,  \* what is at the temporary name: own, foreign, none
  target,     \* what is at the target name
  written,    \* contents of the own object
  frozen,     \* ExportVerification.snapshot, NotFrozen before it is taken
  boundary,   \* is every directory of the chain where it was
  meddling,
  answer      \* what the caller was told

pinnedVars == <<platform, step, temporary, target, written, frozen, boundary, meddling, answer>>

NotFrozen == -1

PinnedInit ==
  /\ platform \in Platforms
  /\ step = "create"
  /\ temporary = "none" /\ target = "none"
  /\ written = 0 /\ frozen = NotFrozen
  /\ boundary = TRUE /\ meddling = 0
  /\ answer = "none"

-----------------------------------------------------------------------------
(* Other programs.                                                         *)

Meddle ==
  /\ meddling < MaxMeddling /\ step # "over"
  /\ meddling' = meddling + 1
  /\ \/ target = "none" /\ target' = "foreign" /\ UNCHANGED <<temporary, written, boundary>>
     \/ temporary = "own" /\ temporary' = "foreign" /\ UNCHANGED <<target, written, boundary>>
     \/ temporary = "own" /\ written' = written + 1 /\ UNCHANGED <<temporary, target, boundary>>
     \/ boundary /\ boundary' = FALSE /\ UNCHANGED <<temporary, target, written>>
  /\ UNCHANGED <<platform, step, frozen, answer>>

-----------------------------------------------------------------------------
(* The owner.                                                              *)

To(label) == step' = label

\* Drop of a destination that was not committed: the own object goes, at
\* whatever name it is by now, and no other does.
Abandon ==
  /\ To("over")
  /\ answer' = "error"
  /\ temporary' = IF temporary = "own" THEN "none" ELSE temporary
  /\ target' = IF target = "own" THEN "none" ELSE target
  /\ UNCHANGED <<platform, written, frozen, boundary, meddling>>

\* create_pinned: inside the boundary, the target absent, then the temporary.
Create ==
  /\ step = "create"
  /\ IF boundary /\ target = "none"
     THEN /\ temporary' = IF platform = "named" THEN "own" ELSE "none"
          /\ To("write")
          /\ UNCHANGED <<platform, target, written, frozen, boundary, meddling, answer>>
     ELSE Abandon

\* Write: refused once frozen, which the callers never try.
WriteChunk ==
  /\ step = "write" /\ written < MaxWrites
  /\ written' = written + 1
  /\ UNCHANGED <<platform, step, temporary, target, frozen, boundary, meddling, answer>>

\* revalidate_owned_temporary and, once frozen, revalidate_verification.
StillOwned ==
  /\ boundary
  /\ platform = "named" => temporary = "own"
  /\ frozen # NotFrozen => written = frozen

\* freeze_for_verification: flushed to disk, and the snapshot taken.
Freeze ==
  /\ step = "write"
  /\ IF StillOwned
     THEN frozen' = written /\ To("verify")
          /\ UNCHANGED <<platform, temporary, target, written, boundary, meddling, answer>>
     ELSE Abandon

\* read_owned_range, as long as what is read is what was frozen.
ReadBack ==
  /\ step = "verify"
  /\ IF StillOwned
     THEN To("commit")
          /\ UNCHANGED <<platform, temporary, target, written, frozen, boundary, meddling, answer>>
     ELSE Abandon

\* commit_pinned up to the publication: the last look at everything.
Recheck ==
  /\ step = "commit"
  /\ IF StillOwned /\ target = "none"
     THEN To("publish")
          /\ UNCHANGED <<platform, temporary, target, written, frozen, boundary, meddling, answer>>
     ELSE Abandon

\* A publication by a rename that replaces.
PublishOver ==
  /\ step = "publish"
  /\ target' = IF platform = "named" THEN temporary ELSE "own"
  /\ temporary' = "none"
  /\ To("check")
  /\ UNCHANGED <<platform, written, frozen, boundary, meddling, answer>>

\* publish_relative_noreplace: linkat of the open file, or the rename of what
\* is at the temporary name; either fails if the target exists.
PublishNoReplace ==
  /\ step = "publish"
  /\ IF target # "none" \/ (platform = "named" /\ temporary = "none")
     THEN Abandon
     ELSE /\ target' = IF platform = "named" THEN temporary ELSE "own"
          /\ temporary' = "none"
          /\ To("check")
          /\ UNCHANGED <<platform, written, frozen, boundary, meddling, answer>>

\* Where the name could have been another object's, the target is looked at
\* again; a linked file is what it is, and only its snapshot may be adopted
\* later.
CheckPublished ==
  /\ step = "check"
  /\ IF platform = "named" /\ ~(boundary /\ target = "own" /\ written = frozen)
     THEN Abandon
     ELSE /\ answer' = "published"
          /\ To("over")
          /\ UNCHANGED <<platform, temporary, target, written, frozen, boundary, meddling>>

\* The caller gives up before it commits.
GiveUp == step \in {"write", "verify"} /\ Abandon

PinnedNext ==
  \/ Create \/ WriteChunk \/ Freeze \/ ReadBack \/ Recheck \/ PublishNoReplace
  \/ CheckPublished \/ GiveUp \/ Meddle

PinnedSpec == PinnedInit /\ [][PinnedNext]_pinnedVars

-----------------------------------------------------------------------------
\* A file another program has put at a name stays, at the target or at the
\* temporary's name, except for the rename that takes it for the temporary and
\* then reports failure.
KeepsOthers ==
  /\ target = "foreign" => target' = "foreign"
  /\ temporary = "foreign" /\ temporary' # "foreign" => target' = "foreign"

\* Published means that the own object is at the target with the contents that
\* were frozen, an error means that nothing of it is left at any name.
AnswerIsSo ==
  /\ answer = "published" => target = "own" /\ temporary # "own" /\ written = frozen
  /\ answer = "error" => target # "own" /\ temporary # "own"

\* What the caller of a publication is told is so (commit_pinned), and a file of
\* another program is neither replaced nor removed (publish_relative_noreplace,
\* Drop of PinnedExportDestination).
PublicationIsTrue == []AnswerIsSo /\ [][KeepsOthers]_pinnedVars
=============================================================================
