------------------------------ MODULE MCDrain ------------------------------
(***************************************************************************)
(* Small instances of the lifecycle.  A caller of snapshot() reads the     *)
(* phase and its revision and nothing a request writes, so the run has two *)
(* casts: the callers with a request task, and the callers with a reader.  *)
(* A reader needs one drain that is cancelled, not two.                    *)
(***************************************************************************)
EXTENDS ServiceLifecycle

CONSTANT ReaderRevision  \* the last revision the cast with a reader publishes

VARIABLE cast

MCInit == Init /\ cast \in {"requests", "readers"}

MCNext ==
  /\ Next
  /\ \/ cast = "requests" /\ UNCHANGED readers
     \/ cast = "readers" /\ UNCHANGED rpc /\ revision' <= ReaderRevision
  /\ UNCHANGED cast

MCSpec == MCInit /\ [][MCNext]_<<vars, cast>> /\ Fairness
=============================================================================
