--------------------------- MODULE ExportAdmission ---------------------------
(***************************************************************************)
(* What ExportCoordinator promises: one export at a time, whose admission  *)
(* is given up only by the operation that has it, and always is.           *)
(***************************************************************************)
CONSTANTS Clients, NoClient

VARIABLE holder

Init == holder = NoClient

Acquire(c) == holder = NoClient /\ holder' = c

Release(c) == holder = c /\ holder' = NoClient

Next == \E c \in Clients : Acquire(c) \/ Release(c)

\* What it never does, and what it always does in the end.
Safety == Init /\ [][Next]_holder

Spec == Safety /\ \A c \in Clients : WF_holder(Release(c))
=============================================================================
