------------------------------ MODULE MCStore ------------------------------
(***************************************************************************)
(* Model-checking instances of Store: the sets of failures the runs allow. *)
(***************************************************************************)
EXTENDS StoreInv

AllFaults == FaultKinds

\* All but those that leave half a record in the log or take it for empty.
DurableFaults == FaultKinds \ {"wal1", "walRead"}
=============================================================================
