--------------------------- MODULE MCReconcileJob ---------------------------
(* ProcessReconciliation over every pair of window contents up to the      *)
(* bounds of the .cfg: each list of the matching result is empty in some  *)
(* states and non-empty in others, and a bucket can hold two statements.  *)
EXTENDS ReconcileJob, ReconcileInputs

MCTxLists   == SortedTxLists
MCStmtLists == SortedStmtLists
=============================================================================
