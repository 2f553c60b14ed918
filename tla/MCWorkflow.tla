----------------------------- MODULE MCWorkflow -----------------------------
(* Model-checking instance of Workflow: one system file and two bank       *)
(* files, the smallest request in which one bank file can succeed while    *)
(* another fails or is still being ingested.                               *)
EXTENDS Workflow

MCNBank == 2
=============================================================================
