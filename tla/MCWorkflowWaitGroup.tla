------------------------- MODULE MCWorkflowWaitGroup ------------------------
(* Two concurrent requests of two files each (a system file and one bank  *)
(* file): the smallest case in which one request's Wait overlaps the other *)
(* request's Adds.                                                         *)
EXTENDS WorkflowWaitGroup

CONSTANTS r1, r2

MCReqs == {r1, r2}
=============================================================================
