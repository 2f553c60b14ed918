---------------------------- MODULE MCWorkerPool ----------------------------
(* Four jobs listed one per round (LIMIT 1), so that a later round of a   *)
(* manager sees what an earlier one left; one worker per process, so that *)
(* a busy worker and a full channel (capacity 2) block the fourth send.  *)
EXTENDS WorkerPool

CONSTANTS p1, p2

MCJobs    == {1, 2, 3, 4}
MCWorkers == {0}
=============================================================================
