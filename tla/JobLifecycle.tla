----------------------------- MODULE JobLifecycle ----------------------------
(***************************************************************************)
(* What the ingestion_jobs table promises about a job row (domain          *)
(* IngestionJob, spec 3): a PENDING job is taken IN_PROGRESS                *)
(* (MarkJobInProgress); an IN_PROGRESS job reports progress and at most    *)
(* once ends COMPLETED or FAILED (UpdateJobProgress); total_lines_processed *)
(* never decreases; a finished job is never written again.  One step       *)
(* changes one job.                                                        *)
(*                                                                         *)
(* Ingestion (one job run by ingestCSVJob) and WorkerPool (the rows the    *)
(* worker processes take and finish) are checked to implement this         *)
(* specification under a refinement mapping.  The lines counter is checked *)
(* as a relation between a state and the next, so Advance is stated for    *)
(* checking against a detailed specification, not for generating states.   *)
(***************************************************************************)
EXTENDS Naturals

CONSTANTS JobIds

VARIABLES jobStatus, jobLines

Terminal == {"COMPLETED", "FAILED"}

\* Rows are created PENDING or, by StartWorkflow, IN_PROGRESS, with no
\* lines processed.
Init ==
  /\ jobStatus \in [JobIds -> {"PENDING", "IN_PROGRESS"}]
  /\ jobLines = [j \in JobIds |-> 0]

\* MarkJobInProgress of a PENDING job.
Take(j) ==
  /\ jobStatus[j] = "PENDING"
  /\ jobStatus' = [jobStatus EXCEPT ![j] = "IN_PROGRESS"]
  /\ jobLines' = jobLines

\* UpdateJobProgress of an IN_PROGRESS job: the counter does not go down
\* and the status stays IN_PROGRESS or becomes terminal.
Advance(j) ==
  /\ jobStatus[j] = "IN_PROGRESS"
  /\ jobStatus' \in {[jobStatus EXCEPT ![j] = s] : s \in {"IN_PROGRESS"} \cup Terminal}
  /\ DOMAIN jobLines' = JobIds
  /\ jobLines'[j] \in Nat /\ jobLines'[j] >= jobLines[j]
  /\ \A k \in JobIds \ {j} : jobLines'[k] = jobLines[k]

Next == \E j \in JobIds : Take(j) \/ Advance(j)

Spec == Init /\ [][Next]_<<jobStatus, jobLines>>

=============================================================================
