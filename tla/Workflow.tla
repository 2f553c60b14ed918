------------------------------ MODULE Workflow ------------------------------
(***************************************************************************)
(* The workflow coordinator of internal/usecase/workflow/workflow.go.      *)
(*                                                                         *)
(* StartWorkflow creates the workflow row, then for the system file and    *)
(* each bank file in turn stats the object, creates an ingestion job and   *)
(* spawns a goroutine that ingests the file and calls                      *)
(* OnSystemIngestionComplete / OnBankIngestionComplete.  It then waits on  *)
(* the WaitGroup.  Each callback takes the coordinator mutex, reads the    *)
(* workflow row (GetWorkflow), changes its local copy and either writes it *)
(* back (UpdateWorkflow) or, when both job ids are set, runs               *)
(* ProcessReconciliation while still holding the mutex and spawns a        *)
(* goroutine that later calls OnReconciliationComplete.                    *)
(*                                                                         *)
(* The ingestion of one file is abstracted to its outcome (it is modelled  *)
(* step by step in Ingestion.tla); one reconciliation run is abstracted to *)
(* the set of files whose rows it read and its outcome (Reconcile.tla      *)
(* models the pass itself).  File 0 is the system file, 1..NBank the bank  *)
(* files in the order of the request.                                      *)
(***************************************************************************)
EXTENDS Integers, Sequences, FiniteSets

CONSTANTS
  NBank,    \* number of bank statement files in the request
  DbMayFail \* GetWorkflow and UpdateWorkflow may fail in the callbacks

ASSUME NBank \in Nat \ {0} /\ DbMayFail \in BOOLEAN

SysFile   == 0
BankFiles == 1..NBank
Files     == {SysFile} \cup BankFiles

\* A reconciliation can be started by at most one callback per bank file.
RecIds    == 1..NBank

NoJob     == -1
NoHolder  == <<"none", 0>>

\* The columns of reconciliation_workflows that the coordinator uses.
Row == [status : {"IN_PROGRESS", "COMPLETED", "FAILED"},
        sysJob : {NoJob, SysFile},
        bankJob: {NoJob} \cup BankFiles,
        recJob : {NoJob} \cup RecIds]

\* The struct built at the top of StartWorkflow (workflow.go:62-67).
NewRow == [status |-> "IN_PROGRESS", sysJob |-> NoJob,
           bankJob |-> NoJob, recJob |-> NoJob]

VARIABLES
  exists,    \* the workflow row has been inserted
  wf,        \* the workflow row in the database
  sw,        \* program counter of StartWorkflow
  nextFile,  \* the file StartWorkflow sets up next
  wg,        \* the WaitGroup counter
  mu,        \* holder of the coordinator mutex uc.mu
  task,      \* program counter of each ingestion goroutine
  ingestOk,  \* err == nil of ProcessIngestionJob, per file
  jobStatus, \* status column of each ingestion_jobs row
  stored,    \* files whose rows have all been inserted into the store
  local,     \* the copy of the row a mutex holder read with GetWorkflow
  recRuns,   \* the ProcessReconciliation calls, in order
  recTask    \* program counter of each OnReconciliationComplete goroutine

vars == <<exists, wf, sw, nextFile, wg, mu, task, ingestOk, jobStatus,
          stored, local, recRuns, recTask>>

Holders == {<<"ing", f>> : f \in Files} \cup {<<"rec", j>> : j \in RecIds}

TypeOK ==
  /\ exists \in BOOLEAN
  /\ wf \in Row
  /\ sw \in {"create", "setup", "wait", "returned", "error"}
  /\ nextFile \in 0..NBank + 1
  /\ wg \in 0..NBank + 1
  /\ mu \in Holders \cup {NoHolder}
  /\ task \in [Files -> {"idle", "ingest", "hung", "lock", "update", "done"}]
  /\ ingestOk \in [Files -> BOOLEAN]
  /\ jobStatus \in [Files -> {"NONE", "IN_PROGRESS", "COMPLETED", "FAILED"}]
  /\ stored \subseteq Files
  /\ local \in [Holders -> Row]
  /\ recRuns \in Seq([read : SUBSET Files, ok : BOOLEAN])
  /\ Len(recRuns) <= NBank
  /\ recTask \in [RecIds -> {"idle", "lock", "update", "done"}]

Init ==
  /\ exists = FALSE
  /\ wf = NewRow
  /\ sw = "create"
  /\ nextFile = 0
  /\ wg = 0
  /\ mu = NoHolder
  /\ task = [f \in Files |-> "idle"]
  /\ ingestOk = [f \in Files |-> FALSE]
  /\ jobStatus = [f \in Files |-> "NONE"]
  /\ stored = {}
  /\ local = [h \in Holders |-> NewRow]
  /\ recRuns = <<>>
  /\ recTask = [j \in RecIds |-> "idle"]

\* GetWorkflow: the row as it is in the database now.
GetWorkflow == wf

\* UpdateWorkflow writes the job ids and the status of its argument over
\* the row in one UPDATE.  Every caller ignores its error, and it can
\* fail (GetConn, the UPDATE, the commit), leaving the row as it was.
UpdateWorkflow(w) == wf' \in IF DbMayFail THEN {w, wf} ELSE {w}

-----------------------------------------------------------------------------
(* StartWorkflow                                                           *)

\* CreateWorkflow succeeds: the row is inserted IN_PROGRESS.
CreateWorkflow ==
  /\ sw = "create"
  /\ exists' = TRUE
  /\ wf' = NewRow
  /\ sw' = "setup"
  /\ UNCHANGED <<nextFile, wg, mu, task, ingestOk, jobStatus, stored, local,
                 recRuns, recTask>>

\* CreateWorkflow fails: StartWorkflow returns the error.  Usually no row
\* exists; but when BeginTx failed, the INSERT ran on a pool connection
\* outside any transaction and autocommitted before CommitTx reported
\* "non transaction mode", so the row exists IN_PROGRESS with no task.
CreateWorkflowFail ==
  /\ sw = "create"
  /\ sw' = "error"
  /\ exists' \in BOOLEAN
  /\ UNCHANGED <<wf, nextFile, wg, mu, task, ingestOk, jobStatus,
                 stored, local, recRuns, recTask>>

\* Mutant: the bank-file loop runs one file past the end of the request.
SetupFileOffByOne ==
  /\ sw = "setup"
  /\ jobStatus' = [jobStatus EXCEPT ![nextFile] = "IN_PROGRESS"]
  /\ task' = [task EXCEPT ![nextFile] = "ingest"]
  /\ wg' = wg + 1
  /\ nextFile' = nextFile + 1
  /\ sw' = IF nextFile = NBank + 1 THEN "wait" ELSE "setup"
  /\ UNCHANGED <<exists, wf, mu, ingestOk, stored, local, recRuns, recTask>>

\* FetchFileMetadata and CreateIngestionJob succeed for the next file: the
\* job row exists IN_PROGRESS, wg.Add(1), and its goroutine is spawned.
SetupFile ==
  /\ sw = "setup"
  /\ jobStatus' = [jobStatus EXCEPT ![nextFile] = "IN_PROGRESS"]
  /\ task' = [task EXCEPT ![nextFile] = "ingest"]
  /\ wg' = wg + 1
  /\ nextFile' = nextFile + 1
  /\ sw' = IF nextFile = NBank THEN "wait" ELSE "setup"
  /\ UNCHANGED <<exists, wf, mu, ingestOk, stored, local, recRuns, recTask>>

\* FetchFileMetadata or CreateIngestionJob fails: StartWorkflow writes its
\* own stale struct with status FAILED, outside the mutex and without a
\* read, and returns at once without waiting for the goroutines it spawned.
SetupFileFail ==
  /\ sw = "setup"
  /\ UpdateWorkflow([NewRow EXCEPT !.status = "FAILED"])
  /\ sw' = "error"
  /\ UNCHANGED <<exists, nextFile, wg, mu, task, ingestOk, jobStatus, stored,
                 local, recRuns, recTask>>

\* Mutant: StartWorkflow returns without calling uc.wg.Wait().
WaitReturnNoWait ==
  /\ sw = "wait"
  /\ sw' = "returned"
  /\ UNCHANGED <<exists, wf, nextFile, wg, mu, task, ingestOk, jobStatus,
                 stored, local, recRuns, recTask>>

\* uc.wg.Wait() returns and StartWorkflow returns the workflow id.
WaitReturn ==
  /\ sw = "wait"
  /\ wg = 0
  /\ sw' = "returned"
  /\ UNCHANGED <<exists, wf, nextFile, wg, mu, task, ingestOk, jobStatus,
                 stored, local, recRuns, recTask>>

-----------------------------------------------------------------------------
(* Ingestion goroutines and their callbacks                                *)

\* ProcessIngestionJob runs to its end: COMPLETED with all rows stored, or
\* FAILED (partial rows of a failed job are not counted as stored).
Ingest(f) ==
  /\ task[f] = "ingest"
  /\ \E ok \in BOOLEAN :
       /\ ingestOk' = [ingestOk EXCEPT ![f] = ok]
       /\ jobStatus' = [jobStatus EXCEPT ![f] = IF ok THEN "COMPLETED"
                                                       ELSE "FAILED"]
       /\ stored' = IF ok THEN stored \cup {f} ELSE stored
  /\ task' = [task EXCEPT ![f] = "lock"]
  /\ UNCHANGED <<exists, wf, sw, nextFile, wg, mu, local, recRuns, recTask>>

\* ProcessIngestionJob never returns: a transport error of the object
\* stream is returned again by every cReader.Read and ingestCSVJob's loop
\* continues for ever (ingestion.go:82-85).  No callback runs, the
\* deferred wg.Done never runs, and the job row stays IN_PROGRESS.
IngestHangs(f) ==
  /\ task[f] = "ingest"
  /\ task' = [task EXCEPT ![f] = "hung"]
  /\ UNCHANGED <<exists, wf, sw, nextFile, wg, mu, ingestOk, jobStatus,
                 stored, local, recRuns, recTask>>

\* The callback locks uc.mu and reads the row with GetWorkflow.
CallbackLock(f) ==
  /\ task[f] = "lock"
  /\ mu = NoHolder
  /\ mu' = <<"ing", f>>
  /\ local' = [local EXCEPT ![<<"ing", f>>] = GetWorkflow]
  /\ task' = [task EXCEPT ![f] = "update"]
  /\ UNCHANGED <<exists, wf, sw, nextFile, wg, ingestOk, jobStatus, stored,
                 recRuns, recTask>>

\* The callback's copy with this file's job id recorded.
WithJob(f, w) ==
  IF f = SysFile THEN [w EXCEPT !.sysJob = f] ELSE [w EXCEPT !.bankJob = f]

\* Mutant: the gate tests either job id instead of both.
EitherJobSet(w) == w.sysJob # NoJob \/ w.bankJob # NoJob

BothJobsSet(w) == w.sysJob # NoJob /\ w.bankJob # NoJob

\* The callback returns: mutex released (defer) and wg.Done() (defer).
Finish(f) ==
  /\ mu' = NoHolder
  /\ task' = [task EXCEPT ![f] = "done"]
  /\ wg' = wg - 1

\* GetWorkflow fails after the lock: the callback returns the error
\* without writing anything.
CallbackReadFail(f) ==
  /\ DbMayFail
  /\ task[f] = "update"
  /\ Finish(f)
  /\ UNCHANGED <<exists, wf, sw, nextFile, ingestOk, jobStatus, stored, local,
                 recRuns, recTask>>

\* success == false: status FAILED is written back.
CallbackFail(f) ==
  /\ task[f] = "update"
  /\ ~ingestOk[f]
  /\ UpdateWorkflow([local[<<"ing", f>>] EXCEPT !.status = "FAILED"])
  /\ Finish(f)
  /\ UNCHANGED <<exists, sw, nextFile, ingestOk, jobStatus, stored, local,
                 recRuns, recTask>>

\* success, but the other side's job id is not yet set: the copy with this
\* job id is written back.
CallbackRecord(f) ==
  /\ task[f] = "update"
  /\ ingestOk[f]
  /\ ~BothJobsSet(WithJob(f, local[<<"ing", f>>]))
  /\ UpdateWorkflow(WithJob(f, local[<<"ing", f>>]))
  /\ Finish(f)
  /\ UNCHANGED <<exists, sw, nextFile, ingestOk, jobStatus, stored, local,
                 recRuns, recTask>>

\* success and both job ids set: startReconciliation runs
\* ProcessReconciliation while the mutex is held, over whatever rows are in
\* the store now.  On success it spawns OnReconciliationComplete; either
\* way it returns without writing the copy back.
CallbackReconcile(f) ==
  /\ task[f] = "update"
  /\ ingestOk[f]
  /\ BothJobsSet(WithJob(f, local[<<"ing", f>>]))
  /\ \E ok \in BOOLEAN :
       /\ recRuns' = Append(recRuns, [read |-> stored, ok |-> ok])
       /\ recTask' = IF ok THEN [recTask EXCEPT ![Len(recRuns) + 1] = "lock"]
                           ELSE recTask
  /\ Finish(f)
  /\ UNCHANGED <<exists, wf, sw, nextFile, ingestOk, jobStatus, stored, local>>

-----------------------------------------------------------------------------
(* OnReconciliationComplete goroutines (not counted by the WaitGroup)      *)

RecLock(j) ==
  /\ recTask[j] = "lock"
  /\ mu = NoHolder
  /\ mu' = <<"rec", j>>
  /\ local' = [local EXCEPT ![<<"rec", j>>] = GetWorkflow]
  /\ recTask' = [recTask EXCEPT ![j] = "update"]
  /\ UNCHANGED <<exists, wf, sw, nextFile, wg, task, ingestOk, jobStatus,
                 stored, recRuns>>

\* GetWorkflow fails: OnReconciliationComplete returns the error, which
\* the goroutine discards.
RecReadFail(j) ==
  /\ DbMayFail
  /\ recTask[j] = "update"
  /\ mu' = NoHolder
  /\ recTask' = [recTask EXCEPT ![j] = "done"]
  /\ UNCHANGED <<exists, wf, sw, nextFile, wg, task, ingestOk, jobStatus,
                 stored, local, recRuns>>

\* success == true: the reconciliation job id and COMPLETED are written.
RecUpdate(j) ==
  /\ recTask[j] = "update"
  /\ UpdateWorkflow([local[<<"rec", j>>] EXCEPT !.recJob = j,
                                                 !.status = "COMPLETED"])
  /\ mu' = NoHolder
  /\ recTask' = [recTask EXCEPT ![j] = "done"]
  /\ UNCHANGED <<exists, sw, nextFile, wg, task, ingestOk, jobStatus, stored,
                 local, recRuns>>

-----------------------------------------------------------------------------

Next ==
  \/ CreateWorkflow \/ CreateWorkflowFail
  \/ SetupFile \/ SetupFileFail \/ WaitReturn
  \/ \E f \in Files : \/ Ingest(f) \/ IngestHangs(f) \/ CallbackLock(f) \/ CallbackReadFail(f)
                      \/ CallbackFail(f) \/ CallbackRecord(f)
                      \/ CallbackReconcile(f)
  \/ \E j \in RecIds : RecLock(j) \/ RecReadFail(j) \/ RecUpdate(j)

\* Every runnable goroutine is eventually scheduled and a free mutex is
\* eventually acquired by a waiter; the request goroutine keeps running.
Fairness ==
  /\ WF_vars(CreateWorkflow \/ CreateWorkflowFail)
  /\ WF_vars(SetupFile \/ SetupFileFail)
  /\ WF_vars(WaitReturn)
  /\ \A f \in Files :
       /\ WF_vars(Ingest(f) \/ IngestHangs(f))
       /\ WF_vars(CallbackLock(f))
       /\ WF_vars(CallbackReadFail(f) \/ CallbackFail(f) \/ CallbackRecord(f)
                   \/ CallbackReconcile(f))
  /\ \A j \in RecIds : WF_vars(RecLock(j))
                     /\ WF_vars(RecReadFail(j) \/ RecUpdate(j))

Spec == Init /\ [][Next]_vars /\ Fairness

-----------------------------------------------------------------------------
(* Properties                                                              *)

\* Every ProcessReconciliation the callbacks start reads a store that holds
\* the whole system file and at least one whole bank file, and a COMPLETED
\* workflow names a reconciliation run that succeeded.  This is what the
\* job-id gate of OnSystemIngestionComplete / OnBankIngestionComplete and
\* the success flag of each callback are for.
ReconciliationGated ==
  /\ \A i \in 1..Len(recRuns) :
       SysFile \in recRuns[i].read /\ recRuns[i].read \cap BankFiles # {}
  /\ wf.status = "COMPLETED" =>
       /\ wf.recJob \in 1..Len(recRuns)
       /\ recRuns[wf.recJob].ok

\* Reconciliation runs at most once per workflow, and not at all once an
\* ingestion job of the request has failed (spec 3: the workflow
\* references one reconciliation job; spec 4.5: a single bank ingestion
\* failure marks the workflow FAILED; spec 8 scenario 6: one of two bank
\* ingestions fails => FAILED and no reconciliation row created).  The
\* job-id gate of the callbacks is what should ensure it.
OneReconciliationNoneAfterFailure ==
  /\ Len(recRuns) <= 1
  /\ (\E f \in Files : jobStatus[f] = "FAILED") => recRuns = <<>>

\* When StartWorkflow returns the workflow id, every ingestion goroutine it
\* spawned has finished its callback and released the mutex: wg.Add(1)
\* precedes each go statement and wg.Done is deferred past the callback
\* (spec 5: the coordinator awaits all its tasks through a completion
\* barrier).  OnReconciliationComplete goroutines are not awaited.
ReturnedAfterCallbacks ==
  sw = "returned" =>
    /\ \A f \in Files : task[f] = "done"
    /\ mu \notin {<<"ing", f>> : f \in Files}

\* A created workflow leaves IN_PROGRESS for COMPLETED or FAILED exactly
\* once: the status never changes after it is terminal, and it eventually
\* becomes terminal (spec 8: "status path is IN_PROGRESS -> {COMPLETED,
\* FAILED} exactly once"; spec 7: ReconciliationFailure => FAILED).  Both
\* the callbacks' write-back of the row they read and startReconciliation's
\* error path are about this.
WorkflowTerminatesOnce ==
  /\ [][exists /\ wf.status # "IN_PROGRESS" => wf'.status = wf.status]_wf
  /\ [](exists => <>(wf.status # "IN_PROGRESS"))

=============================================================================
