------------------------------ MODULE WorkerPool ----------------------------
(***************************************************************************)
(* The ingestion worker process: WorkerIngestionLoop                       *)
(* (internal/usecase/ingestion/worker.go) started by the "start" console   *)
(* command (internal/presenter/console/worker.go), against the             *)
(* ingestion_jobs table (ListPendingJobs, MarkJobInProgress).              *)
(*                                                                         *)
(* Several worker processes may run against one database; each has one     *)
(* manager goroutine, a job channel of capacity concurrency*2 and          *)
(* concurrency worker goroutines.  ProcessIngestionJob is abstracted to    *)
(* its effect on the job row (Ingestion.tla models it step by step): the   *)
(* row ends COMPLETED or FAILED, or stays IN_PROGRESS when the final       *)
(* UpdateJobProgress fails.  On a signal the process runs on for the 5 s  *)
(* sleep, then cancels its context and exits; it may be started again.    *)
(***************************************************************************)
EXTENDS Naturals, Sequences, FiniteSets

CONSTANTS
  Jobs,          \* ingestion job ids, in created_at order (1..n)
  Procs,         \* worker processes
  Workers,       \* worker goroutine ids of one process (0..concurrency-1)
  ListLimit,     \* the LIMIT of ListPendingJobs (10 in the code)
  MaxRestarts,   \* bound on process restarts
  DbMayFail      \* MarkJobInProgress and the last UpdateJobProgress may fail

ASSUME ListLimit \in Nat \ {0} /\ MaxRestarts \in Nat /\ DbMayFail \in BOOLEAN

\* jobCh := make(chan domain.IngestionJob, concurrency*2)
ChanCap == 2 * Cardinality(Workers)

None == 0

Terminal == {"COMPLETED", "FAILED"}

VARIABLES
  status,   \* status column of each ingestion_jobs row
  up,       \* the process is running
  mpc,      \* manager loop of each process
  todo,     \* pendingJobs of the current manager iteration, not yet handled
  ch,       \* jobCh of each process
  wjob,     \* job each worker goroutine is processing, or None
  restarts, \* process starts after the first
  sig,      \* the process received SIGINT/SIGTERM and is in its 5 s sleep
  hung      \* the worker's ProcessIngestionJob will never return

vars == <<status, up, mpc, todo, ch, wjob, restarts, sig, hung>>

TypeOK ==
  /\ status \in [Jobs -> {"PENDING", "IN_PROGRESS"} \cup Terminal]
  /\ up \in [Procs -> BOOLEAN]
  /\ mpc \in [Procs -> {"list", "mark", "send"}]
  /\ todo \in [Procs -> Seq(Jobs)] /\ \A p \in Procs : Len(todo[p]) <= ListLimit
  /\ ch \in [Procs -> Seq(Jobs)] /\ \A p \in Procs : Len(ch[p]) <= ChanCap
  /\ wjob \in [Procs \X Workers -> Jobs \cup {None}]
  /\ restarts \in 0..MaxRestarts
  /\ sig \in [Procs -> BOOLEAN]
  /\ hung \in [Procs \X Workers -> BOOLEAN]

\* No code of the repository creates PENDING jobs (StartWorkflow creates
\* them IN_PROGRESS); rows of either status may be in the table.
Init ==
  /\ status \in [Jobs -> {"PENDING", "IN_PROGRESS"}]
  /\ up = [p \in Procs |-> TRUE]
  /\ mpc = [p \in Procs |-> "list"]
  /\ todo = [p \in Procs |-> <<>>]
  /\ ch = [p \in Procs |-> <<>>]
  /\ wjob = [w \in Procs \X Workers |-> None]
  /\ restarts = 0
  /\ sig = [p \in Procs |-> FALSE]
  /\ hung = [w \in Procs \X Workers |-> FALSE]

-----------------------------------------------------------------------------

\* The PENDING jobs in created_at order.
PendingInOrder ==
  LET pending == {j \in Jobs : status[j] = "PENDING"}
  IN [i \in 1..Cardinality(pending) |->
        CHOOSE j \in pending : Cardinality({k \in pending : k < j}) = i - 1]

\* Mutant: the query has no LIMIT.
ListPendingJobsNoLimit == PendingInOrder

\* ListPendingJobs(ctx, 10): the PENDING rows in created_at order, at most
\* ListLimit of them.
ListPendingJobs ==
  SubSeq(PendingInOrder, 1, IF Len(PendingInOrder) < ListLimit
                              THEN Len(PendingInOrder) ELSE ListLimit)

\* ListPendingJobs fails or finds nothing: the manager sleeps 5 seconds
\* and lists again, which changes nothing.
Idle(p) ==
  /\ up[p] /\ mpc[p] = "list"
  /\ UNCHANGED vars

\* The manager lists the pending jobs.
List(p) ==
  /\ up[p] /\ mpc[p] = "list"
  /\ ListPendingJobs # <<>>
  /\ todo' = [todo EXCEPT ![p] = ListPendingJobs]
  /\ mpc' = [mpc EXCEPT ![p] = "mark"]
  /\ UNCHANGED <<status, up, ch, wjob, restarts, sig, hung>>

\* MarkJobInProgress(jobID): UPDATE ingestion_jobs SET status =
\* 'IN_PROGRESS' WHERE job_id = $1, whatever the status is now.
MarkJobInProgress(j) == status' = [status EXCEPT ![j] = "IN_PROGRESS"]

\* Mutant: the continue after a failed MarkJobInProgress is left out, so
\* the job is sent to a worker while its row is still PENDING.
MarkNoSkip(p) ==
  /\ up[p] /\ mpc[p] = "mark"
  /\ \/ /\ todo[p] = <<>>
        /\ mpc' = [mpc EXCEPT ![p] = "list"]
        /\ UNCHANGED status
     \/ /\ todo[p] # <<>>
        /\ MarkJobInProgress(Head(todo[p]))
        /\ mpc' = [mpc EXCEPT ![p] = "send"]
     \/ /\ todo[p] # <<>>
        /\ mpc' = [mpc EXCEPT ![p] = "send"]
        /\ UNCHANGED status
  /\ UNCHANGED <<up, todo, ch, wjob, restarts, sig, hung>>

\* The manager marks the next listed job IN_PROGRESS.  When that fails the
\* job is skipped (continue); when the list is done the manager lists
\* again.
Mark(p) ==
  /\ up[p] /\ mpc[p] = "mark"
  /\ \/ /\ todo[p] = <<>>
        /\ mpc' = [mpc EXCEPT ![p] = "list"]
        /\ UNCHANGED <<status, todo>>
     \/ /\ todo[p] # <<>>
        /\ MarkJobInProgress(Head(todo[p]))
        /\ mpc' = [mpc EXCEPT ![p] = "send"]
        /\ UNCHANGED todo
     \/ /\ DbMayFail /\ todo[p] # <<>>
        /\ todo' = [todo EXCEPT ![p] = Tail(@)]
        /\ UNCHANGED <<status, mpc>>
  /\ UNCHANGED <<up, ch, wjob, restarts, sig, hung>>

\* jobCh <- job, blocking while the channel is full.
Send(p) ==
  /\ up[p] /\ mpc[p] = "send"
  /\ Len(ch[p]) < ChanCap
  /\ ch' = [ch EXCEPT ![p] = Append(@, Head(todo[p]))]
  /\ todo' = [todo EXCEPT ![p] = Tail(@)]
  /\ mpc' = [mpc EXCEPT ![p] = "mark"]
  /\ UNCHANGED <<status, up, wjob, restarts, sig, hung>>

\* An idle worker receives a job and calls ProcessIngestionJob.
Receive(p, w) ==
  /\ up[p] /\ wjob[<<p, w>>] = None
  /\ ch[p] # <<>>
  /\ wjob' = [wjob EXCEPT ![<<p, w>>] = Head(ch[p])]
  /\ ch' = [ch EXCEPT ![p] = Tail(@)]
  /\ UNCHANGED <<status, up, mpc, todo, restarts, sig, hung>>

\* ProcessIngestionJob returns: its last UpdateJobProgress wrote COMPLETED
\* or FAILED, or failed and left the row as it was.
Process(p, w) ==
  /\ up[p] /\ wjob[<<p, w>>] # None /\ ~hung[<<p, w>>]
  /\ LET j == wjob[<<p, w>>] IN
       status' \in {[status EXCEPT ![j] = s] : s \in Terminal}
                    \cup (IF DbMayFail THEN {status} ELSE {})
  /\ wjob' = [wjob EXCEPT ![<<p, w>>] = None]
  /\ UNCHANGED <<up, mpc, todo, ch, restarts, sig, hung>>

\* ProcessIngestionJob never returns: a transport error of the object
\* stream is returned again by every cReader.Read, and ingestCSVJob's loop
\* continues for ever (ingestion.go:82-85).  The worker keeps its job and
\* never comes back to its select; the row stays IN_PROGRESS.
ProcessHangs(p, w) ==
  /\ up[p] /\ wjob[<<p, w>>] # None /\ ~hung[<<p, w>>]
  /\ hung' = [hung EXCEPT ![<<p, w>>] = TRUE]
  /\ UNCHANGED <<status, up, mpc, todo, ch, wjob, restarts, sig>>

\* SIGINT/SIGTERM reaches <-sigCh.  StartWorker then sleeps 5 seconds
\* before it returns, and only its return runs the deferred cancel(): the
\* manager and the workers go on listing, marking, sending and processing
\* meanwhile.
Signal(p) ==
  /\ up[p] /\ ~sig[p]
  /\ restarts < MaxRestarts
  /\ sig' = [sig EXCEPT ![p] = TRUE]
  /\ UNCHANGED <<status, up, mpc, todo, ch, wjob, restarts, hung>>

\* The sleep ends: StartWorker returns, cancel() runs and the process
\* exits; the listed jobs, the channel and the jobs in the workers' hands
\* are lost with their rows IN_PROGRESS.
Exit(p) ==
  /\ up[p] /\ sig[p]
  /\ up' = [up EXCEPT ![p] = FALSE]
  /\ sig' = [sig EXCEPT ![p] = FALSE]
  /\ ch' = [ch EXCEPT ![p] = <<>>]
  /\ todo' = [todo EXCEPT ![p] = <<>>]
  /\ mpc' = [mpc EXCEPT ![p] = "list"]
  /\ wjob' = [w \in DOMAIN wjob |-> IF w[1] = p THEN None ELSE wjob[w]]
  /\ hung' = [w \in DOMAIN hung |-> IF w[1] = p THEN FALSE ELSE hung[w]]
  /\ UNCHANGED <<status, restarts>>

\* The "start" command is run again.
Start(p) ==
  /\ ~up[p]
  /\ restarts < MaxRestarts
  /\ up' = [up EXCEPT ![p] = TRUE]
  /\ restarts' = restarts + 1
  /\ UNCHANGED <<status, mpc, todo, ch, wjob, sig, hung>>

Next ==
  \/ \E p \in Procs : Idle(p) \/ List(p) \/ Mark(p) \/ Send(p) \/ Signal(p) \/ Exit(p) \/ Start(p)
  \/ \E p \in Procs, w \in Workers : Receive(p, w) \/ Process(p, w) \/ ProcessHangs(p, w)

\* Goroutines of a running process keep being scheduled.  A signal is not
\* fair (a process may run forever); the 5 s sleep after one ends, and a
\* stopped process is restarted.
Fairness ==
  \A p \in Procs :
    /\ WF_vars(List(p)) /\ WF_vars(Mark(p)) /\ WF_vars(Send(p))
    /\ WF_vars(Exit(p)) /\ WF_vars(Start(p))
    /\ \A w \in Workers : WF_vars(Receive(p, w))
                         /\ WF_vars(Process(p, w) \/ ProcessHangs(p, w))

Spec == Init /\ [][Next]_vars /\ Fairness

-----------------------------------------------------------------------------
(* Properties                                                              *)

\* The job rows as the abstract job lifecycle sees them; the worker loop
\* does not touch total_lines_processed (ProcessIngestionJob's own writes
\* of it are checked in Ingestion).
JobRows == INSTANCE JobLifecycle
             WITH JobIds    <- Jobs,
                  jobStatus <- status,
                  jobLines  <- [j \in Jobs |-> 0]

\* The worker processes implement the job lifecycle: a job is processed
\* only after the manager marked it IN_PROGRESS, and a COMPLETED or FAILED
\* job is never reopened by a later MarkJobInProgress, across list rounds,
\* failed marks, stops and restarts (spec 3: the terminal transition of an
\* IngestionJob is one-shot).
ImplementsJobLifecycle == JobRows!Spec

=============================================================================
