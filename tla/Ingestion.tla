------------------------------ MODULE Ingestion -----------------------------
(***************************************************************************)
(* One run of ingestCSVJob (internal/usecase/ingestion/ingestion.go) for   *)
(* one ingestion job, with the rows of the data repository it inserts into *)
(* (BatchInsertSystemTx / BatchInsertBankStmts) and the ingestion_jobs row *)
(* it updates (UpdateJobProgress).                                         *)
(*                                                                         *)
(* A file is its header followed by a sequence of records.  A record is    *)
(* one the csv.Reader rejects (a row whose field count differs from the    *)
(* header's, or bad quoting), a transport error of the object stream      *)
(* (which every later Read returns again), one the parser rejects, or a    *)
(* parsed row whose business key (trxID, or the hash of a bank statement)  *)
(* is a member of Keys.  A job parses rows of one kind only, so one batch  *)
(* is modelled.                                                            *)
(***************************************************************************)
EXTENDS Naturals, Sequences, FiniteSets

CONSTANTS
  Keys,       \* business keys of parsed rows
  MaxLines,   \* most records in a file
  BatchSize,  \* defaultBatchSize (ingestion.go:17)
  DbMayFail   \* UpdateJobProgress may fail (its error is ignored)

ASSUME BatchSize \in Nat \ {0} /\ MaxLines \in Nat /\ DbMayFail \in BOOLEAN

Records == {[kind |-> "csverr"], [kind |-> "ioerr"], [kind |-> "parseerr"]}
           \cup {[kind |-> "row", key |-> k] : k \in Keys}

\* The objects the job may name: missing ones, an empty one (no header),
\* and ones with a header and up to MaxLines records.
Files == {[exists |-> FALSE, header |-> FALSE, recs |-> <<>>],
          [exists |-> TRUE, header |-> FALSE, recs |-> <<>>]}
         \cup {[exists |-> TRUE, header |-> TRUE, recs |-> r] :
                 r \in UNION {[1..n -> Records] : n \in 0..MaxLines}}

VARIABLES
  file,    \* the object named by the job
  pc,      \* where ingestCSVJob is
  pos,     \* records of the file consumed by cReader.Read
  lines,   \* linesProcessed
  batch,   \* sysBatch / bankBatch: keys parsed and not yet flushed
  store,   \* keys present in system_transactions / bank_statements
  job      \* the ingestion_jobs row: status and total_lines_processed

vars == <<file, pc, pos, lines, batch, store, job>>

Statuses == {"IN_PROGRESS", "COMPLETED", "FAILED"}

TypeOK ==
  /\ file \in Files
  /\ pc \in {"open", "header", "loop", "spinning", "completed", "failed", "crashed"}
  /\ pos \in 0..MaxLines
  /\ lines \in 0..MaxLines
  /\ batch \in Seq(Keys) /\ Len(batch) <= BatchSize
  /\ store \subseteq Keys
  /\ job \in [status : Statuses, lines : 0..MaxLines]

\* The job row is created IN_PROGRESS by StartWorkflow; rows inserted by
\* earlier runs may already be in the store.
Init ==
  /\ file \in Files
  /\ pc = "open"
  /\ pos = 0
  /\ lines = 0
  /\ batch = <<>>
  /\ store \in SUBSET Keys
  /\ job = [status |-> "IN_PROGRESS", lines |-> 0]

-----------------------------------------------------------------------------

\* UpdateJobProgress(ctx, job.JobID, n, status): one UPDATE of the row.
\* ingestCSVJob ignores its error, and it can fail (GetConn, the UPDATE),
\* leaving the row as it was.
UpdateJobProgress(n, status) ==
  job' \in IF DbMayFail THEN {[status |-> status, lines |-> n], job}
                         ELSE {[status |-> status, lines |-> n]}

\* The keys a batch insert leaves in the store.  When BeginTx succeeds the
\* inserts commit together or roll back together.  When BeginTx fails,
\* sqlstore puts no transaction in the context, GetConn hands out a pooled
\* connection, each INSERT autocommits, and CommitTx then reports an
\* error: any prefix of the batch may be stored when the insert fails.
FlushOk(b)   == store' = store \cup {b[i] : i \in 1..Len(b)}
FlushFail(b) == \E n \in 0..Len(b) : store' = store \cup {b[i] : i \in 1..n}

\* GetObject: a missing object fails the job.
OpenObject ==
  /\ pc = "open"
  /\ IF file.exists
       THEN pc' = "header" /\ UNCHANGED job
       ELSE pc' = "failed" /\ UpdateJobProgress(0, "FAILED")
  /\ UNCHANGED <<file, pos, lines, batch, store>>

\* Mutant: the return after the failed header read is left out.
ReadHeaderNoReturn ==
  /\ pc = "header"
  /\ IF file.header
       THEN pc' = "loop" /\ UNCHANGED job
       ELSE pc' = "loop" /\ UpdateJobProgress(0, "FAILED")
  /\ UNCHANGED <<file, pos, lines, batch, store>>

\* cReader.Read() of the header: an empty object fails the job.
ReadHeader ==
  /\ pc = "header"
  /\ IF file.header
       THEN pc' = "loop" /\ UNCHANGED job
       ELSE pc' = "failed" /\ UpdateJobProgress(0, "FAILED")
  /\ UNCHANGED <<file, pos, lines, batch, store>>

NextRecord == file.recs[pos + 1]

\* A record the csv.Reader rejects is skipped without being counted.
ReadCsvError ==
  /\ pc = "loop"
  /\ pos < Len(file.recs)
  /\ NextRecord.kind = "csverr"
  /\ pos' = pos + 1
  /\ UNCHANGED <<file, pc, lines, batch, store, job>>

\* minio's Object.Read keeps its first error and returns it on every later
\* call, and bufio hands each one to the csv.Reader: the continue at
\* ingestion.go:84 reads the same error again for ever.  "spinning" is
\* that endless loop; nothing is counted, flushed or written.
ReadIoError ==
  /\ pc = "loop"
  /\ pos < Len(file.recs)
  /\ NextRecord.kind = "ioerr"
  /\ pc' = "spinning"
  /\ UNCHANGED <<file, pos, lines, batch, store, job>>

\* A record the parser rejects is counted; the log call that follows then
\* evaluates err.Error() on the nil err of cReader.Read (ingestion.go:90),
\* a nil dereference that panics in a goroutine nobody recovers: the
\* process dies with the job row as the last flush left it.
ReadParseError ==
  /\ pc = "loop"
  /\ pos < Len(file.recs)
  /\ NextRecord.kind = "parseerr"
  /\ pos' = pos + 1
  /\ lines' = lines + 1
  /\ pc' = "crashed"
  /\ UNCHANGED <<file, batch, store, job>>

\* Mutant: the batch is flushed only once it exceeds the batch size.
FullOffByOne(b) == Len(b) > BatchSize

\* len(batch) >= uc.batchSize
Full(b) == Len(b) >= BatchSize

\* A parsed row joins the batch; a batch that reaches BatchSize is
\* flushed and the progress written, or the flush fails and so does the
\* job.
ReadRow ==
  /\ pc = "loop"
  /\ pos < Len(file.recs)
  /\ NextRecord.kind = "row"
  /\ LET b == Append(batch, NextRecord.key) IN
       /\ pos' = pos + 1
       /\ lines' = lines + 1
       /\ \/ /\ ~Full(b)
             /\ batch' = b
             /\ UNCHANGED <<pc, store, job>>
          \/ /\ Full(b)
             /\ FlushOk(b)
             /\ batch' = <<>>
             /\ UpdateJobProgress(lines + 1, "IN_PROGRESS")
             /\ UNCHANGED pc
          \/ /\ Full(b)
             /\ FlushFail(b)
             /\ batch' = b
             /\ UpdateJobProgress(lines + 1, "FAILED")
             /\ pc' = "failed"
  /\ UNCHANGED file

\* Mutant: the partial batch left at the end of the file is not flushed.
EndOfFileNoTailFlush ==
  /\ pc = "loop"
  /\ pos = Len(file.recs)
  /\ UpdateJobProgress(lines, "COMPLETED")
  /\ pc' = "completed"
  /\ UNCHANGED <<file, pos, lines, batch, store>>

\* io.EOF: the partial batch is flushed and the job COMPLETED, or the
\* flush fails and so does the job.
EndOfFile ==
  /\ pc = "loop"
  /\ pos = Len(file.recs)
  /\ \/ /\ FlushOk(batch)
        /\ UpdateJobProgress(lines, "COMPLETED")
        /\ pc' = "completed"
     \/ /\ batch # <<>>
        /\ FlushFail(batch)
        /\ UpdateJobProgress(lines, "FAILED")
        /\ pc' = "failed"
  /\ UNCHANGED <<file, pos, lines, batch>>

Next ==
  \/ OpenObject \/ ReadHeader
  \/ ReadCsvError \/ ReadIoError \/ ReadParseError \/ ReadRow \/ EndOfFile

\* The goroutine running the job keeps being scheduled.
Spec == Init /\ [][Next]_vars /\ WF_vars(Next)

-----------------------------------------------------------------------------
(* Properties                                                              *)

FileKeys == {file.recs[i].key : i \in {j \in 1..Len(file.recs) :
                                         file.recs[j].kind = "row"}}

\* A job marked COMPLETED has every parsed row of its file in the store:
\* full batches were flushed on the way and the partial one at the end.
CompletedStoredAll ==
  job.status = "COMPLETED" => FileKeys \subseteq store

\* The job row as the abstract job lifecycle sees it.
JobRow == INSTANCE JobLifecycle
            WITH JobIds    <- {"job"},
                 jobStatus <- [j \in {"job"} |-> job.status],
                 jobLines  <- [j \in {"job"} |-> job.lines]

\* ingestCSVJob implements the job lifecycle: every UpdateJobProgress it
\* makes is on an IN_PROGRESS row, never lowers total_lines_processed, and
\* after one terminal write (FAILED on an error path, COMPLETED at EOF) the
\* row is never written again (spec 3: the terminal transition is one-shot
\* and the counter non-decreasing).
ImplementsJobLifecycle == JobRow!Spec

\* A record that fails, whether the csv.Reader or the parser rejects it,
\* is skipped, counted in lines-processed, and the job continues (spec 4.2
\* step 3; spec 7 ParseRecord; spec 8 "row with too few columns: skipped,
\* counted"): the job eventually leaves IN_PROGRESS, and a COMPLETED job's
\* total_lines_processed is the number of records after the header.
RecordFailuresSkippedCounted ==
  /\ <>(job.status # "IN_PROGRESS")
  /\ [](job.status = "COMPLETED" => job.lines = Len(file.recs))

=============================================================================
