----------------------------- MODULE ReconcileJob ---------------------------
(***************************************************************************)
(* One call of ProcessReconciliation (internal/usecase/reconcile/          *)
(* reconcile.go) with the rows it writes through reconciliationRepo        *)
(* (internal/repository/reconciliation_repository.go), and the read-side   *)
(* GetReconciliationSummary over those rows.                               *)
(*                                                                         *)
(* The window queries return the lists S and B; the matching pass is the   *)
(* MatchRecords operator of Reconcile.  Rows are counted per table: the    *)
(* properties are about how many rows of each kind exist for the job, not  *)
(* about their columns.  No step runs inside a database transaction: every *)
(* INSERT commits on its own pooled connection.  Every repository call may *)
(* fail (GetConn, the INSERT, the scan of RETURNING id).                   *)
(***************************************************************************)
EXTENDS Reconcile, FiniteSets

CONSTANTS
  TxLists,    \* what FindSystemTxByDateRange may return
  StmtLists   \* what FindBankStmtsByDateRange may return

VARIABLES
  pc,          \* where ProcessReconciliation is
  S, B,        \* systemTx and bankStmts as read
  jobRow,      \* the reconciliation_jobs row exists
  matchedRows, \* reconciliation_matched_records rows of the job
  usRows,      \* reconciliation_unmatched_system_tx rows of the job
  ubRows,      \* reconciliation_unmatched_bank_tx rows of the job
  result,      \* the reconciliation_results row, or NoResult
  returned     \* what the call returned: "none" yet, "error" or "ok"

vars == <<pc, S, B, jobRow, matchedRows, usRows, ubRows, result, returned>>

NoResult == [none |-> TRUE]

\* The counts of the ReconciliationResult built at reconcile.go:98-106.
Counts == [sys : Nat, bank : Nat, matched : Nat, unmatchedSys : Nat,
           unmatchedBank : Nat, total : Nat]

\* The output of matchRecords for the lists read.
R == MatchRecords(S, B)

\* The result row the code builds from the lists and the matching output.
ResultOf ==
  [sys |-> Len(S), bank |-> Len(B), matched |-> Len(R.matched),
   unmatchedSys |-> Len(R.unmatchedSys),
   unmatchedBank |-> Cardinality(R.unmatchedBank), total |-> R.total]

TypeOK ==
  /\ pc \in {"create", "find", "matched", "unmatchedSys", "unmatchedBank",
             "result", "done", "failed"}
  /\ S \in TxLists \cup {<<>>} /\ B \in StmtLists \cup {<<>>}
  /\ jobRow \in BOOLEAN
  /\ matchedRows \in 0..Len(R.matched)
  /\ usRows \in 0..Len(R.unmatchedSys)
  /\ ubRows \in 0..Cardinality(R.unmatchedBank)
  /\ result \in Counts \cup {NoResult}
  /\ returned \in {"none", "error", "ok"}

Init ==
  /\ pc = "create"
  /\ S = <<>> /\ B = <<>>
  /\ jobRow = FALSE
  /\ matchedRows = 0 /\ usRows = 0 /\ ubRows = 0
  /\ result = NoResult
  /\ returned = "none"

\* Any repository call failing makes the call return the error at once.
Fail ==
  /\ pc \in {"create", "find", "matched", "result"}
  /\ pc' = "failed"
  /\ returned' = "error"
  /\ UNCHANGED <<S, B, jobRow, matchedRows, usRows, ubRows, result>>

\* recRepo.CreateJob inserts the reconciliation_jobs row.
CreateJob ==
  /\ pc = "create"
  /\ jobRow' = TRUE
  /\ pc' = "find"
  /\ UNCHANGED <<S, B, matchedRows, usRows, ubRows, result, returned>>

\* FindSystemTxByDateRange and FindBankStmtsByDateRange read the window
\* (their failure is Fail); matchRecords then runs in memory.
FindWindow ==
  /\ pc = "find"
  /\ S' \in TxLists /\ B' \in StmtLists
  /\ pc' = "matched"
  /\ UNCHANGED <<jobRow, matchedRows, usRows, ubRows, result, returned>>

\* Mutant: the loop runs one record past the end of matchedRecords.
StoreMatchedRecordOffByOne ==
  /\ pc = "matched"
  /\ IF matchedRows <= Len(R.matched)
       THEN matchedRows' = matchedRows + 1 /\ UNCHANGED pc
       ELSE pc' = "unmatchedSys" /\ UNCHANGED matchedRows
  /\ UNCHANGED <<S, B, jobRow, usRows, ubRows, result, returned>>

\* One StoreMatchedRecord of the loop, or the loop ends.
StoreMatchedRecord ==
  /\ pc = "matched"
  /\ IF matchedRows < Len(R.matched)
       THEN matchedRows' = matchedRows + 1 /\ UNCHANGED pc
       ELSE pc' = "unmatchedSys" /\ UNCHANGED matchedRows
  /\ UNCHANGED <<S, B, jobRow, usRows, ubRows, result, returned>>

\* Mutant: an INSERT error inside the loop of StoreUnmatchedSystemTx is
\* dropped, so the call reports success after a prefix of the rows.
StoreUnmatchedSystemTxSwallow ==
  /\ pc = "unmatchedSys"
  /\ usRows' \in 0..Len(R.unmatchedSys)
  /\ pc' = "unmatchedBank"
  /\ UNCHANGED <<S, B, jobRow, matchedRows, ubRows, result, returned>>

\* StoreUnmatchedSystemTx inserts the rows one by one and returns at the
\* first error: when it fails, any prefix of the rows is already stored.
StoreUnmatchedSystemTx ==
  /\ pc = "unmatchedSys"
  /\ \/ /\ usRows' = Len(R.unmatchedSys)
        /\ pc' = "unmatchedBank"
        /\ UNCHANGED returned
     \/ /\ usRows' \in 0..Len(R.unmatchedSys)
        /\ pc' = "failed"
        /\ returned' = "error"
  /\ UNCHANGED <<S, B, jobRow, matchedRows, ubRows, result>>

\* StoreUnmatchedBankTx, the same loop over the unmatched statements.
StoreUnmatchedBankTx ==
  /\ pc = "unmatchedBank"
  /\ \/ /\ ubRows' = Cardinality(R.unmatchedBank)
        /\ pc' = "result"
        /\ UNCHANGED returned
     \/ /\ ubRows' \in 0..Cardinality(R.unmatchedBank)
        /\ pc' = "failed"
        /\ returned' = "error"
  /\ UNCHANGED <<S, B, jobRow, matchedRows, usRows, result>>

\* StoreResult inserts the summary row and the call returns it.
StoreResult ==
  /\ pc = "result"
  /\ result' = ResultOf
  /\ returned' = "ok"
  /\ pc' = "done"
  /\ UNCHANGED <<S, B, jobRow, matchedRows, usRows, ubRows>>

Next ==
  \/ Fail \/ CreateJob \/ FindWindow \/ StoreMatchedRecord
  \/ StoreUnmatchedSystemTx \/ StoreUnmatchedBankTx \/ StoreResult

Spec == Init /\ [][Next]_vars /\ WF_vars(Next)

\* The read queries of the repository, by job id: the reconciliation_results
\* row (absent until StoreResult) and the detail rows as counts.
GetReconciliationResult         == result
GetUnmatchedSystemTx            == usRows
GetUnmatchedBankTxGroupedByBank == ubRows

\* GetReconciliationSummary(jobID): the counts of the result row next to
\* the unmatched rows read back for the job.  Defined only once the result
\* row exists; before that GetReconciliationResult fails.
Summary ==
  [processed      |-> GetReconciliationResult.sys,
   matched        |-> GetReconciliationResult.matched,
   unmatched      |-> GetReconciliationResult.unmatchedSys,
   unmatchedSysTx |-> GetUnmatchedSystemTx,
   unmatchedByBank|-> GetUnmatchedBankTxGroupedByBank,
   discrepancies  |-> GetReconciliationResult.total]

-----------------------------------------------------------------------------
(* Properties                                                              *)

\* The statements of the matched records.
MatchedStmts == {R.matched[i].stmt : i \in 1..Len(R.matched)}

\* Every bank statement read ends up in exactly one matched record or in
\* the unmatched-bank list: matchRecords removes a statement from its
\* bucket when it is matched and collects what is left (spec 8: matched +
\* unmatchedBank = |B|).
BankAccounted ==
  /\ Cardinality(MatchedStmts) = Len(R.matched)
  /\ MatchedStmts \cap R.unmatchedBank = {}
  /\ MatchedStmts \cup R.unmatchedBank = 1..Len(B)

\* A reconciliation_results row, the one GetReconciliationSummary reads,
\* agrees with the detail rows stored for its job: its matched and
\* unmatched counts are the numbers of rows in the three tables, and its
\* row exists only for a created job (spec 4.4.4: "counts in the summary
\* must equal list lengths exactly").
ResultMatchesRows ==
  result # NoResult =>
    /\ jobRow
    /\ Summary.matched = matchedRows
    /\ Summary.unmatched = Summary.unmatchedSysTx
    /\ GetReconciliationResult.unmatchedBank = Summary.unmatchedByBank

=============================================================================
