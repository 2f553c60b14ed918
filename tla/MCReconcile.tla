---------------------------- MODULE MCReconcile -----------------------------
(***************************************************************************)
(* Checks the matching pass of Reconcile over every pair of input lists    *)
(* up to a bound.  The lists are those FindSystemTxByDateRange and         *)
(* FindBankStmtsByDateRange return: ordered by time, rows of equal time in *)
(* whatever order the database yields.                                     *)
(***************************************************************************)
EXTENDS ReconcileInputs, Functions, FiniteSets

VARIABLES S, B
vars == <<S, B>>

Init ==
  /\ S \in SortedTxLists
  /\ B \in SortedStmtLists

\* The inputs do not change; every initial state is one call.
Next == UNCHANGED vars

Spec == Init /\ [][Next]_vars

Result == MatchRecords(S, B)

\* Every system transaction ends up in exactly one matched record or in the
\* unmatched-system list (spec 8: matched + unmatchedSystem = |S|).
SystemAccounted ==
  Len(Result.matched) + Len(Result.unmatchedSys) = Len(S)

\* The inputs pair up one to one into a transaction and a statement with
\* the same identifier, the same day and the signed amount the
\* transaction's type calls for.
PerfectlyPaired ==
  /\ Len(S) = Len(B)
  /\ \E f \in Bijection(1..Len(S), 1..Len(B)) :
       \A i \in 1..Len(S) :
         /\ S[i].id = B[f[i]].id
         /\ S[i].day = B[f[i]].day
         /\ Value(ExpectedAmount(S[i])) = Value(B[f[i]].amount)

\* Inputs that pair up perfectly are all matched (spec 8 scenarios 1-2:
\* a statement carrying the transaction's id, date and signed amount
\* matches it).
PerfectPairsMatched ==
  PerfectlyPaired => Len(Result.matched) = Len(S)

=============================================================================
