--------------------------- MODULE ReconcileInputs ---------------------------
(***************************************************************************)
(* Bounded inputs of the matching pass, shared by MCReconcile and          *)
(* MCReconcileJob: the lists FindSystemTxByDateRange and                   *)
(* FindBankStmtsByDateRange return, ordered by time, rows of equal time in *)
(* whatever order the database yields.                                     *)
(***************************************************************************)
EXTENDS Reconcile

CONSTANTS
  Days,    \* statement dates / transaction days
  Cents,   \* amount magnitudes, in cents
  Ids,     \* trxID / uniqueID strings, as letter sequences
  Types,   \* trx_type values
  MaxS,    \* most system transactions in the window
  MaxB     \* most bank statements in the window

ASSUME MaxS \in Nat /\ MaxB \in Nat

\* Identifier sets for the .cfg files: the empty string, which every
\* string contains, and two unrelated ones.
IdsEmptyAB  == {<<>>, <<"a">>, <<"b">>}

TxValues   == [id : Ids, amount : {Amount(n, c) : n \in BOOLEAN, c \in Cents},
               type : Types, day : Days]
StmtValues == [id : Ids, amount : {Amount(n, c) : n \in BOOLEAN, c \in Cents},
               day : Days]

\* ORDER BY transaction_time / statement_time ASC.
DaySorted(s) == \A i \in 1..Len(s) - 1 : s[i].day <= s[i + 1].day

SortedTxLists   == {s \in BoundedSeq(TxValues, MaxS) : DaySorted(s)}
SortedStmtLists == {s \in BoundedSeq(StmtValues, MaxB) : DaySorted(s)}
=============================================================================
