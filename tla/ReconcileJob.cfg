CONSTANTS
  Days = {1}
  Cents = {1}
  Ids <- IdsEmptyAB
  Types = {"DEBIT", "CREDIT"}
  MaxS = 2
  MaxB = 2
  TxLists <- MCTxLists
  StmtLists <- MCStmtLists
SPECIFICATION Spec
INVARIANT TypeOK
INVARIANT BankAccounted
INVARIANT ResultMatchesRows
CHECK_DEADLOCK FALSE
