----------------------------- MODULE BatchInsert -----------------------------
(***************************************************************************)
(* One batch flush of the ingestion use case: dataRepo.BatchInsertSystemTx *)
(* and BatchInsertBankStmts (internal/repository/data_repository.go) over  *)
(* the SQL store (internal/infrastructure/sqlstore/sqlstore.go) and its    *)
(* pgxpool connection pool.  Several ingestion goroutines flush at once    *)
(* (the system file and each bank file of a workflow run concurrently).    *)
(*                                                                         *)
(* A flush runs:                                                           *)
(*   ctx = BeginTx(ctx); defer RollbackTx(ctx)                             *)
(*   conn, deferFunc, err = GetConn(ctx); defer deferFunc()                *)
(*   conn.Prepare(name); defer conn.Deallocate(name)                       *)
(*   for each row: conn.Exec(name, row)      -- ON CONFLICT DO NOTHING     *)
(*   CommitTx(ctx)                                                         *)
(* and then its deferred calls in reverse order: Deallocate, deferFunc,    *)
(* RollbackTx.  BeginTx acquires a pool connection for the transaction;    *)
(* when Begin fails it stores a nil transaction, so GetConn acquires a     *)
(* separate pool connection on which every INSERT autocommits, and         *)
(* CommitTx fails ("non transaction mode").  Commit of a pgxpool           *)
(* transaction returns its connection to the pool, whatever the outcome.   *)
(* A row is a pair of its flush and its index; the rows of different      *)
(* flushes are distinct, so the table is the set of rows committed.        *)
(***************************************************************************)
EXTENDS Naturals, FiniteSets

CONSTANTS
  Inserters, \* goroutines each running one flush
  Kind,      \* the file type of each: "SYSTEM_TRX" or "BANK_STATEMENT"
  Conns,     \* the connections of the pool (pool_max_conns)
  NRows,     \* rows in each batch
  DbMayFail  \* Begin, Acquire, Prepare, Exec and Commit may fail

ASSUME /\ Kind \in [Inserters -> {"SYSTEM_TRX", "BANK_STATEMENT"}]
       /\ NRows \in Nat \ {0} /\ DbMayFail \in BOOLEAN

NoConn == "none"

\* The name of the prepared statement of a flush.
StmtName(g) == IF Kind[g] = "SYSTEM_TRX" THEN "insertSystemTx"
                                          ELSE "insertBankStmt"

BatchRows(g) == {g} \X (1..NRows)
Rows == UNION {BatchRows(g) : g \in Inserters}

VARIABLES
  pc,       \* where each flush is
  tx,       \* the pool connection of the flush's transaction (ctx value Tx)
  txOpen,   \* that transaction is neither committed nor rolled back
  cn,       \* the *pgx.Conn GetConn returned
  pooled,   \* the pool connection deferFunc releases
  next,     \* index of the next row to insert
  pend,     \* rows inserted in the open transaction
  table,    \* committed rows of the table
  holder,   \* the flush each pool connection is acquired by
  prepared, \* the statement names prepared on each connection
  ret       \* what the flush returned

vars == <<pc, tx, txOpen, cn, pooled, next, pend, table, holder, prepared,
          ret>>

Pcs == {"begin", "getconn", "prepare", "exec", "commit", "dealloc",
        "release", "rollback", "done"}

TypeOK ==
  /\ pc \in [Inserters -> Pcs]
  /\ tx \in [Inserters -> Conns \cup {NoConn}]
  /\ txOpen \in [Inserters -> BOOLEAN]
  /\ cn \in [Inserters -> Conns \cup {NoConn}]
  /\ pooled \in [Inserters -> Conns \cup {NoConn}]
  /\ next \in [Inserters -> 1..NRows]
  /\ pend \in [Inserters -> SUBSET Rows]
  /\ table \subseteq Rows
  /\ holder \in [Conns -> Inserters \cup {NoConn}]
  /\ prepared \in [Conns -> SUBSET {"insertSystemTx", "insertBankStmt"}]
  /\ ret \in [Inserters -> {"none", "ok", "err"}]

Init ==
  /\ pc = [g \in Inserters |-> "begin"]
  /\ tx = [g \in Inserters |-> NoConn]
  /\ txOpen = [g \in Inserters |-> FALSE]
  /\ cn = [g \in Inserters |-> NoConn]
  /\ pooled = [g \in Inserters |-> NoConn]
  /\ next = [g \in Inserters |-> 1]
  /\ pend = [g \in Inserters |-> {}]
  /\ table = {}
  /\ holder = [c \in Conns |-> NoConn]
  /\ prepared = [c \in Conns |-> {}]
  /\ ret = [g \in Inserters |-> "none"]

FreeConns == {c \in Conns : holder[c] = NoConn}

Goto(g, l) == pc' = [pc EXCEPT ![g] = l]

-----------------------------------------------------------------------------

\* BeginTx: Master.Begin acquires a pool connection (waiting while none is
\* free) and sends BEGIN.  On an error the connection goes back to the
\* pool and a nil transaction is stored in the context.
BeginTx(g) ==
  /\ pc[g] = "begin"
  /\ FreeConns # {}
  /\ \/ \E c \in FreeConns :
          /\ holder' = [holder EXCEPT ![c] = g]
          /\ tx' = [tx EXCEPT ![g] = c]
          /\ txOpen' = [txOpen EXCEPT ![g] = TRUE]
     \/ DbMayFail /\ UNCHANGED <<holder, tx, txOpen>>
  /\ Goto(g, "getconn")
  /\ UNCHANGED <<cn, pooled, next, pend, table, prepared, ret>>

\* Mutant: getDBConn ignores the transaction in the context and always
\* acquires a pool connection.
GetConnIgnoringTx(g) ==
  /\ pc[g] = "getconn"
  /\ \/ /\ \E c \in FreeConns :
             /\ holder' = [holder EXCEPT ![c] = g]
             /\ cn' = [cn EXCEPT ![g] = c]
             /\ pooled' = [pooled EXCEPT ![g] = c]
        /\ Goto(g, "prepare")
        /\ UNCHANGED ret
     \/ /\ DbMayFail
        /\ ret' = [ret EXCEPT ![g] = "err"]
        /\ Goto(g, "rollback")
        /\ UNCHANGED <<cn, pooled, holder>>
  /\ UNCHANGED <<tx, txOpen, next, pend, table, prepared>>

\* GetConn: the transaction's connection when the context holds one;
\* otherwise a connection acquired from the pool, which deferFunc
\* releases.  A failed Acquire returns the error to the deferred RollbackTx.
GetConn(g) ==
  /\ pc[g] = "getconn"
  /\ \/ /\ tx[g] # NoConn
        /\ cn' = [cn EXCEPT ![g] = tx[g]]
        /\ Goto(g, "prepare")
        /\ UNCHANGED <<pooled, holder, ret>>
     \/ /\ tx[g] = NoConn
        /\ \E c \in FreeConns :
             /\ holder' = [holder EXCEPT ![c] = g]
             /\ cn' = [cn EXCEPT ![g] = c]
             /\ pooled' = [pooled EXCEPT ![g] = c]
        /\ Goto(g, "prepare")
        /\ UNCHANGED ret
     \/ /\ tx[g] = NoConn /\ DbMayFail
        /\ ret' = [ret EXCEPT ![g] = "err"]
        /\ Goto(g, "rollback")
        /\ UNCHANGED <<cn, pooled, holder>>
  /\ UNCHANGED <<tx, txOpen, next, pend, table, prepared>>

\* conn.Prepare: the statement is prepared on the connection (pgx returns
\* the one already there under the same name).  An error returns through
\* deferFunc and RollbackTx.
Prepare(g) ==
  /\ pc[g] = "prepare"
  /\ \/ /\ prepared' = [prepared EXCEPT ![cn[g]] = @ \cup {StmtName(g)}]
        /\ Goto(g, "exec")
        /\ UNCHANGED ret
     \/ /\ DbMayFail
        /\ ret' = [ret EXCEPT ![g] = "err"]
        /\ Goto(g, "release")
        /\ UNCHANGED prepared
  /\ UNCHANGED <<tx, txOpen, cn, pooled, next, pend, table, holder>>

\* The row a flush inserts next.
NextRow(g) == <<g, next[g]>>

\* Mutant: the row loop runs once past the last row.
ExecOffByOne(g) ==
  /\ pc[g] = "exec"
  /\ StmtName(g) \in prepared[cn[g]]
  /\ pend' = [pend EXCEPT ![g] = @ \cup {NextRow(g)}]
  /\ next' = [next EXCEPT ![g] = @ + 1]
  /\ IF next[g] = NRows + 1 THEN Goto(g, "commit") ELSE UNCHANGED pc
  /\ UNCHANGED <<tx, txOpen, cn, pooled, table, holder, prepared, ret>>

\* conn.Exec of the prepared statement for the next row: on the
\* transaction's connection it is pending, on any other it autocommits.  It fails on a
\* database error, and when the statement is no longer prepared on the
\* connection (pgx then sends the name as SQL text).
Exec(g) ==
  /\ pc[g] = "exec"
  /\ \/ /\ StmtName(g) \in prepared[cn[g]]
        /\ IF cn[g] = tx[g]
             THEN pend' = [pend EXCEPT ![g] = @ \cup {NextRow(g)}]
                  /\ UNCHANGED table
             ELSE table' = table \cup {NextRow(g)} /\ UNCHANGED pend
        /\ IF next[g] = NRows
             THEN Goto(g, "commit") /\ UNCHANGED next
             ELSE next' = [next EXCEPT ![g] = @ + 1] /\ UNCHANGED pc
        /\ UNCHANGED ret
     \/ /\ DbMayFail \/ StmtName(g) \notin prepared[cn[g]]
        /\ ret' = [ret EXCEPT ![g] = "err"]
        /\ Goto(g, "dealloc")
        /\ UNCHANGED <<next, pend, table>>
  /\ UNCHANGED <<tx, txOpen, cn, pooled, holder, prepared>>

\* CommitTx: without a transaction it returns "failed to commit on non
\* transaction mode"; otherwise tx.Commit makes the pending rows durable
\* (or fails and discards them) and returns the connection to the pool.
CommitTx(g) ==
  /\ pc[g] = "commit"
  /\ \/ /\ tx[g] = NoConn
        /\ ret' = [ret EXCEPT ![g] = "err"]
        /\ UNCHANGED <<txOpen, pend, table, holder>>
     \/ /\ tx[g] # NoConn
        /\ \E ok \in IF DbMayFail THEN BOOLEAN ELSE {TRUE} :
             /\ table' = IF ok THEN table \cup pend[g] ELSE table
             /\ ret' = [ret EXCEPT ![g] = IF ok THEN "ok" ELSE "err"]
        /\ pend' = [pend EXCEPT ![g] = {}]
        /\ txOpen' = [txOpen EXCEPT ![g] = FALSE]
        /\ holder' = [holder EXCEPT ![tx[g]] = NoConn]
  /\ Goto(g, "dealloc")
  /\ UNCHANGED <<tx, cn, pooled, next, prepared>>

\* The deferred conn.Deallocate(name) on the connection GetConn returned,
\* whoever holds it now.  Its error is ignored.
Deallocate(g) ==
  /\ pc[g] = "dealloc"
  /\ prepared' = [prepared EXCEPT ![cn[g]] = @ \ {StmtName(g)}]
  /\ Goto(g, "release")
  /\ UNCHANGED <<tx, txOpen, cn, pooled, next, pend, table, holder, ret>>

\* The deferred deferFunc: a connection acquired by GetConn is released.
Release(g) ==
  /\ pc[g] = "release"
  /\ holder' = IF pooled[g] # NoConn THEN [holder EXCEPT ![pooled[g]] = NoConn]
                                     ELSE holder
  /\ Goto(g, "rollback")
  /\ UNCHANGED <<tx, txOpen, cn, pooled, next, pend, table, prepared, ret>>

RollbackTx(g) ==
  /\ pc[g] = "rollback"
  /\ IF tx[g] # NoConn /\ txOpen[g]
       THEN /\ holder' = [holder EXCEPT ![tx[g]] = NoConn]
            /\ txOpen' = [txOpen EXCEPT ![g] = FALSE]
            /\ pend' = [pend EXCEPT ![g] = {}]
       ELSE UNCHANGED <<holder, txOpen, pend>>
  /\ Goto(g, "done")
  /\ UNCHANGED <<tx, cn, pooled, next, table, prepared, ret>>

Step(g) ==
  \/ BeginTx(g) \/ GetConn(g) \/ Prepare(g) \/ Exec(g) \/ CommitTx(g)
  \/ Deallocate(g) \/ Release(g) \/ RollbackTx(g)

Next == \E g \in Inserters : Step(g)

\* Every flush goroutine keeps being scheduled.
Spec == Init /\ [][Next]_vars /\ \A g \in Inserters : WF_vars(Step(g))

-----------------------------------------------------------------------------
(* Properties                                                              *)

\* A flush that ran in a transaction is all or nothing: none of its rows is
\* in the table until CommitTx returns nil, and all of them are after (spec
\* 4.2 step 4: a batch is inserted under a single transaction).  It takes
\* GetConn handing out the transaction's own connection and the deferred
\* RollbackTx discarding a failed one.
BatchAtomic ==
  \A g \in Inserters :
    /\ ret[g] = "ok" => BatchRows(g) \subseteq table
    /\ tx[g] # NoConn /\ ret[g] # "ok" => BatchRows(g) \cap table = {}

\* No pool connection is used by two flushes at once: a flush runs its
\* statements (Prepare, Exec, Commit, the deferred Deallocate) only on a
\* connection no other flush has acquired (a *pgx.Conn is not safe for
\* concurrent use; spec 5: each batch flush uses one connection for the
\* duration of the transaction).
OnConn == {"prepare", "exec", "commit", "dealloc"}

ConnExclusive ==
  \A g, h \in Inserters :
    g # h /\ pc[g] \in OnConn /\ pc[h] \in OnConn => cn[g] # cn[h]

=============================================================================
