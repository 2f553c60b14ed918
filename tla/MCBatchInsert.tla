---------------------------- MODULE MCBatchInsert ----------------------------
(* Two system-file flushes and one bank-file flush of two rows each over a *)
(* pool of two connections: a flush waits for a connection, a connection   *)
(* goes from one flush to the next, and a statement name meets a           *)
(* connection on which the same name, or the other one, is prepared.      *)
EXTENDS BatchInsert, TLC

CONSTANTS s1, s2, b1, c1, c2

MCInserters == {s1, s2, b1}
MCKind      == (s1 :> "SYSTEM_TRX") @@ (s2 :> "SYSTEM_TRX")
                 @@ (b1 :> "BANK_STATEMENT")
MCConns     == {c1, c2}
=============================================================================
