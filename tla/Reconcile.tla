------------------------------ MODULE Reconcile -----------------------------
(***************************************************************************)
(* The matching pass of internal/usecase/reconcile/reconcile.go            *)
(* (matchRecords, calculateMatchScore, calculateDiscrepancy, formatAmount) *)
(* as pure operators over the two input lists.                             *)
(*                                                                         *)
(* Amounts are float64 values parsed from CSV fields with two fractional   *)
(* digits.  Such a value round-trips through "%.2f" exactly, so an amount  *)
(* is represented by what "%.2f" prints: a sign and a number of cents.     *)
(* The sign is kept apart from the cents because Go prints the negative    *)
(* zero produced by -tx.Amount for a zero DEBIT as "-0.00".                *)
(* Identifiers are strings, represented as sequences of letters, so that   *)
(* strings.Contains is the subsequence-of-consecutive-letters relation.    *)
(* Dates are days; the "20060102" formatting of a time is its day.         *)
(***************************************************************************)
EXTENDS Integers, Sequences, SequencesExt

\* MinMatchScore (reconcile.go:14)
MinMatchScore == 2

\* A float64 amount as "%.2f" prints it.
Amount(neg, cents) == [neg |-> neg, cents |-> cents]

\* Its numeric value in cents (-0 and +0 are both 0).
Value(a) == IF a.neg THEN -a.cents ELSE a.cents

\* Go's unary minus on a float64 flips the sign bit, zero included.
Negate(a) == [a EXCEPT !.neg = ~a.neg]

\* formatAmount(amount) == fmt.Sprintf("%.2f", amount): the sign is printed
\* for every value whose sign bit is set, "-0.00" included.
FormatAmount(a) == <<IF a.neg THEN "-" ELSE "", a.cents>>

\* strings.Contains(s, sub)
StrContains(s, sub) == sub \in SubSeqs(s)

\* The signed amount the bank side should show (reconcile.go:129-132).
ExpectedAmount(tx) ==
  IF tx.type = "DEBIT" THEN Negate(tx.amount) ELSE tx.amount

\* The bucket key date_amount of a statement and of a transaction.
StmtKey(stmt) == <<stmt.day, FormatAmount(stmt.amount)>>
TxKey(tx)     == <<tx.day, FormatAmount(ExpectedAmount(tx))>>

\* calculateMatchScore: one point per agreeing date, "%.2f" of the raw
\* amounts (the transaction's unsigned one against the statement's signed
\* one), and identifiers one containing the other.
Score(tx, stmt) ==
  LET Pt(c) == IF c THEN 1 ELSE 0 IN
    Pt(tx.day = stmt.day)
  + Pt(FormatAmount(tx.amount) = FormatAmount(stmt.amount))
  + Pt(StrContains(stmt.id, tx.id) \/ StrContains(tx.id, stmt.id))

\* calculateDiscrepancy(tx.Amount, stmt.Amount) == |tx - stmt|
Discrepancy(tx, stmt) ==
  LET d == Value(tx.amount) - Value(stmt.amount) IN IF d < 0 THEN -d ELSE d

\* bankMap after the first loop: for each key, the indices of the
\* statements with that key in input order.  A key that is absent from
\* the Go map is a key mapped to <<>> here: the code deletes a key as soon
\* as its slice becomes empty, so "exists" and "non-empty" coincide.
Buckets(B) ==
  [k \in {StmtKey(B[i]) : i \in 1..Len(B)} |->
     SelectSeq([i \in 1..Len(B) |-> i], LAMBDA i : StmtKey(B[i]) = k)]

Bucket(st, k) == IF k \in DOMAIN st.bucket THEN st.bucket[k] ELSE <<>>

\* Mutant: bankMap[txKey] = stmts is left out.  The append shifts the
\* shared array in place but the map keeps the old length, so the matched
\* statement disappears and the last one appears twice.
MatchOneNoReassign(S, B, i, st) ==
  LET tx    == S[i]
      k     == TxKey(tx)
      cands == Bucket(st, k)
      ok    == {p \in 1..Len(cands) : Score(tx, B[cands[p]]) >= MinMatchScore}
      p     == CHOOSE q \in ok : \A r \in ok : q <= r
      stmt  == cands[p]
      disc  == Discrepancy(tx, B[stmt])
  IN CASE cands = <<>> ->
            [st EXCEPT !.unmatchedSys = Append(@, i)]
       [] ok = {} ->
            st
       [] OTHER ->
            [st EXCEPT !.matched = Append(@, [tx |-> i, stmt |-> stmt,
                                                disc |-> disc]),
                       !.total   = @ + disc,
                       !.bucket  = [@ EXCEPT ![k] = RemoveAt(cands, p)
                                                    \o <<cands[Len(cands)]>>]]

\* One iteration of the loop over systemTx for transaction i.
\*  - no bucket: the transaction is unmatched;
\*  - bucket: the first statement scoring >= MinMatchScore is matched,
\*    its discrepancy added and the statement removed from the bucket;
\*    when none scores enough, the transaction is recorded nowhere.
MatchOne(S, B, i, st) ==
  LET tx    == S[i]
      k     == TxKey(tx)
      cands == Bucket(st, k)
      ok    == {p \in 1..Len(cands) : Score(tx, B[cands[p]]) >= MinMatchScore}
      p     == CHOOSE q \in ok : \A r \in ok : q <= r
      stmt  == cands[p]
      disc  == Discrepancy(tx, B[stmt])
  IN CASE cands = <<>> ->
            [st EXCEPT !.unmatchedSys = Append(@, i)]
       [] ok = {} ->
            st
       [] OTHER ->
            [st EXCEPT !.matched = Append(@, [tx |-> i, stmt |-> stmt,
                                                disc |-> disc]),
                       !.total   = @ + disc,
                       !.bucket  = [@ EXCEPT ![k] = RemoveAt(cands, p)]]

RECURSIVE MatchFrom(_, _, _, _)
MatchFrom(S, B, i, st) ==
  IF i > Len(S) THEN st ELSE MatchFrom(S, B, i + 1, MatchOne(S, B, i, st))

\* matchRecords(jobID, systemTx, bankStmts): matched records, unmatched
\* transaction indices, the set of unmatched statement indices (collected
\* by ranging over a Go map, so in no defined order) and the total.
MatchRecords(S, B) ==
  LET st == MatchFrom(S, B, 1, [bucket |-> Buckets(B), matched |-> <<>>,
                                unmatchedSys |-> <<>>, total |-> 0])
  IN [matched      |-> st.matched,
      unmatchedSys |-> st.unmatchedSys,
      unmatchedBank|-> UNION {Range(st.bucket[k]) : k \in DOMAIN st.bucket},
      total        |-> st.total]

=============================================================================
