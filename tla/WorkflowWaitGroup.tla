--------------------------- MODULE WorkflowWaitGroup -------------------------
(***************************************************************************)
(* Concurrent StartWorkflow calls on the one workflowUseCase that          *)
(* SetupRoute builds (internal/presenter/console/server.go:77): every HTTP *)
(* request shares uc.wg (internal/usecase/workflow/workflow.go:30).        *)
(*                                                                         *)
(* A request calls uc.wg.Add(1) before spawning each ingestion goroutine   *)
(* (workflow.go:92, 119), may fail between files and return without        *)
(* waiting, and otherwise calls uc.wg.Wait() (workflow.go:127).  Each      *)
(* goroutine ends with the deferred uc.wg.Done() (workflow.go:94, 121);    *)
(* what it does before (ingestion, the callback under uc.mu) is left out:  *)
(* Workflow.tla models it for one request.                                 *)
(*                                                                         *)
(* The WaitGroup is modelled as sync.WaitGroup implements it: one atomic   *)
(* state word holding the counter v and the number of waiters w, and a     *)
(* semaphore.  Add(delta) adds to v atomically; when it brings v to 0 with *)
(* waiters it re-reads the state, stores 0 and releases the waiters, each  *)
(* of which re-reads the state on waking.  The runtime panics when those   *)
(* re-reads see a change ("WaitGroup misuse: Add called concurrently with  *)
(* Wait", "WaitGroup is reused before previous Wait has returned"), and    *)
(* when an Add from zero finds waiters.                                    *)
(***************************************************************************)
EXTENDS Naturals, FiniteSets

CONSTANTS
  Reqs,    \* concurrent StartWorkflow calls
  NFiles   \* ingestion goroutines of a request: the system file and banks

ASSUME NFiles \in Nat \ {0}

Gors == Reqs \X (1..NFiles)

VARIABLES
  v,      \* WaitGroup counter (high half of uc.wg.state)
  w,      \* WaitGroup waiter count (low half of uc.wg.state)
  sema,   \* uc.wg.sema: releases not yet acquired
  req,    \* where each StartWorkflow call is
  added,  \* goroutines each request has spawned
  gor,    \* where each ingestion goroutine is
  seen    \* the state word a goroutine's Done read when it set v to 0

vars == <<v, w, sema, req, added, gor, seen>>

TypeOK ==
  /\ v \in Nat /\ w \in Nat /\ sema \in Nat
  /\ req \in [Reqs -> {"setup", "wait", "blocked", "woken", "returned",
                        "error", "panicked"}]
  /\ added \in [Reqs -> 0..NFiles]
  /\ gor \in [Gors -> {"none", "run", "reset", "done", "panicked"}]
  /\ seen \in [Gors -> Nat \X Nat]

Init ==
  /\ v = 0 /\ w = 0 /\ sema = 0
  /\ req = [r \in Reqs |-> "setup"]
  /\ added = [r \in Reqs |-> 0]
  /\ gor = [g \in Gors |-> "none"]
  /\ seen = [g \in Gors |-> <<0, 0>>]

-----------------------------------------------------------------------------
(* StartWorkflow                                                           *)

\* uc.wg.Add(1) and the go statement for the next file.  The add is atomic;
\* an add that takes the counter from 0 while waiters are registered
\* panics, which the request's RecoveryHandler turns into a 500 response:
\* the counter keeps the 1 and no goroutine is spawned.
Add(r) ==
  /\ req[r] = "setup" /\ added[r] < NFiles
  /\ v' = v + 1
  /\ IF w # 0 /\ v + 1 = 1
       THEN /\ req' = [req EXCEPT ![r] = "panicked"]
            /\ UNCHANGED <<added, gor>>
       ELSE /\ added' = [added EXCEPT ![r] = @ + 1]
            /\ gor' = [gor EXCEPT ![<<r, added[r] + 1>>] = "run"]
            /\ req' = [req EXCEPT ![r] = IF added[r] + 1 = NFiles THEN "wait"
                                                                 ELSE "setup"]
  /\ UNCHANGED <<w, sema, seen>>

\* FetchFileMetadata or CreateIngestionJob of a file fails: StartWorkflow
\* returns the error without waiting for the goroutines it spawned.
SetupFail(r) ==
  /\ req[r] = "setup"
  /\ req' = [req EXCEPT ![r] = "error"]
  /\ UNCHANGED <<v, w, sema, added, gor, seen>>

\* uc.wg.Wait(): a zero counter returns at once; otherwise the call
\* registers as a waiter (the compare-and-swap of the state word) and
\* blocks on the semaphore.
WaitLoad(r) ==
  /\ req[r] = "wait"
  /\ IF v = 0
       THEN req' = [req EXCEPT ![r] = "returned"] /\ UNCHANGED w
       ELSE req' = [req EXCEPT ![r] = "blocked"] /\ w' = w + 1
  /\ UNCHANGED <<v, sema, added, gor, seen>>

\* runtime_Semacquire returns.
WaitAcquire(r) ==
  /\ req[r] = "blocked" /\ sema > 0
  /\ sema' = sema - 1
  /\ req' = [req EXCEPT ![r] = "woken"]
  /\ UNCHANGED <<v, w, added, gor, seen>>

\* The woken waiter re-reads the state word: anything but 0 panics.
WaitCheck(r) ==
  /\ req[r] = "woken"
  /\ req' = [req EXCEPT ![r] = IF v = 0 /\ w = 0 THEN "returned"
                                                 ELSE "panicked"]
  /\ UNCHANGED <<v, w, sema, added, gor, seen>>

-----------------------------------------------------------------------------
(* The deferred uc.wg.Done() of each ingestion goroutine                   *)

\* Add(-1): a counter left above 0, or no waiters, returns; a counter set
\* to 0 with waiters goes on to wake them, remembering the state it made.
Done(g) ==
  /\ gor[g] = "run"
  /\ v' = v - 1
  /\ IF v - 1 > 0 \/ w = 0
       THEN gor' = [gor EXCEPT ![g] = "done"] /\ UNCHANGED seen
       ELSE /\ gor' = [gor EXCEPT ![g] = "reset"]
            /\ seen' = [seen EXCEPT ![g] = <<v - 1, w>>]
  /\ UNCHANGED <<w, sema, req, added>>

\* The state word is re-read: if it changed the goroutine panics, and as
\* nothing recovers in it the process dies; otherwise the word is set to 0
\* and one semaphore release is made per waiter.
DoneReset(g) ==
  /\ gor[g] = "reset"
  /\ IF <<v, w>> = seen[g]
       THEN /\ v' = 0 /\ w' = 0 /\ sema' = sema + w
            /\ gor' = [gor EXCEPT ![g] = "done"]
       ELSE /\ gor' = [gor EXCEPT ![g] = "panicked"]
            /\ UNCHANGED <<v, w, sema>>
  /\ UNCHANGED <<req, added, seen>>

Next ==
  \/ \E r \in Reqs : Add(r) \/ SetupFail(r) \/ WaitLoad(r) \/ WaitAcquire(r)
                     \/ WaitCheck(r)
  \/ \E g \in Gors : Done(g) \/ DoneReset(g)

\* Every runnable goroutine is eventually scheduled.
Spec == Init /\ [][Next]_vars /\ WF_vars(Next)

-----------------------------------------------------------------------------
(* Properties                                                              *)

\* No uc.wg operation panics: neither a StartWorkflow call (Add, Wait) nor
\* an ingestion goroutine (Done).  Go's contract for a reused WaitGroup is
\* that new Add calls happen after every previous Wait has returned; spec
\* 5 has each StartWorkflow await its own tasks through a completion
\* barrier.
NoWaitGroupPanic ==
  /\ \A r \in Reqs : req[r] # "panicked"
  /\ \A g \in Gors : gor[g] # "panicked"

=============================================================================
