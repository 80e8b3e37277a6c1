---------------------------- MODULE SimulationPool ----------------------------
(***************************************************************************)
(* The simulation of a batch, on an ants pool at two call sites, and      *)
(* serially in CaptureRWSet:                                               *)
(*  - ConCaptureRWSet (src/utils/data.go): the calling goroutine submits   *)
(*    every transaction (wg.Add(1), p.Invoke(i)) and waits; each worker    *)
(*    simulates its transaction, builds its nodes (CreateRWNode) and       *)
(*    appends them to the shared slice txs under a mutex, then wg.Done.   *)
(*  - TestSimulation (src/test.go): main does wg.Add(1) and starts a       *)
(*    dispatcher goroutine that submits every transaction and then calls   *)
(*    wg.Done; main waits; each worker simulates and calls wg.Done.        *)
(*  - CaptureRWSet (src/utils/data.go), the single-threaded variant: one   *)
(*    loop simulates each transaction and appends its nodes in turn.       *)
(*                                                                         *)
(* driver says which of the three runs.  The pool runs at most PoolCap      *)
(* tasks at once and Invoke blocks while it is full (ants' default, not   *)
(* Nonblocking).  A task's nodes are abstracted to its index n.  The      *)
(* append txs = append(txs, rwNodes) reads the slice header and writes it *)
(* back: two steps, so that an append outside the mutex can lose another. *)
(***************************************************************************)
EXTENDS Integers, Sequences, FiniteSets, SequencesExt

CONSTANTS
  TxNum,      \* txNum, the number of transactions simulated
  PoolCap,    \* the capacity of the pool (100000 in both call sites)
  NoHolder    \* the mutex is free

ASSUME TxNum \in Nat /\ PoolCap \in Nat \ {0}

Task == 0 .. TxNum - 1
Drivers == {"ConCaptureRWSet", "TestSimulation", "CaptureRWSet"}

VARIABLES
  driver,     \* the call site
  mpc,        \* the calling goroutine: "add", "spawn", "submit", "serial", "wait", "returned"
  spc,        \* the submitting loop: "idle", "add", "invoke", "done", "exit"
  i,          \* its loop index
  wg,         \* the WaitGroup counter
  wpc,        \* task -> "idle", "sim", "lock", "read", "write", "unlock", "wgdone", "exit"
  lock,       \* the task holding the mutex, or NoHolder
  seen,       \* task -> the slice txs its append read
  txs         \* the slice of node lists, as task indices

vars == <<driver, mpc, spc, i, wg, wpc, lock, seen, txs>>

(* The tasks the pool is running: submitted and not yet returned.          *)
Busy == {n \in Task : wpc[n] \notin {"idle", "exit"}}

(* data.go 130-170 and test.go 81-102: txs empty, an EVM and a contract  *)
(* per transaction, the pool created, nothing submitted.  ConCaptureRWSet *)
(* submits from the calling goroutine, TestSimulation first does wg.Add,  *)
(* CaptureRWSet runs its loop.                                             *)
Init ==
  /\ driver \in Drivers
  /\ mpc = CASE driver = "ConCaptureRWSet" -> "submit"
             []  driver = "TestSimulation"  -> "add"
             []  driver = "CaptureRWSet"    -> "serial"
  /\ spc = IF driver = "ConCaptureRWSet" THEN "add" ELSE "idle"
  /\ i = 0
  /\ wg = 0
  /\ wpc = [n \in Task |-> "idle"]
  /\ lock = NoHolder
  /\ seen = [n \in Task |-> <<>>]
  /\ txs = <<>>

(* Mutant: test.go without line 132, the dispatcher adds from zero.       *)
MainAddMissing ==
  /\ mpc = "add"
  /\ mpc' = "spawn"
  /\ UNCHANGED <<driver, spc, i, wg, wpc, lock, seen, txs>>

(* data.go 59-124: one iteration of CaptureRWSet's loop: deploy, simulate *)
(* and append the nodes of transaction i, all on the calling goroutine.    *)
CaptureStep ==
  /\ mpc = "serial"
  /\ i < TxNum
  /\ txs' = Append(txs, i)
  /\ i' = i + 1
  /\ UNCHANGED <<driver, mpc, spc, wg, wpc, lock, seen>>

(* data.go 126: the loop is over; CaptureRWSet returns txs.               *)
CaptureEnd ==
  /\ mpc = "serial"
  /\ i = TxNum
  /\ mpc' = "returned"
  /\ UNCHANGED <<driver, spc, i, wg, wpc, lock, seen, txs>>

(* test.go 132: wg.Add(1) for the dispatcher.                              *)
MainAdd ==
  /\ mpc = "add"
  /\ wg' = wg + 1
  /\ mpc' = "spawn"
  /\ UNCHANGED <<driver, spc, i, wpc, lock, seen, txs>>

(* test.go 133: go func() starts the dispatcher; main goes on to Wait.    *)
Spawn ==
  /\ mpc = "spawn"
  /\ spc' = "add"
  /\ mpc' = "wait"
  /\ UNCHANGED <<driver, i, wg, wpc, lock, seen, txs>>

(* Mutant: the loop without wg.Add(1), as if it were done in the worker.  *)
SubmitNoAdd ==
  /\ spc = "add"
  /\ i < TxNum
  /\ spc' = "invoke"
  /\ UNCHANGED <<driver, mpc, i, wg, wpc, lock, seen, txs>>

(* Mutant: the loop condition i <= txNum, one submission too many.         *)
SubmitAddPastEnd ==
  /\ spc = "add"
  /\ i <= TxNum
  /\ wg' = wg + 1
  /\ spc' = "invoke"
  /\ UNCHANGED <<driver, mpc, i, wpc, lock, seen, txs>>

(* data.go 222-223 (test.go 134-135): wg.Add(1) for transaction i.        *)
SubmitAdd ==
  /\ spc = "add"
  /\ i < TxNum
  /\ wg' = wg + 1
  /\ spc' = "invoke"
  /\ UNCHANGED <<driver, mpc, i, wpc, lock, seen, txs>>

(* data.go 224 (test.go 136): p.Invoke(i), blocking while the pool is     *)
(* full; a worker takes task i.                                            *)
Invoke ==
  /\ spc = "invoke"
  /\ Cardinality(Busy) < PoolCap
  /\ wpc' = [wpc EXCEPT ![i] = "sim"]
  /\ i' = i + 1
  /\ spc' = "add"
  /\ UNCHANGED <<driver, mpc, wg, lock, seen, txs>>

(* The loop is over: ConCaptureRWSet goes on to Wait itself, the          *)
(* dispatcher to its wg.Done.                                              *)
LoopEnd ==
  /\ spc = "add"
  /\ i = TxNum
  /\ IF driver = "ConCaptureRWSet"
     THEN spc' = "exit" /\ mpc' = "wait"
     ELSE spc' = "done" /\ mpc' = mpc
  /\ UNCHANGED <<driver, i, wg, wpc, lock, seen, txs>>

(* Mutant: the dispatcher returns without its wg.Done.                     *)
DispatcherNoDone ==
  /\ spc = "done"
  /\ spc' = "exit"
  /\ UNCHANGED <<driver, mpc, i, wg, wpc, lock, seen, txs>>

(* test.go 138: the dispatcher's wg.Done.                                  *)
DispatcherDone ==
  /\ spc = "done"
  /\ wg' = wg - 1
  /\ spc' = "exit"
  /\ UNCHANGED <<driver, mpc, i, wpc, lock, seen, txs>>

(* data.go 227 (test.go 141): wg.Wait returns once the counter is zero.   *)
Wait ==
  /\ mpc = "wait"
  /\ wg = 0
  /\ mpc' = "returned"
  /\ UNCHANGED <<driver, spc, i, wg, wpc, lock, seen, txs>>

(* data.go 171-213: simulate the transaction and build its nodes with     *)
(* CreateRWNode.                                                           *)
Simulate(n) ==
  /\ driver = "ConCaptureRWSet"
  /\ wpc[n] = "sim"
  /\ wpc' = [wpc EXCEPT ![n] = "lock"]
  /\ UNCHANGED <<driver, mpc, spc, i, wg, lock, seen, txs>>

(* test.go 103-124: simulate the transaction; the result is dropped.      *)
SimulateOnly(n) ==
  /\ driver = "TestSimulation"
  /\ wpc[n] = "sim"
  /\ wpc' = [wpc EXCEPT ![n] = "wgdone"]
  /\ UNCHANGED <<driver, mpc, spc, i, wg, lock, seen, txs>>

(* Mutant: the append without lock.Lock (and its Unlock a no-op).         *)
LockSkipped(n) ==
  /\ wpc[n] = "lock"
  /\ wpc' = [wpc EXCEPT ![n] = "read"]
  /\ UNCHANGED <<driver, mpc, spc, i, wg, lock, seen, txs>>

(* data.go 214: lock.Lock().                                               *)
Lock(n) ==
  /\ wpc[n] = "lock"
  /\ lock = NoHolder
  /\ lock' = n
  /\ wpc' = [wpc EXCEPT ![n] = "read"]
  /\ UNCHANGED <<driver, mpc, spc, i, wg, seen, txs>>

(* data.go 215, append reads the slice header and the elements under it. *)
ReadTxs(n) ==
  /\ wpc[n] = "read"
  /\ seen' = [seen EXCEPT ![n] = txs]
  /\ wpc' = [wpc EXCEPT ![n] = "write"]
  /\ UNCHANGED <<driver, mpc, spc, i, wg, lock, txs>>

(* data.go 215, append stores the nodes after the slice it read and      *)
(* writes that slice, one longer, back to txs.                             *)
WriteTxs(n) ==
  /\ wpc[n] = "write"
  /\ txs' = Append(seen[n], n)
  /\ wpc' = [wpc EXCEPT ![n] = "unlock"]
  /\ UNCHANGED <<driver, mpc, spc, i, wg, lock, seen>>

(* data.go 216: lock.Unlock().                                             *)
Unlock(n) ==
  /\ wpc[n] = "unlock"
  /\ lock' = NoHolder
  /\ wpc' = [wpc EXCEPT ![n] = "wgdone"]
  /\ UNCHANGED <<driver, mpc, spc, i, wg, seen, txs>>

(* data.go 218 (test.go 126): wg.Done; the worker returns to the pool.    *)
WorkerDone(n) ==
  /\ wpc[n] = "wgdone"
  /\ wg' = wg - 1
  /\ wpc' = [wpc EXCEPT ![n] = "exit"]
  /\ UNCHANGED <<driver, mpc, spc, i, lock, seen, txs>>

(* The call has returned and every worker is back in the pool.             *)
Returned ==
  /\ mpc = "returned"
  /\ \A n \in Task : wpc[n] \in {"idle", "exit"}
  /\ UNCHANGED vars

Caller == MainAdd \/ Spawn \/ Wait \/ CaptureStep \/ CaptureEnd
Submitter == SubmitAdd \/ Invoke \/ LoopEnd \/ DispatcherDone
Worker(n) == Simulate(n) \/ SimulateOnly(n) \/ Lock(n) \/ ReadTxs(n) \/ WriteTxs(n) \/ Unlock(n) \/ WorkerDone(n)

Next == Caller \/ Submitter \/ Returned \/ \E n \in Task : Worker(n)

Spec == Init /\ [][Next]_vars

(* Every goroutine that can run eventually does (the Go scheduler         *)
(* preempts), and a goroutine blocked on the mutex acquires it once it is *)
(* free (sync.Mutex hands it over in starvation mode).                    *)
FairSpec == Spec /\ WF_vars(Caller) /\ WF_vars(Submitter)
                 /\ \A n \in Task : WF_vars(Worker(n))

-----------------------------------------------------------------------------
TypeOK ==
  /\ driver \in Drivers
  /\ mpc \in {"add", "spawn", "submit", "serial", "wait", "returned"}
  /\ spc \in {"idle", "add", "invoke", "done", "exit"}
  /\ i \in 0 .. TxNum
  /\ wg \in Int
  /\ wpc \in [Task -> {"idle", "sim", "lock", "read", "write", "unlock", "wgdone", "exit"}]
  /\ lock \in Task \cup {NoHolder}
  /\ seen \in [Task -> Seq(Task)]
  /\ txs \in Seq(Task)

(* The barrier: when wg.Wait returns, every transaction has been submitted *)
(* and its worker has finished.  In TestSimulation this needs main's own  *)
(* wg.Add(1) before the dispatcher starts, or Wait can see a zero counter *)
(* before the dispatcher adds anything.                                    *)
WaitCoversAll ==
  mpc = "returned" /\ driver # "CaptureRWSet" => i = TxNum /\ \A n \in Task : wpc[n] = "exit"

(* ConCaptureRWSet returns the nodes of every transaction exactly once, as *)
(* CaptureRWSet does: concurrent appends to txs under the mutex lose none  *)
(* and repeat none.                                                         *)
CaptureComplete ==
  driver \in {"ConCaptureRWSet", "CaptureRWSet"} /\ mpc = "returned" =>
    Len(txs) = TxNum /\ Range(txs) = Task

(* The WaitGroup counter never goes negative (sync panics with "negative *)
(* WaitGroup counter"): every wg.Done of a worker or of the dispatcher is *)
(* preceded by the wg.Add that accounts for it, whatever the interleaving. *)
CounterNeverNegative == wg >= 0

(* The call returns: every worker runs to its wg.Done and the counter     *)
(* reaches zero, also when the pool is full and Invoke blocks.             *)
SimulationReturns == <>(mpc = "returned")

=============================================================================
