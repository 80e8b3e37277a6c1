# TLA+ models of Nezha's concurrency control

Nezha orders a batch of simulated transactions, given as read and write sets,
into a commit plan. It has two engines:

* **ACG / queue engine** (`src/core/conflict_queue.go`, driven by
  `TestConflictQueue` in `src/test.go`):
  * `CreateGraph` builds one queue per key from the read and write nodes.
  * `QueuesSort` builds a *rank graph* between the queues and orders it with
    `AlGraph.AdvancedTopologicalSort` (`src/core/classical_graph.go`).
  * `DeSS` runs `sortInQueue` on each queue in that order. It assigns
    sequence numbers, aborts some read-write transactions, then groups the
    survivors by sequence number.
  * The groups are committed in ascending order. Within a group, an `ants`
    worker pool stores the write lists concurrently, and a `sync.WaitGroup`
    separates the groups.
* **CG / conflict-graph engine** (`TestConflictGraph`):
  * `NewBuildConflictGraph` builds a transaction-level conflict graph.
  * `johnsonce.Run` finds the strongly connected components with Tarjan
    (`src/graph/tarjanscc.go`), enumerates their cycles with Johnson's
    algorithm, and greedily invalidates vertices until no cycle is left
    (`src/graph/johnsonce.go`).
  * `AlGraph.RebuildGraph` hides the invalid vertices.
  * `BasicTopologicalSort` gives the commit order, and the transactions are
    stored one by one.

Both engines read batches produced by `utils.ConCaptureRWSet`
(`src/utils/data.go`). It submits every transaction to an `ants` pool of
100000 workers, one `wg.Add(1)` each. Each worker simulates its transaction on
the EVM, builds its nodes (`CreateRWNode`) and appends them to the shared slice
`txs` under a `sync.Mutex`, then calls `wg.Done`. The caller returns `txs`
after `wg.Wait`. `TestSimulation` in `src/test.go` uses the same pool pattern,
but a dispatcher goroutine submits the transactions while `main` waits.

Apart from the engines, `src/evm/splashmerkle` builds a Merkle tree over a
list of byte strings. `splashecdsa.GenerateMultiSigAddress` takes a
multi-signature address from its root. `GenerateProofFor` and `Verify` give
and check inclusion proofs; only `merkle_test.go` calls them.

## Modules

| Module | Models | State / operators ↔ code |
|---|---|---|
| `AlGraph` | `classical_graph.go`: `Init` degrees, `AdvancedTopologicalSort`, `findMaxNode`, `RebuildGraph`, `RemoveCycles` | Pure operators over an adjacency list `0..n-1 -> Seq`.<br>`AdvancedStep` is one iteration of the loop at lines 157-197, and `AdvancedLoop` recurses over the iterations.<br>`RebuildGraph` returns the new in-degrees and the set of arcs marked `isAborted`.<br>`ElementaryCyclesOf` stands for gonum's `DirectedCyclesIn`. |
| `TarjanSCC` | `tarjanscc.go` | A record `[time, low, disc, stackMember, st, sccList]` is threaded through the RECURSIVE `SCCUtil` and `Neighbours`. |
| `JohnsonCE` | `johnsonce.go` | `FindCyclesRecur`, `Successors` and `Unblock` thread a record `[blocked, blockedMap, stack, cycles, found]`.<br>`FindCycles` keeps the two-vertex shortcut of line 69.<br>`BreakCycles` hands the cycles to `BreakLoop`, a recursion over the rounds of the greedy loop (lines 162-184), and `Run` takes the union over components. |
| `DeSS` | `conflict_queue.go` | Variables mirror the fields: `seq[t]` is the common `Sequence` of a transaction's nodes (see `assignSequence`), along with `assigned`, `aborted`, `maxRead`, `maxWrite` and `commitOrder`.<br>Actions:<br>• `QueuesSort` is one step over every possible rank graph, because Go map order decides the lists.<br>• `SortQueue` is `sortInQueue` on the next queue (the whole function, including every `assignSequence`).<br>• `GroupCommit` is the second loop of `DeSS`. |
| `ACGCommit` | the commit half of `TestConflictQueue`, `StoreState` (`db_tool.go`) | Variables: `kv`, `group`, `pending[t]` (the writes a worker still has to store), `wg` (the WaitGroup counter) and `failed` (the transactions whose worker's `Put` failed).<br>Actions:<br>• `InvokeGroup` (lines 258-264): only once `wg` is 0; one `wg.Add` per non-empty write list.<br>• `StoreState(t)`: one `Put` of a worker, with `wg.Done` after its last one.<br>• `StoreStateFails(t)` (lines 247-254): the `Put` fails and the worker calls `log.Panic`. The pool has no `PanicHandler`, so ants recovers the panic and the process goes on. The worker drops the rest of its list without reaching `wg.Done`.<br>• `Committed`.<br>• `Stopped`: the test has returned, or the dispatcher is blocked for ever in `wg.Wait` (line 265) because every worker has finished and the counter is not 0. |
| `SerialCommit` | spec P5 and section 4 | The abstract specification of a commit engine. In one step, the engine fixes the set it aborts (`aborted`), and the store becomes that of a serial execution of all the other transactions that is consistent with the batch snapshot. No transaction that conflicts with no other is aborted. `SerialOrders` builds the orders consistent with the snapshot recursively, so TLC does not enumerate every permutation. |
| `ConflictGraph` | `TestConflictGraph`, `NewBuildConflictGraph`, `BuildConflictGraph`, `RebuildGraph`, `BasicTopologicalSort` | Phases: `Build`, `DetectCycles` (`JohnsonCE.Run`) and `Sort` (`RebuildGraph`, then the whole `BasicTopologicalSort`, an operator of `AlGraph`). The engine runs these on one goroutine, so each is one step.<br>The commit loop (lines 187-197) is one step per `StoreState`: `StoreWrite(k)` stores a write of the transaction at `cpos` not yet in `stored`, in any order (the write-map order). `StoreFails(k)` is the failing `Put` and `log.Panic` (phase `crashed`). `NextTx` moves to the next transaction, and `Commit` ends the loop.<br>`rorder[t]` is the order in which the simulator ranged over `t`'s read map (`ReadOrders` builds every such choice). That order fixes the order of the read-write arcs.<br>`CommitPlan` instantiates `SerialCommit`. It maps `committed` to `phase = "done"`, the abstract `aborted` to `invalid` once done, and the abstract store to `kv` once done and to the initial store before. The serial order must therefore cover exactly the survivors. |
| `SimulationPool` | `CaptureRWSet`, `ConCaptureRWSet` (`data.go`) and `TestSimulation` (`test.go`) | Program counters for the caller (`mpc`), the submitting loop (`spc`, `i`) and every task's worker (`wpc`), plus `wg`, the mutex holder `lock` and the slice `txs`. The variable `driver`, chosen in `Init`, is the call site.<br>Actions:<br>• `MainAdd`, `Spawn`, `DispatcherDone`: `TestSimulation`'s own `wg.Add(1)`, its `go func()` and the dispatcher's `wg.Done`.<br>• `SubmitAdd`, `Invoke` (blocks while `PoolCap` tasks run), `LoopEnd`, `Wait`.<br>• A worker's steps: `Simulate` (or `SimulateOnly`), `Lock`, `ReadTxs` and `WriteTxs` (`append` reads the slice, then writes it back one longer), `Unlock`, `WorkerDone`.<br>• `CaptureStep`, `CaptureEnd`: one iteration and the end of the serial `CaptureRWSet` loop (third `driver`). |
| `TarjanConnections` | `graph/tarjan.go` `Connections` (unused) | Pure operators over a record: the arrays `data.nodes` has had, the current one, its length and capacity, `index`, `stack` and `output`.<br>`AppendNode` grows the slice like Go: in place up to the capacity, otherwise into a copy of twice the capacity.<br>`node` is a pointer `<<array, index>>`, so its writes go to the array it was taken from. |
| `MerkleTree` | `splashmerkle` `tree.go`, `proof.go`, `leaf.go`, `utils.Hash` | Pure operators. A byte string is a sequence of chunks (input values and hashes). `append` is `\o`, and `Hash(s)` is the record `[hash \|-> s]`, an ideal hash.<br>`tree.Nodes` is a sequence of `[H, isLeaf, sib]`, where `sib` is the index `GetSibling` returns. The pointers go stale when `append` copies `tree.Nodes`, but nothing writes a node after construction, so one index stands for both copies.<br>`GenerateLayerFrom` is one layer, `Grow` the loop of `ConstructTree`. `ProofLoop` is the loop of `GenerateProofFor` and records a nil dereference as `panic`. `Verify` is a `FoldLeft` over the helpers. The type `Root` is missing from the repository; the root is modelled as its node's `H`, which `Root.Bytes()` is used for. |
| `MC_Graphs` | checking harness | Runs every algorithm once on every graph of 1-4 vertices without self-loops, with every order of every adjacency list. Neither graph Nezha builds has self-loops. |
| `MC_Connections` | checking harness | Every map graph of 1-3 vertices (self-loops included), with every key set that holds the vertices with arcs, and every key order. |
| `MC_MerkleTree` | checking harness | Every input of up to 6 values from {1,2,3}, repeats included, and the inputs 1..n for n up to 34. It builds the tree and a proof for every input value and for 0, which is never an input. |
| `MC_DeSS`, `MC_ACGCommit`, `MC_ConflictGraph`, `MC_SimulationPool` | checking harnesses | Give the constants their values. |

Values are abstracted: a stored value is the id of the transaction that wrote
it, because no engine decision looks at values. In the queue engine, keys are small numbers: hex-string order equals numeric
order for these keys, so the queue order is preserved. The conflict-graph
engine only compares keys for equality, so there they are model values and
`MC_ConflictGraph.cfg` declares them symmetric.

## Runs

| Run | Result | What it shows |
|---|---|---|
| `graphs` | pass | On every graph of 1-4 vertices:<br>• `AdvancedTopologicalSort` returns each vertex exactly once, even on cyclic graphs. This covers the forced choice through `findMaxNode`. On acyclic graphs the order is topological.<br>• Tarjan finds exactly the SCCs (compared with reachability computed by a recursive `Closure`).<br>• Johnson lists each elementary cycle once.<br>• The vertices `Run` invalidates break every cycle (spec P6). |
| `connections` | pass | `Connections` returns exactly the strongly connected components of the part of the graph reached from the keys. This holds even when a vertex that is not a key makes `data.nodes` outgrow its capacity. `node` then points into the old array, but `lowLink` is only ever read and written through the node's own pointer, and `stacked` only through the slice. The mutant that writes `lowLink` through the slice shows that the growth case is reached. |
| `deess_p2` | **violation** | A reader gets the same sequence number as a writer of a key it read (P2), through line 292. The spec's open question 3 expects an abort here. |
| `deess_empty` | **violation** | An empty batch panics at `al.vertices[0]` (classical_graph.go:160) instead of giving an empty plan. |
| `acg_commit` | pass | For every batch of 3 transactions over 2 keys, every rank graph and every worker interleaving, with any `Put` allowed to fail:<br>• every transaction gets a sequence number, and right after each `sortInQueue` that queue is locally ordered (an action property);<br>• at every point, each key holds a write of the group in flight or the value the earlier groups leave (`GroupPrefixApplied`). This holds even after a failing `Put`, whose worker stops mid-list while the others go on;<br>• every key ends with the write of its highest-sequence survivor;<br>• once DeSS has returned, the commit ends unless some `Put` failed, under weak fairness of the dispatcher and the workers (`CommitTerminates`). So every `wg.Add(1)` at line 261 is matched by a `wg.Done`. |
| `acg_serial` | **violation** | The queue engine's final store is not that of any serial order of the survivors on the batch snapshot (P5). The cause is the `tmpWQueue2` re-sequencing at line 335, which can put two writers of one key in one group (P4). |
| `acg_kvfail` | **violation** | A failing `Put` does not end the process. ants recovers the worker's `log.Panic`, and the worker never calls `wg.Done`. The test then blocks for ever in `wg.Wait` (line 265), with the writes of earlier groups and of the other workers stored. In TLC's trace, Tx1 stores k1 in group 10 and Tx2's `Put` fails in group 11: the counter stays 1 and the behaviour stutters. The spec (section 7) says a KVFailure aborts the batch wholesale. |
| `cg_pipeline` | pass | For every batch of 4 transactions over 2 keys, every read order and every write order, with any `Put` of the commit loop allowed to fail:<br>• the two builders give the same successor sets, which answers the spec's open question on them;<br>• the sort emits exactly the survivors in an order consistent with the graph;<br>• a failing `Put` at line 191 may leave part of the order and half a transaction in leveldb. Storing again the writes from the failed transaction onwards still gives the crash-free store (`CommitRecoverable`). The loop never stores a read node, and leaves no write of an earlier transaction unstored;<br>• the engine implements `SerialCommit` (the refinement `CommitPlanSpec`, P5), committing exactly the transactions it did not invalidate. On the `cg_abort` batch this refinement fails too, like `CommitOrderSound`. It checks the safety part of `SerialCommit`. The engine is one goroutine that runs straight through, so its termination is not in question. |
| `cg_abort` | **violation** | `RebuildGraph` plus `BasicTopologicalSort` emit aborted transactions, so they are committed. |
| `simulation` | pass | For 4 transactions on a pool of 3 workers, at both call sites, in every interleaving of submitter, workers and mutex:<br>• when `wg.Wait` returns, every task has been submitted and its worker has finished (`WaitCoversAll`). In `TestSimulation` this depends on `main`'s `wg.Add(1)` at line 132, before the dispatcher starts;<br>• `ConCaptureRWSet`, like the serial `CaptureRWSet`, returns every transaction exactly once (`CaptureComplete`). A racing `append` outside the mutex would lose one;<br>• the counter never goes negative;<br>• the call returns, also when the pool is full and `Invoke` blocks (`SimulationReturns`). |
| `merkle` | pass | On every input described for `MC_MerkleTree`:<br>• `ConstructTree`'s root equals a top-down reference root (`RefRoot`: the first 2^(d-1) inputs under the left child, a child with nothing on its right hashed alone). So the bottom-up layers, the rounding up of odd counts and the sibling pointers build the tree they are meant to, for 0, 1 and every other count (`RootMatchesReference`);<br>• the proof of the first input, which `merkle_test.go` checks, returns without error and `Verify` accepts it, on every tree of at most 2^(MAXDEPTH+1) = 32 inputs. A value that is not an input gets an error (`FirstProofVerifies`). At 33 inputs the loop stops one level below the root, and even this proof fails `Verify`. |
| `merkle_proof` | **violation** | `GenerateProofFor` panics on a nil `leftNode` (proof.go:96) when the target's path meets the last node of an odd upper layer. `generateLayerFrom` gives that node neither a sibling nor `isLeaf`. The smallest case is the fifth of 5 inputs. The test only proves the first of 6. |

Every property of a passing run has a mutant in `PROJECT.json`: a plausible
bug in the mapped code that TLC catches under that run's configuration.

## Bounds

* **Graphs, 1-4 vertices with every arc order.** This includes:
  * every cycle shape of up to 4 vertices;
  * nested and overlapping cycles inside one SCC, which the greedy breaking
    needs;
  * several SCCs.

  It stays near 130k states, about 1-2 minutes with coverage.
* **Tarjan `Connections`, map graphs of 1-3 vertices**, about 52k states.
  Three vertices are enough for a vertex outside the keys to make the slice
  grow while a node pointer is held, and for that node to sit on a cycle.
  Four vertices with every key order would be about 17M graphs.
* **DeSS, 3 transactions over 2 keys.** This reaches:
  * cyclic rank graphs;
  * read-write transactions in both `tmpWQueue` cases;
  * aborts.

  The P2/P4 counterexamples need exactly this size. The same bounds serve
  the commit (`acg_commit`, about 46k states): groups of two writers, read-only
  transactions in a group, and a failing `Put` at every point.
* **CG pipeline, 4 transactions over 2 keys**, with every read order and a
  failing `Put` possible at every write, about 850k distinct states under key
  symmetry (about 60 s).
  * A search outside TLC found no batch of that size, nor of 5 transactions
    over 2 keys, on which the `RebuildGraph` bug shows.
  * The smallest such batch has 5 transactions over 3 keys. It is given
    explicitly to `cg_abort` (`AbortBatches` in `MC_ConflictGraph`), because
    enumerating that size is out of reach.

* **Simulation pool, 4 transactions, pool capacity 3**, about 3.5k states.
  Capacity below the number of transactions makes `Invoke` block, as it does
  past 100000 transactions in the code. Four workers give three-way races on
  the mutex and the WaitGroup.

## Fairness

Only `CommitTerminates` needs fairness. `FairSpecAll` in `ACGCommit` assumes
weak fairness of:
* `InvokeGroup` and `Committed`, the dispatch loop of `TestConflictQueue`.
  It is one goroutine, and it runs whenever `wg.Wait` lets it.
* `StoreState(t)` for every worker. Each is an ants goroutine, and the Go
  scheduler runs every runnable goroutine eventually.

A failing `Put` is a fault and is never forced. As in the commit protocols
whose liveness reads "every participant decides, or one is faulty",
`CommitTerminates` promises the end of the commit only for runs without a
failure, and `acg_kvfail` shows what happens with one: under the same
fairness, the commit never ends. The analysis before the
commit has no fairness. It is a sequential function, and the property starts
from its end (`phase = "done" ~> ...`). Putting fairness on it would also
make TLC re-run `sortInQueue` for every transition.

`SimulationReturns` uses `FairSpec` of `SimulationPool`: weak fairness of the
caller, of the submitting loop and of each worker. Each is a goroutine, and
the Go scheduler runs every runnable one eventually. Each worker takes the
mutex once, so a waiting worker finds it free infinitely often until it has
taken it, and weak fairness is enough.

The conflict-graph engine has no liveness property. It is one goroutine that
runs straight through. Its run also uses key symmetry, which TLC does not
support for liveness.

* **Merkle tree, up to 34 inputs**, about 2.2k states. All the orders of up
  to 6 values from three give repeated inputs, for which `GetIndex` finds an
  earlier copy. The distinct inputs 1..n reach every layer shape up to six
  levels: the odd upper layers from n = 5, and the 33 inputs that
  `MAXDEPTH` cannot span.

Deadlock checking is on: each model ends in an explicit stuttering `Finished`,
`Stopped` or `Done` step once the engine has returned or crashed. For
`ACGCommit` this also covers a dispatcher blocked for ever in `wg.Wait`.

## Not modelled

* Transactions with no operation. `DeSS.Init` gives every transaction at
  least one read or write, because `CreateGraph` reads `rw[0]` for the
  transaction's id (conflict_queue.go:36). A transaction whose simulation
  read and wrote no storage key would make `CreateGraph` panic with an index
  out of range; the model leaves that case out.
* EVM execution, transaction and account serialization, and the
  splashecdsa curve arithmetic. They only produce read/write sets and byte
  encodings. `GenerateMultiSigAddress` is not modelled either: under an ideal
  hash, cutting the root to 20 bytes says nothing.
* `core/transaction.go`, which nothing calls. It is gob and sha256 encoding
  and P-256 signatures. Reading it shows that `GenerateNonce` hashes once,
  before its loop, and then increments the nonce for ever unless that first
  hash already has the prefix. `Sign` stores raw `r||s` bytes, while
  `SignatureVerify` base58-decodes them. Neither is checked by a run.
* `Tree.Includes` (nothing calls it) and `Tree.ToString` (formatting).
* What `RemoveCycles` should return is stated as `RemoveCyclesBreaksCycles`
  in `MC_Graphs`: a vertex set whose removal leaves no cycle. It fails on the
  complete graph of 3 vertices, because the test at classical_graph.go:272
  lacks its `!`, so the function aborts one vertex only. Nothing calls the
  function, and no run checks it.
* The vendored go-ethereum test.
* Workload generation and timing.
* The dead helper `GetAllCycles`. Its `existCycle` test appends a cycle
  only if an equal one was already found, so it never returns a cycle.
* The data race on the shared zipf generator `z` in the pool workers
  (data.go:188, test.go:121). The drawn addresses only pick the contract
  call. The model enumerates every read and write set, so every value a race
  can yield is covered. The race inside `math/rand` is outside the
  repository.
* `TestAppConcurrency`, which nothing calls. Its block loop
  `math.Ceil(float64(txNum / avgNum))` divides integers before the ceiling,
  so fewer than `con * blksize` transactions give no block at all. Each
  block runs the same engine and commit as `TestConflictQueue`.

## Plan for later work

* **Determinism of the plan across Go map orders (spec P7).** Compare two
  copies of `DeSS` with different rank graphs.
* **`ACGCommit` refining `SerialCommit`** with the store mapped at commit.
  P5 fails for it (`acg_serial`), so this would restate that finding.
* **Larger DeSS bounds** (4 transactions) under a state constraint.
* **The block loop of `TestAppConcurrency`**, composing the queue engine over
  several batches on one store.
