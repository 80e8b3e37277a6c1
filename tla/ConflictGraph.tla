---------------------------- MODULE ConflictGraph ----------------------------
(***************************************************************************)
(* The conflict-graph engine end to end, as TestConflictGraph in           *)
(* src/test.go runs it: NewBuildConflictGraph and AlGraph.Init, cycle      *)
(* detection and breaking (JohnsonCE.Run over the components of            *)
(* TarjanSCC), RebuildGraph and BasicTopologicalSort,                     *)
(* then the serial commit of the transactions in that order.               *)
(*                                                                         *)
(* A transaction is its batch index 0..N-1 and is the vertex of that       *)
(* index.  Its read nodes come in the order the simulator ranged over its  *)
(* read map (any order: Go map iteration); that order decides the order of *)
(* the read-write arcs of its adjacency list.  Stored values are the index *)
(* of the writing transaction; -1 is the value before the batch.           *)
(***************************************************************************)
EXTENDS Integers, Sequences, FiniteSets, SequencesExt, AlGraph, JohnsonCE

CONSTANTS
  N,          \* the number of transactions of the batch
  Key,        \* the keys they may touch
  Batches     \* the batches to check: records [reads, writes] of functions 0..N-1 -> SUBSET Key

Tx == 0 .. N - 1

VARIABLES
  reads, writes,  \* the batch
  rorder,         \* the order of the read nodes of each transaction
  phase,          \* "build", "cycles", "rebuild", "commit", "done", "crashed"
  gSlice,         \* the adjacency list NewBuildConflictGraph returns
  inDeg,          \* AlGraph.inDegree
  invalid,        \* the transactions Run invalidates (inValidTxs)
  arcAborted,     \* the arcs RebuildGraph marks isAborted: <<vertex, position>>
  order,          \* topologicalOrder, the commit order
  cpos,           \* the position in order of the transaction being committed
  stored,         \* the keys of its write nodes already stored
  kv              \* the store: key -> index of the transaction whose write it holds

vars == <<reads, writes, rorder, phase, gSlice, inDeg, invalid, arcAborted,
          order, cpos, stored, kv>>
analysisVars == <<reads, writes, rorder, gSlice, inDeg, invalid, arcAborted, order>>

(* The writers of k in batch order: wSet[k].                               *)
Writers(k) == SetToSortSeq({v \in Tx : k \in writes[v]}, <)

(* Mutant: line 432 with j <= len(txs), one past the last transaction.    *)
WWArcsPastEnd(i) ==
  FlattenSeq([d \in 1 .. N - i |->
                [c \in 1 .. Cardinality(writes[i] \cap (IF i + d < N THEN writes[i + d] ELSE Key)) |-> i + d]])

(* Lines 432-442: an arc i -> j, for every j after i, per write of j to a *)
(* key i writes (an arc per shared key: no deduplication).                 *)
WWArcs(i) ==
  FlattenSeq([d \in 1 .. N - 1 - i |->
                [c \in 1 .. Cardinality(writes[i] \cap writes[i + d]) |-> i + d]])

(* Mutant: line 451 without v != i, a reader that writes the key gets an *)
(* arc to itself.                                                          *)
RWArcsWithSelf(i, arcs) ==
  LET AddWriter(l, v) == IF v \notin Range(l) THEN Append(l, v) ELSE l
      AddRead(l, k)   == FoldLeft(AddWriter, l, Writers(k))
  IN  FoldLeft(AddRead, arcs, rorder[i])

(* Lines 445-457: for every read of i, in read order, an arc to every     *)
(* other writer of its key not already a successor of i.                   *)
RWArcs(i, arcs) ==
  LET AddWriter(l, v) == IF v # i /\ v \notin Range(l) THEN Append(l, v) ELSE l
      AddRead(l, k)   == FoldLeft(AddWriter, l, Writers(k))
  IN  FoldLeft(AddRead, arcs, rorder[i])

(* Mutant: line 451 with v > i, no arc back to an earlier writer.          *)
NewBuildConflictGraphForwardOnly ==
  LET AddWriter(i, l, v) == IF v > i /\ v \notin Range(l) THEN Append(l, v) ELSE l
      AddRead(i, l, k)   == FoldLeft(LAMBDA m, v : AddWriter(i, m, v), l, Writers(k))
  IN  [i \in Tx |-> FoldLeft(LAMBDA m, k : AddRead(i, m, k), WWArcs(i), rorder[i])]

(* NewBuildConflictGraph (lines 411-460).                                  *)
NewBuildConflictGraph == [i \in Tx |-> RWArcs(i, WWArcs(i))]

(* BuildConflictGraph (lines 364-408), the general builder nothing calls: *)
(* an arc to every later transaction that writes a key i reads or writes, *)
(* then to every earlier one that writes a key i reads, each once.         *)
BuildConflictGraph ==
  [i \in Tx |->
     SelectSeq([d \in 1 .. N - 1 - i |-> i + d],
               LAMBDA j : writes[j] \cap (reads[i] \cup writes[i]) # {})
     \o SelectSeq([d \in 1 .. i |-> i - d],
                  LAMBDA k : writes[k] \cap reads[i] # {})]

RECURSIVE ReadOrders(_, _)
(* Every way to order the reads of each transaction of T: the order in    *)
(* which the simulator ranged over its read map (data.go 199-204).         *)
ReadOrders(r, T) ==
  IF T = {} THEN {<<>>}
  ELSE LET t == CHOOSE x \in T : TRUE
       IN  {f @@ (t :> o) : f \in ReadOrders(r, T \ {t}), o \in SetToSeqs(r[t])}

(* ConCaptureRWSet: a batch of Batches, its reads in any order.            *)
Init ==
  /\ \E b \in Batches : reads = b.reads /\ writes = b.writes
  /\ rorder \in ReadOrders(reads, Tx)
  /\ phase = "build"
  /\ gSlice = [t \in Tx |-> <<>>]
  /\ inDeg = [t \in Tx |-> 0]
  /\ invalid = {}
  /\ arcAborted = {}
  /\ order = <<>>
  /\ cpos = 1
  /\ stored = {}
  /\ kv = [k \in Key |-> -1]

(* test.go 158-159: build the conflict graph and the AlGraph over it.      *)
Build ==
  /\ phase = "build"
  /\ gSlice' = NewBuildConflictGraph
  /\ inDeg' = InDegrees(NewBuildConflictGraph)
  /\ phase' = "cycles"
  /\ UNCHANGED <<reads, writes, rorder, invalid, arcAborted, order,cpos, stored, kv>>

(* test.go 165-174: Johnson's Run, the invalid vertices as inValidTxs.    *)
DetectCycles ==
  /\ phase = "cycles"
  /\ invalid' = Run(gSlice)
  /\ phase' = "rebuild"
  /\ UNCHANGED <<reads, writes, rorder, gSlice, inDeg, arcAborted, order,cpos, stored, kv>>

(* test.go 178-179: RebuildGraph over the invalid transactions, then      *)
(* BasicTopologicalSort gives the commit order.                            *)
Sort ==
  /\ phase = "rebuild"
  /\ LET r == RebuildGraph(gSlice, inDeg, invalid)
     IN  /\ inDeg' = r.inDeg
         /\ arcAborted' = r.arcAborted
         /\ order' = BasicTopologicalSort(gSlice, r.inDeg, r.arcAborted)
  /\ phase' = "commit"
  /\ UNCHANGED <<reads, writes, rorder, gSlice, invalid,cpos, stored, kv>>

(* Mutant: line 189 without vv.Label == "w", read nodes stored as well.   *)
StoreWriteOrRead(k) ==
  /\ phase = "commit"
  /\ cpos <= Len(order)
  /\ k \in (reads[order[cpos]] \cup writes[order[cpos]]) \ stored
  /\ kv' = [kv EXCEPT ![k] = order[cpos]]
  /\ stored' = stored \cup {k}
  /\ UNCHANGED <<analysisVars, phase, cpos>>

(* test.go 187-195: one StoreState of a write node of the transaction at *)
(* cpos.  Its nodes are its read nodes (skipped) then its write nodes in  *)
(* the order the simulator ranged over its write map: any order.          *)
StoreWrite(k) ==
  /\ phase = "commit"
  /\ cpos <= Len(order)
  /\ k \in writes[order[cpos]] \ stored
  /\ kv' = [kv EXCEPT ![k] = order[cpos]]
  /\ stored' = stored \cup {k}
  /\ UNCHANGED <<analysisVars, phase, cpos>>

(* Lines 191-193: the Put fails and log.Panic ends the process, with the  *)
(* writes stored so far left in leveldb.                                   *)
StoreFails(k) ==
  /\ phase = "commit"
  /\ cpos <= Len(order)
  /\ k \in writes[order[cpos]] \ stored
  /\ phase' = "crashed"
  /\ UNCHANGED <<analysisVars, cpos, stored, kv>>

(* Line 188: the nodes of the transaction are exhausted; on to the next.  *)
NextTx ==
  /\ phase = "commit"
  /\ cpos <= Len(order)
  /\ stored = writes[order[cpos]]
  /\ cpos' = cpos + 1
  /\ stored' = {}
  /\ UNCHANGED <<analysisVars, phase, kv>>

(* Line 187: the order is exhausted.                                        *)
Commit ==
  /\ phase = "commit"
  /\ cpos > Len(order)
  /\ phase' = "done"
  /\ UNCHANGED <<analysisVars, cpos, stored, kv>>

Stopped ==
  /\ phase \in {"done", "crashed"}
  /\ UNCHANGED vars

Next == Build \/ DetectCycles \/ Sort \/ NextTx \/ Commit \/ Stopped
        \/ \E k \in Key : StoreWrite(k) \/ StoreFails(k)

Spec == Init /\ [][Next]_vars

-----------------------------------------------------------------------------
TypeOK ==
  /\ reads \in [Tx -> SUBSET Key] /\ writes \in [Tx -> SUBSET Key]
  /\ phase \in {"build", "cycles", "rebuild", "commit", "done", "crashed"}
  /\ gSlice \in [Tx -> Seq(Tx)]
  /\ inDeg \in [Tx -> Int]
  /\ invalid \subseteq Tx
  /\ order \in Seq(Tx)
  /\ cpos \in 1 .. N + 1 /\ stored \subseteq Key
  /\ kv \in [Key -> Tx \cup {-1}]

Survivors == Tx \ invalid

(* u must commit before v: an arc u -> v of the conflict graph.            *)
Precedes(u, v) == v \in Range(gSlice[u])

(* The open question of the spec on the two builders: the light builder  *)
(* used by TestConflictGraph and the general one give every transaction   *)
(* the same set of successors (they differ in the order of the arcs and in *)
(* the repeated write-write arcs of the light one).                        *)
BuildersAgree ==
  phase # "build" => \A i \in Tx : Range(gSlice[i]) = Range(BuildConflictGraph[i])

(* The order BasicTopologicalSort hands to the commit loop holds every    *)
(* transaction Run did not invalidate, once, and none that it did, and    *)
(* puts the source of every arc between two of them first.  RebuildGraph *)
(* has to hide the aborted vertices from the sort for this to hold.        *)
CommitOrderSound ==
  phase \in {"commit", "done", "crashed"} =>
    /\ Len(order) = Cardinality(Survivors)
    /\ Range(order) = Survivors
    /\ \A i, j \in DOMAIN order : i < j => ~Precedes(order[j], order[i])

(* The store after the writes of the transactions of ord, from m.        *)
ApplyWrites(m, ord) ==
  [k \in Key |-> LET at == {i \in DOMAIN ord : k \in writes[ord[i]]}
                 IN  IF at = {} THEN m[k] ELSE ord[Max(at)]]

(* A failing Put at line 191 panics with part of the order stored, and   *)
(* part of the transaction at cpos (in the order its write map gave).     *)
(* Whatever it stored, storing again the writes of that transaction and   *)
(* of every later one gives the store of the run without the failure: the *)
(* loop leaves leveldb a replayable prefix of the commit order, and once  *)
(* done the store is that of the whole order.                             *)
CommitRecoverable ==
  phase \in {"done", "crashed"} =>
    ApplyWrites(kv, SubSeq(order, cpos, Len(order)))
      = ApplyWrites([k \in Key |-> -1], order)

(* P5 of the spec for the conflict-graph engine, as a refinement: the     *)
(* engine implements SerialCommit, committing the batch in its Commit step *)
(* to the store of a serial execution of the survivors that is consistent *)
(* with the batch snapshot, keeping every transaction that conflicts with *)
(* no other.  The abstract aborted set is the engine's invalid set, so the *)
(* serial order ranges over exactly the survivors.  (The engine is one    *)
(* goroutine that runs straight through; its termination is not in       *)
(* question, only what it commits.)                                        *)
CommitPlan == INSTANCE SerialCommit
                WITH NoWriter <- -1, committed <- (phase = "done"),
                     aborted <- IF phase = "done" THEN invalid ELSE {},
                     kv <- IF phase = "done" THEN kv ELSE [k \in Key |-> -1]

CommitPlanSpec == CommitPlan!SafeSpec

=============================================================================
