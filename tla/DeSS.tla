-------------------------------- MODULE DeSS --------------------------------
(***************************************************************************)
(* The queue engine of Nezha (src/core/conflict_queue.go): CreateGraph,    *)
(* QueuesSort (rank division), DeSS with sortInQueue for every queue and   *)
(* the final commit grouping.                                              *)
(*                                                                         *)
(* Abstractions.                                                           *)
(*  - A transaction is its batch index; its operations are the keys of     *)
(*    its read set and write set (the simulator's rMap/wMap, so at most    *)
(*    one read and one write per key).  Values are left out: nothing in    *)
(*    the engine looks at them.                                            *)
(*  - Every assignment of RWNode.Sequence in the code is followed by       *)
(*    assignSequence, which copies it to every other node of the same      *)
(*    transaction.  The Sequence of all the nodes of a transaction is      *)
(*    therefore always one value, kept here as seq[t].                     *)
(*  - isAssigned is only ever read on read nodes; it is the set assigned   *)
(*    of the pairs <<t, k>> whose read node is marked.                     *)
(*  - Keys are numbers ordered as their canonical hex strings are.         *)
(***************************************************************************)
EXTENDS Integers, Sequences, FiniteSets, SequencesExt, AlGraph

CONSTANTS
  Tx,           \* batch indices of the transactions, in batch order
  Key           \* the keys the transactions may touch

ASSUME Tx \subseteq Nat /\ Key \subseteq Nat

(* initialSequence *)
INITIAL_SEQ == 10

VARIABLES
  reads, writes,   \* the batch: read and write set of every transaction
  phase,           \* "rank", "sort", "done", "panic" ("committed": ACGCommit)
  sequence,        \* the queue processing order returned by QueuesSort
  pos,             \* index in sequence of the next queue to sort
  seq,             \* RWNode.Sequence of the nodes of each transaction
  assigned,        \* read nodes <<t, k>> with isAssigned = true
  aborted,         \* Edge.isAborted of each transaction
  maxRead,         \* Queue.maxRead
  maxWrite,        \* Queue.maxWrite
  commitOrder      \* the map returned by DeSS: sequence number -> txs

vars == <<reads, writes, phase, sequence, pos, seq, assigned, aborted,
          maxRead, maxWrite, commitOrder>>

TxOrder == SetToSortSeq(Tx, <)

(* The queue of key k after initialSorting: its read nodes and its write  *)
(* nodes, each in batch order.                                             *)
RSlice(k) == SelectSeq(TxOrder, LAMBDA t : k \in reads[t])
WSlice(k) == SelectSeq(TxOrder, LAMBDA t : k \in writes[t])

(* The keys that have a queue: those some operation touches.               *)
QueueKeys == {k \in Key : \E t \in Tx : k \in reads[t] \cup writes[t]}

(* sortedStrings: the queue keys in ascending order; queue i of the rank   *)
(* graph is sortedStrings[i + 1].                                          *)
SortedKeys == SetToSortSeq(QueueKeys, <)
QIndex(k) == CHOOSE i \in DOMAIN SortedKeys : SortedKeys[i] = k

(* depQueue: queue q depends on every other queue read by a transaction   *)
(* that writes q.                                                          *)
DepQueues(q) ==
  {QIndex(k2) - 1 : k2 \in {k2 \in QueueKeys :
                              k2 # q /\ \E t \in Tx : q \in writes[t] /\ k2 \in reads[t]}}

(* The dependency lists handed to AlGraph.Init.  Each list is built by    *)
(* ranging over a Go map (temp), whose iteration order is unspecified:     *)
(* every order of every list is a possible input.                          *)
RankGraphs ==
  LET n == Len(SortedKeys)
      Lists(i) == SetToSeqs(DepQueues(SortedKeys[i + 1]))
  IN  {adj \in [0 .. n - 1 -> UNION {Lists(i) : i \in 0 .. n - 1}] :
         \A i \in 0 .. n - 1 : adj[i] \in Lists(i)}

-----------------------------------------------------------------------------
(***************************************************************************)
(* sortInQueue(queue), lines 184-343, as a function of the state it reads  *)
(* and writes; one operator per loop of the code.                          *)
(***************************************************************************)

(* Mutant: the marked pairs built key first.                              *)
SortReadsKeyFirst(q, sq, ab) ==
  LET readers == Range(RSlice(q))
      bound   == {t \in readers : sq[t] # 0 /\ ~ab[t]}
  IN  IF bound = {}
      THEN [seq     |-> [t \in Tx |-> IF t \in readers THEN INITIAL_SEQ ELSE sq[t]],
            marked  |-> {<<q, t>> : t \in readers},
            maxRead |-> IF readers = {} THEN 0 ELSE INITIAL_SEQ]
      ELSE [seq     |-> [t \in Tx |-> IF t \in readers /\ sq[t] = 0
                                      THEN Min({sq[u] : u \in bound}) ELSE sq[t]],
            marked  |-> {<<q, t>> : t \in {t \in readers : t \in bound \/ sq[t] = 0}},
            maxRead |-> Max({sq[t] : t \in bound})]

(* Lines 189-233: the reads of q.  tmpRQueue holds the reads already bound *)
(* by an earlier queue.  With none, every read gets INITIAL_SEQ; otherwise *)
(* the unbound reads get the least bound Sequence and maxRead the largest. *)
SortReads(q, sq, ab) ==
  LET readers == Range(RSlice(q))
      bound   == {t \in readers : sq[t] # 0 /\ ~ab[t]}
  IN  IF bound = {}
      THEN [seq     |-> [t \in Tx |-> IF t \in readers THEN INITIAL_SEQ ELSE sq[t]],
            marked  |-> {<<t, q>> : t \in readers},
            maxRead |-> IF readers = {} THEN 0 ELSE INITIAL_SEQ]
      ELSE [seq     |-> [t \in Tx |-> IF t \in readers /\ sq[t] = 0
                                      THEN Min({sq[u] : u \in bound}) ELSE sq[t]],
            marked  |-> {<<t, q>> : t \in {t \in readers : t \in bound \/ sq[t] = 0}},
            maxRead |-> Max({sq[t] : t \in bound})]

(* Lines 236-272: a write of t at q bound by an earlier queue, at or below *)
(* maxRead, is "same" when t's read of q is marked, "abort" when only a   *)
(* read of another key is, and "later" (tmpWQueue2) otherwise, as is every *)
(* bound write above maxRead.  "none": unbound, or its transaction aborted.*)
WriteClass(q, t, sq, as, ab, mr) ==
  IF sq[t] = 0 \/ ab[t] THEN "none"
  ELSE IF sq[t] > mr THEN "later"
  ELSE IF <<t, q>> \in as THEN "same"
  ELSE IF \E k \in Key \ {q} : <<t, k>> \in as THEN "abort"
  ELSE "later"

(* Lines 304-319: an unbound write takes the least number above maxWrite  *)
(* that no write of tmpWQueue2 holds.                                       *)
AssignFresh(acc, t, keys) ==
  IF acc.sq[t] # 0 THEN acc
  ELSE LET s == Min({i \in acc.mw + 1 .. acc.mw + 1 + Cardinality(keys) : i \notin keys})
       IN  [sq |-> [acc.sq EXCEPT ![t] = s], mw |-> s]

(* Lines 329-342: the writes of tmpWQueue2 by ascending Sequence; the     *)
(* first write of a Sequence above maxRead keeps it, every other write    *)
(* moves to maxWrite + 1.                                                  *)
(* Mutant: line 332 with >= for >: a write at maxRead keeps its number.   *)
AdjustLaterAtMaxRead(acc, e, mr) ==
  IF e.n >= mr /\ e.first THEN acc
  ELSE [sq |-> [acc.sq EXCEPT ![e.t] = acc.mw + 1], mw |-> acc.mw + 1]

AdjustLater(acc, e, mr) ==
  IF e.n > mr /\ e.first THEN acc
  ELSE [sq |-> [acc.sq EXCEPT ![e.t] = acc.mw + 1], mw |-> acc.mw + 1]

(* Lines 235-272 over the queue after its reads: every write classified,  *)
(* tmpWQueue ("same") and tmpWQueue2 ("later") in write-slice order.      *)
ClassifyWrites(q, rd, as, ab) ==
  LET as1 == as \cup rd.marked
      cl  == [t \in Tx |-> WriteClass(q, t, rd.seq, as1, ab, rd.maxRead)]
  IN  [q |-> q, ws |-> WSlice(q), sq1 |-> rd.seq, as1 |-> as1, ab |-> ab,
       mr1 |-> rd.maxRead, cl |-> cl,
       same  |-> SelectSeq(WSlice(q), LAMBDA t : cl[t] = "same"),
       later |-> SelectSeq(WSlice(q), LAMBDA t : cl[t] = "later")]

(* Lines 282-301: maxWrite starts at maxRead (INITIAL_SEQ - 1 for a queue *)
(* without reads); the first write of tmpWQueue goes right after the      *)
(* reads and raises maxRead to it, the transactions of the others abort,  *)
(* as do those of the "abort" writes.                                      *)
ReadWriteFirst(c) ==
  LET mw0 == IF c.mr1 = 0 THEN INITIAL_SEQ - 1 ELSE c.mr1
      mw1 == IF c.same = <<>> THEN mw0 ELSE mw0 + 1
  IN  c @@ [sq2  |-> IF c.same = <<>> THEN c.sq1 ELSE [c.sq1 EXCEPT ![Head(c.same)] = mw0 + 1],
            mw1  |-> mw1,
            mr2  |-> IF c.same = <<>> THEN c.mr1 ELSE mw1,
            ab1  |-> [t \in Tx |-> \/ c.ab[t]
                                   \/ t \in Range(c.ws) /\ c.cl[t] = "abort"
                                   \/ c.same # <<>> /\ t \in Range(Tail(c.same))],
            keys |-> {c.sq1[t] : t \in Range(c.later)}]

(* Lines 303-327: fresh numbers for the unbound writes, then maxWrite     *)
(* raised to the largest Sequence of tmpWQueue2.                           *)
FreshWrites(c) ==
  LET Fresh(acc, t) == AssignFresh(acc, t, c.keys)
      fresh == FoldLeft(Fresh, [sq |-> c.sq2, mw |-> c.mw1], c.ws)
  IN  c @@ [sq3 |-> fresh.sq, mw2 |-> Max({fresh.mw} \cup c.keys)]

(* Lines 329-342 and the result of sortInQueue.                            *)
AdjustWrites(c) ==
  LET sorted  == SetToSortSeq(c.keys, <)
      Entries(i) == LET g == SelectSeq(c.later, LAMBDA t : c.sq1[t] = sorted[i])
                    IN  [j \in DOMAIN g |-> [n |-> sorted[i], first |-> j = 1, t |-> g[j]]]
      Adjust(acc, e) == AdjustLater(acc, e, c.mr2)
      adjusted == FoldLeft(Adjust, [sq |-> c.sq3, mw |-> c.mw2],
                           FlattenSeq([i \in DOMAIN sorted |-> Entries(i)]))
  IN  [seq |-> adjusted.sq, assigned |-> c.as1, aborted |-> c.ab1,
       maxRead |-> c.mr2, maxWrite |-> adjusted.mw]

(* sortInQueue: its loops in the order the code runs them.                 *)
SortInQueue(q, sq, as, ab) ==
  AdjustWrites(FreshWrites(ReadWriteFirst(ClassifyWrites(q, SortReads(q, sq, ab), as, ab))))

-----------------------------------------------------------------------------
(* CreateGraph: any batch the simulator can deliver, each transaction      *)
(* with at least one operation (rw[0] is read for its id).                 *)
Init ==
  /\ reads \in [Tx -> SUBSET Key]
  /\ writes \in [Tx -> SUBSET Key]
  /\ \A t \in Tx : reads[t] \cup writes[t] # {}
  /\ phase = "rank"
  /\ sequence = <<>>
  /\ pos = 1
  /\ seq = [t \in Tx |-> 0]
  /\ assigned = {}
  /\ aborted = [t \in Tx |-> FALSE]
  /\ maxRead = [k \in Key |-> 0]
  /\ maxWrite = [k \in Key |-> 0]
  /\ commitOrder = [s \in {} |-> {}]

(* QueuesSort: build the rank graph and sort it.  An empty graph makes    *)
(* AdvancedTopologicalSort index al.vertices[0]: the process panics.      *)
QueuesSort ==
  /\ phase = "rank"
  /\ \E adj \in RankGraphs :
       LET res == AdvancedTopologicalSort(adj)
       IN  IF res.panic
           THEN /\ phase' = "panic"
                /\ UNCHANGED sequence
           ELSE /\ sequence' = [i \in DOMAIN res.order |-> SortedKeys[res.order[i] + 1]]
                /\ phase' = "sort"
  /\ UNCHANGED <<reads, writes, pos, seq, assigned, aborted, maxRead, maxWrite, commitOrder>>

(* The state sortInQueue(q) leaves: res is its result.                     *)
Sorted(q, res) ==
  /\ seq' = res.seq
  /\ assigned' = res.assigned
  /\ aborted' = res.aborted
  /\ maxRead' = [maxRead EXCEPT ![q] = res.maxRead]
  /\ maxWrite' = [maxWrite EXCEPT ![q] = res.maxWrite]

(* One iteration of the first loop of DeSS: sortInQueue on the next queue. *)
SortQueue ==
  /\ phase = "sort"
  /\ pos <= Len(sequence)
  /\ Sorted(sequence[pos], SortInQueue(sequence[pos], seq, assigned, aborted))
  /\ pos' = pos + 1
  /\ UNCHANGED <<reads, writes, phase, sequence, commitOrder>>

(* The second loop of DeSS: every transaction that is not aborted joins   *)
(* the group of the Sequence of its first node.                            *)
GroupCommit ==
  /\ phase = "sort"
  /\ pos > Len(sequence)
  /\ LET live == {t \in Tx : ~aborted[t]}
     IN  commitOrder' = [s \in {seq[t] : t \in live} |-> {t \in live : seq[t] = s}]
  /\ phase' = "done"
  /\ UNCHANGED <<reads, writes, sequence, pos, seq, assigned, aborted, maxRead, maxWrite>>

(* The analysis has returned (or the process has died): nothing changes.   *)
Finished ==
  /\ phase \in {"done", "panic"}
  /\ UNCHANGED vars

Next == QueuesSort \/ SortQueue \/ GroupCommit \/ Finished

Spec == Init /\ [][Next]_vars

-----------------------------------------------------------------------------
Survivors == {t \in Tx : ~aborted[t]}

TypeOK ==
  /\ reads \in [Tx -> SUBSET Key] /\ writes \in [Tx -> SUBSET Key]
  /\ phase \in {"rank", "sort", "done", "panic", "committed"}
  /\ sequence \in Seq(Key)
  /\ pos \in 1 .. Len(sequence) + 1
  /\ seq \in [Tx -> Nat]
  /\ assigned \subseteq Tx \X Key
  /\ aborted \in [Tx -> BOOLEAN]
  /\ maxRead \in [Key -> Nat] /\ maxWrite \in [Key -> Nat]
  /\ \A s \in DOMAIN commitOrder : commitOrder[s] \subseteq Tx

(* P2 of the spec: when DeSS returns, a surviving transaction that reads  *)
(* a key another survivor writes has a strictly smaller Sequence.          *)
ReadBeforeWrite ==
  phase = "done" =>
    \A t, u \in Survivors : t # u /\ reads[t] \cap writes[u] # {} => seq[t] < seq[u]

(* I5/P4: two surviving transactions of one commit group never write the  *)
(* same key, so the commit pool may apply a group in any interleaving.     *)
BucketWriteDisjoint ==
  phase = "done" =>
    \A s \in DOMAIN commitOrder : \A t, u \in commitOrder[s] :
      t # u => writes[t] \cap writes[u] = {}

(* Every transaction of the batch leaves DeSS with a Sequence: the rank    *)
(* order visits every queue, even when the rank graph has cycles, so no    *)
(* survivor is grouped under the unassigned value 0.                       *)
EveryTxSequenced ==
  phase = "done" => \A t \in Tx : seq[t] >= INITIAL_SEQ

(* Right after sortInQueue(q) returns, queue q is in commit order: among   *)
(* the transactions that survive it, two writers of q have different       *)
(* Sequences and a reader of q comes strictly before every other writer.   *)
QueueLocallyOrdered ==
  [][SortQueue =>
       LET q == sequence[pos]
       IN  \A t, u \in Tx :
             t # u /\ ~aborted'[t] /\ ~aborted'[u] =>
               /\ q \in writes[t] /\ q \in writes[u] => seq'[t] # seq'[u]
               /\ q \in reads[t] /\ q \in writes[u] => seq'[t] < seq'[u]]_vars

(* DeSS returns a plan for every batch, the empty one included.            *)
AnalysisReturns == phase # "panic"

=============================================================================
