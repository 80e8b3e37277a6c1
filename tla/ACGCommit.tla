------------------------------- MODULE ACGCommit -------------------------------
(***************************************************************************)
(* The queue engine end to end, as TestConflictQueue in src/test.go runs   *)
(* it: CreateGraph, QueuesSort and DeSS (module DeSS), then the concurrent *)
(* commit of the groups into the key-value store.                          *)
(*                                                                         *)
(* The commit takes the sequence numbers of commitOrder in ascending       *)
(* order; for each it hands every non-empty write list of the group to a   *)
(* worker of an ants pool and waits on a WaitGroup for all of them.  A     *)
(* worker stores its writes one at a time (StoreState, one leveldb Put     *)
(* each).  The value a write stores is abstracted to the transaction that  *)
(* wrote it; 0 stands for the value the key had before the batch.          *)
(*                                                                         *)
(* A Put may fail (leveldb I/O error).  The worker then calls log.Panic,   *)
(* an ordinary panic inside an ants worker goroutine.  The pool recovers   *)
(* it (no PanicHandler is set at line 245), so the process goes on: the    *)
(* failing worker drops the rest of its list without calling wg.Done(),    *)
(* the other workers keep storing, and the dispatcher's wg.Wait() blocks.  *)
(***************************************************************************)
EXTENDS DeSS

VARIABLES
  kv,        \* the store: key -> transaction whose write it holds, or 0
  group,     \* the sequence number of the group being committed (0: none yet)
  pending,   \* the writes each worker of the current group has still to store
  wg,        \* the counter of the sync.WaitGroup
  failed     \* the transactions whose worker's Put failed

commitVars == <<kv, group, pending, wg, failed>>
allVars == <<vars, commitVars>>

(* The groups not yet committed. *)
LaterGroups == {s \in DOMAIN commitOrder : s > group}

(* wg.Wait() returns: every worker invoked has called wg.Done().          *)
Drained == wg = 0

(* The transactions of group n that get a worker: those with writes.      *)
Workers(n) == {t \in commitOrder[n] : writes[t] # {}}

(* StoreState (db_tool.go): the account of key k, holding t's value, is   *)
(* Put under its key.                                                      *)
Put(m, k, t) == [m EXCEPT ![k] = t]

InitAll ==
  /\ Init
  /\ kv = [k \in Key |-> 0]
  /\ group = 0
  /\ pending = [t \in Tx |-> <<>>]
  /\ wg = 0
  /\ failed = {}

(* The analysis steps leave the store alone. *)
Analyse ==
  /\ QueuesSort \/ SortQueue \/ GroupCommit
  /\ UNCHANGED commitVars

(* Mutant: the next group is invoked without wg.Wait() (line 265).        *)
InvokeGroupNoWait ==
  /\ phase = "done"
  /\ LaterGroups # {}
  /\ LET n == Min(LaterGroups)
     IN  /\ group' = n
         /\ pending' = [t \in Tx |-> IF t \in Workers(n)
                                     THEN SetToSortSeq(writes[t], <) ELSE pending[t]]
         /\ wg' = wg + Cardinality(Workers(n))
  /\ UNCHANGED <<vars, kv, failed>>

(* Mutant: wg.Add(1) before the len(v) > 0 test, for every transaction of *)
(* the group, while only those with writes get a worker to call Done.     *)
InvokeGroupAddAll ==
  /\ phase = "done"
  /\ Drained
  /\ LaterGroups # {}
  /\ LET n == Min(LaterGroups)
     IN  /\ group' = n
         /\ pending' = [t \in Tx |-> IF t \in Workers(n)
                                     THEN SetToSortSeq(writes[t], <) ELSE <<>>]
         /\ wg' = Cardinality(commitOrder[n])
  /\ UNCHANGED <<vars, kv, failed>>

(* Lines 258-264: after the previous group has drained, invoke a worker   *)
(* for every transaction of the next group in ascending order (the write  *)
(* list of a transaction without writes is skipped: no wg.Add for it).    *)
InvokeGroup ==
  /\ phase = "done"
  /\ Drained
  /\ LaterGroups # {}
  /\ LET n == Min(LaterGroups)
     IN  /\ group' = n
         /\ pending' = [t \in Tx |-> IF t \in Workers(n)
                                     THEN SetToSortSeq(writes[t], <) ELSE <<>>]
         /\ wg' = Cardinality(Workers(n))
  /\ UNCHANGED <<vars, kv, failed>>

(* Lines 245-255: the worker of t stores its next write; after its last   *)
(* one it calls wg.Done().                                                 *)
StoreState(t) ==
  /\ phase = "done"
  /\ pending[t] # <<>>
  /\ kv' = Put(kv, Head(pending[t]), t)
  /\ pending' = [pending EXCEPT ![t] = Tail(@)]
  /\ wg' = IF Len(pending[t]) = 1 THEN wg - 1 ELSE wg
  /\ UNCHANGED <<vars, group, failed>>

(* Lines 249-251: the Put of t's next write fails and log.Panic unwinds   *)
(* the worker past wg.Done() (254) into the pool's recover: t's remaining *)
(* writes are never stored and the counter keeps t's share.                *)
StoreStateFails(t) ==
  /\ phase = "done"
  /\ pending[t] # <<>>
  /\ pending' = [pending EXCEPT ![t] = <<>>]
  /\ failed' = failed \cup {t}
  /\ UNCHANGED <<vars, kv, group, wg>>

(* Line 265 for the last group: the batch is committed.                   *)
Committed ==
  /\ phase = "done"
  /\ Drained
  /\ LaterGroups = {}
  /\ phase' = "committed"
  /\ UNCHANGED <<reads, writes, sequence, pos, seq, assigned, aborted,
                 maxRead, maxWrite, commitOrder, commitVars>>

(* The test has returned or panicked, or its dispatcher is blocked in     *)
(* wg.Wait() for good: every worker is idle and the counter is not zero.  *)
Stopped ==
  /\ \/ phase \in {"committed", "panic"}
     \/ phase = "done" /\ ~Drained /\ \A t \in Tx : pending[t] = <<>>
  /\ UNCHANGED allVars

NextAll ==
  \/ Analyse
  \/ InvokeGroup
  \/ \E t \in Tx : StoreState(t)
  \/ \E t \in Tx : StoreStateFails(t)
  \/ Committed
  \/ Stopped

SpecAll == InitAll /\ [][NextAll]_allVars

(* The dispatch loop is one goroutine that runs while it can, and every   *)
(* ants worker is a goroutine the Go scheduler runs: weak fairness on      *)
(* each.  A failing Put is a fault, never forced.  The analysis before it  *)
(* is a sequential function and needs none for the commit's progress.      *)
FairSpecAll ==
  /\ SpecAll
  /\ WF_allVars(InvokeGroup) /\ WF_allVars(Committed)
  /\ \A t \in Tx : WF_allVars(StoreState(t))

-----------------------------------------------------------------------------
(* The last transaction to write k in the serial order ord, or 0.          *)
LastWriterIn(ord, k) ==
  LET at == {i \in DOMAIN ord : k \in writes[ord[i]]}
  IN  IF at = {} THEN 0 ELSE ord[Max(at)]

(* Once committed, every key holds the write of a surviving transaction    *)
(* of the highest sequence number among those that write it: the groups   *)
(* are applied one after the other, never overlapping.                     *)
LastGroupWins ==
  phase = "committed" =>
    \A k \in Key :
      LET ws == {t \in Survivors : k \in writes[t]}
      IN  IF ws = {} THEN kv[k] = 0
          ELSE kv[k] \in ws /\ \A u \in ws : seq[u] <= seq[kv[k]]

(* The writers of k among the survivors of the groups before g that come  *)
(* last, or 0 if there are none: what the store holds for k once every    *)
(* group before g has been applied.                                        *)
LatestBefore(k, g) ==
  LET ws == {t \in Survivors : k \in writes[t] /\ seq[t] < g}
  IN  IF ws = {} THEN {0} ELSE {t \in ws : \A u \in ws : seq[u] <= seq[t]}

(* At every point of the concurrent commit, and so wherever a failing Put *)
(* leaves it blocked, each key holds a write of the group in flight or the *)
(* value the groups before it leave: a restart could resume from that     *)
(* group, although the other workers go on storing after the failure.     *)
(* The wg.Wait() between groups (test.go:265) is what keeps a slow worker  *)
(* of an earlier group from overwriting a later one.                       *)
GroupPrefixApplied ==
  phase = "done" /\ group > 0 =>
    \A k \in Key :
      kv[k] \in {t \in commitOrder[group] : k \in writes[t]} \cup LatestBefore(k, group)

(* Once DeSS has returned, the commit of TestConflictQueue ends or a Put  *)
(* has failed: every wg.Add(1) (line 261) is matched by the wg.Done() of a *)
(* worker that stores its whole list, so every wg.Wait() returns and the   *)
(* last group is committed.  A failure is a fault, outside fairness.       *)
CommitTerminates ==
  (phase = "done") ~> (phase = "committed" \/ failed # {})

(* Section 7 of the spec: on a KVFailure "the batch is aborted wholesale": *)
(* after a failed Put the engine returns, with the store as it was before  *)
(* the batch.                                                              *)
KVFailureAbortsBatch ==
  (failed # {}) ~> (phase = "committed" /\ kv = [k \in Key |-> 0])

(* P5 of the spec: the store ends as some serial execution of the         *)
(* survivors leaves it, an execution in which every transaction reads the *)
(* values of the batch snapshot its read set was captured from (no         *)
(* transaction before it writes what it reads).                            *)
SerialEquivalent ==
  phase = "committed" =>
    \E ord \in SetToSeqs(Survivors) :
      /\ \A i, j \in DOMAIN ord : i < j => reads[ord[j]] \cap writes[ord[i]] = {}
      /\ \A k \in Key : kv[k] = LastWriterIn(ord, k)

=============================================================================
