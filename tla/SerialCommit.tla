----------------------------- MODULE SerialCommit -----------------------------
(***************************************************************************)
(* What a commit engine of Nezha promises for one batch (spec P5 and        *)
(* section 4): in one step, the store goes from its state before the       *)
(* batch to the state a serial execution of the survivors leaves, the      *)
(* transactions the engine did not abort.  The execution is consistent     *)
(* with the snapshot the read sets were captured from: no transaction of   *)
(* it reads a key one before it writes.  A transaction that conflicts     *)
(* with no other is never aborted.  The batch is committed eventually.     *)
(*                                                                         *)
(* A stored value is the transaction that wrote it; NoWriter is the value  *)
(* before the batch.                                                       *)
(***************************************************************************)
EXTENDS Integers, Sequences, FiniteSets, SequencesExt

CONSTANTS
  Tx,         \* the transactions of the batch
  Key,        \* the keys
  NoWriter    \* the value of a key no transaction of the batch wrote

VARIABLES
  reads, writes,  \* the batch: read and write set of every transaction
  kv,             \* the store
  aborted,        \* the transactions the engine aborted
  committed       \* the batch has been committed

vars == <<reads, writes, kv, aborted, committed>>

(* t shares no key with any other transaction in a read-write or           *)
(* write-write way.                                                        *)
Independent(t) ==
  \A u \in Tx \ {t} :
    /\ writes[t] \cap (reads[u] \cup writes[u]) = {}
    /\ reads[t] \cap writes[u] = {}

(* The value of k after the serial execution ord.                          *)
StoreAfter(ord, k) ==
  LET at == {i \in DOMAIN ord : k \in writes[ord[i]]}
  IN  IF at = {} THEN NoWriter ELSE ord[Max(at)]

RECURSIVE SerialOrders(_)
(* The serial orders of S consistent with the snapshot, in which no       *)
(* transaction reads a key one before it writes: one can start with t     *)
(* exactly when t writes no key another transaction of S reads.            *)
SerialOrders(S) ==
  LET starts == {t \in S : \A u \in S \ {t} : writes[t] \cap reads[u] = {}}
  IN  IF S = {} THEN {<<>>}
      ELSE UNION {{<<t>> \o rest : rest \in SerialOrders(S \ {t})} : t \in starts}

Init ==
  /\ kv = [k \in Key |-> NoWriter]
  /\ aborted = {}
  /\ committed = FALSE

CommitBatch ==
  /\ ~committed
  /\ aborted' \in SUBSET {t \in Tx : ~Independent(t)}
  /\ \E ord \in SerialOrders(Tx \ aborted') :
       kv' = [k \in Key |-> StoreAfter(ord, k)]
  /\ committed' = TRUE
  /\ UNCHANGED <<reads, writes>>

(* The safety part: every step is the commit of the batch, or nothing.    *)
SafeSpec == Init /\ [][CommitBatch]_vars

Spec == SafeSpec /\ WF_vars(CommitBatch)

=============================================================================
