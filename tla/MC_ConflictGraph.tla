-------------------------- MODULE MC_ConflictGraph --------------------------
EXTENDS ConflictGraph

CONSTANTS k1, k2

(* Every batch of four transactions over two keys, none without an        *)
(* operation.  The engine only compares keys for equality (map keys), so  *)
(* the two keys are model values and interchangeable.                      *)
MCN == 4
MCKey == {k1, k2}
KeySymmetry == Permutations(MCKey)
MCBatches ==
  {b \in [reads : [0 .. MCN - 1 -> SUBSET MCKey], writes : [0 .. MCN - 1 -> SUBSET MCKey]] :
     \A t \in 0 .. MCN - 1 : b.reads[t] \cup b.writes[t] # {}}

(* A batch of five transactions over three keys on which Run invalidates  *)
(* transactions 0, 1 and 4.                                                *)
AbortN == 5
AbortKey == 0 .. 2
AbortBatches ==
  {[reads  |-> (0 :> {} @@ 1 :> {} @@ 2 :> {2} @@ 3 :> {1} @@ 4 :> {1, 2}),
    writes |-> (0 :> {0, 1} @@ 1 :> {0, 2} @@ 2 :> {2} @@ 3 :> {1} @@ 4 :> {0})]}

=============================================================================
