------------------------------ MODULE MC_DeSS ------------------------------
(* Three transactions over two keys: every batch, every read/write mix.   *)
EXTENDS DeSS

MCTx == 1 .. 3
MCKey == 1 .. 2

(* The empty batch (spec section 8, Boundary).                             *)
MCTxEmpty == {}

=============================================================================
