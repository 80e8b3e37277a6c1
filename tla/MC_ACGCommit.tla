---------------------------- MODULE MC_ACGCommit ----------------------------
(* Three transactions over two keys, analysed and committed.               *)
EXTENDS ACGCommit

MCTx == 1 .. 3
MCKey == 1 .. 2

=============================================================================
