------------------------- MODULE MC_SimulationPool -------------------------
EXTENDS SimulationPool

(* Four transactions on a pool of three workers: Invoke blocks at least     *)
(* once, and three appends can race for the mutex.                        *)
MCTxNum == 4
MCPoolCap == 3

=============================================================================
