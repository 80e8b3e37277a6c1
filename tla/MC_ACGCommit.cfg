\* Every batch of three transactions over two keys, analysed by DeSS and
\* committed by the worker pool, with any Put allowed to fail.
CONSTANTS
  Tx <- MCTx
  Key <- MCKey
SPECIFICATION FairSpecAll
INVARIANTS
  TypeOK
  EveryTxSequenced
  LastGroupWins
  GroupPrefixApplied
PROPERTIES
  QueueLocallyOrdered
  CommitTerminates
