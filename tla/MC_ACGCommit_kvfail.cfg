\* Section 7 of the spec: a KVFailure aborts the batch wholesale.
CONSTANTS
  Tx <- MCTx
  Key <- MCKey
SPECIFICATION FairSpecAll
PROPERTY KVFailureAbortsBatch
