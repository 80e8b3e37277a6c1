CONSTANTS
  k1 = k1
  k2 = k2
  N <- AbortN
  Key <- AbortKey
  Batches <- AbortBatches
SPECIFICATION Spec
INVARIANT CommitOrderSound
