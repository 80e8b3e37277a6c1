CONSTANTS
  Tx <- MCTx
  Key <- MCKey
SPECIFICATION Spec
INVARIANT ReadBeforeWrite
