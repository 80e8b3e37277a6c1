\* P5: the committed store is that of a serial execution of the survivors.
CONSTANTS
  Tx <- MCTx
  Key <- MCKey
SPECIFICATION SpecAll
INVARIANTS
  SerialEquivalent
