CONSTANTS
  Tx <- MCTxEmpty
  Key <- MCKey
SPECIFICATION Spec
INVARIANT AnalysisReturns
