CONSTANTS
  NoHolder = NoHolder
  TxNum <- MCTxNum
  PoolCap <- MCPoolCap
SPECIFICATION FairSpec
INVARIANTS TypeOK WaitCoversAll CaptureComplete CounterNeverNegative
PROPERTY SimulationReturns
