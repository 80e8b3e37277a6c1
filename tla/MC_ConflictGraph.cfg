CONSTANTS
  k1 = k1
  k2 = k2
  N <- MCN
  Key <- MCKey
  Batches <- MCBatches
SYMMETRY KeySymmetry
SPECIFICATION Spec
INVARIANTS TypeOK BuildersAgree CommitOrderSound CommitRecoverable
PROPERTY CommitPlanSpec
