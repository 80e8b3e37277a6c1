SPECIFICATION Spec
INVARIANT ProofComplete
