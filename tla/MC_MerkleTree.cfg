SPECIFICATION Spec
INVARIANTS RootMatchesReference FirstProofVerifies
