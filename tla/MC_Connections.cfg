SPECIFICATION Spec
INVARIANT ConnectionsAreComponents
