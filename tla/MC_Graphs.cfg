SPECIFICATION Spec
INVARIANTS SortIsPermutation SortRespectsArcs SCCsAreComponents CyclesAreElementary InvalidIsFeedbackSet
