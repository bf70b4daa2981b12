SPECIFICATION Spec
INVARIANTS
    BackwardlyCompatible
CHECK_DEADLOCK FALSE
