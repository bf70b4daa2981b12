SPECIFICATION Spec
INVARIANTS
    Dispatchable
    WordSizeIndependent
    FitsItsUnion
    CallsTravel
\* The pass over the header ends.
CHECK_DEADLOCK FALSE
