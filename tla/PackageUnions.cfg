SPECIFICATION Spec
INVARIANTS
    UnionsAreComplete
\* The pass over the header ends.
CHECK_DEADLOCK FALSE
