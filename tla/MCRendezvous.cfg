\* Two JVMs and two ATs attach, cross, detach and crash in every order.
CONSTANTS
    JVMs = {j1, j2}
    ATs = {a1, a2}
SPECIFICATION Spec
SYMMETRY Symmetry
INVARIANTS TypeOK NobodyMissed NoStalePeer OneFilePerPair
CHECK_DEADLOCK FALSE
