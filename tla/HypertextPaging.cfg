SPECIFICATION FairSpec
CONSTANTS
    Links = {k1, k2, k3, k4, k5}
    MAX_HYPERLINKS = 2
INVARIANTS
    TypeOK
    PrefixReceived
    ReceivedOnce
    NothingSkipped
PROPERTIES
    EveryIterationEnds
