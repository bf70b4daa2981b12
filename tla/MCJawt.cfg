SPECIFICATION FairSpec
CONSTANTS
    Threads = {t1, t2}
    Versions <- MCVersions
    Nobody = Nobody
    NoInfo = NoInfo
INVARIANTS
    TypeOK
    PaintsWhatIsThere
PROPERTIES
    EveryLockEnds
