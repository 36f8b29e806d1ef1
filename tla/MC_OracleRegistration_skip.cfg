\* One deployment restarted, sealed key or not.
CONSTANTS
    w1 = w1
    w2 = w2
    a1 = a1
    a2 = a2
    None = none
    Misaligned = misaligned
    MaxStarts = 4
    Workers <- MCOneWorker
    Authorities <- MCOneAuthority
    AuthorityOf <- MCOneAuthorityOf
    Sealing <- MCAnySealing
SPECIFICATION Spec
CHECK_DEADLOCK FALSE
PROPERTY SkipWhenRegistered
