\* One deployment inside its enclave (the sealed key file opens),
\* restarted up to MaxStarts times, under fair restarts.
CONSTANTS
    w1 = w1
    w2 = w2
    a1 = a1
    a2 = a2
    None = none
    Misaligned = misaligned
    MaxStarts = 10
    Workers <- MCOneWorker
    Authorities <- MCOneAuthority
    AuthorityOf <- MCOneAuthorityOf
    Sealing <- MCInEnclave
SPECIFICATION FairSpec
\* After its last start the worker runs for good: no step is left.
CHECK_DEADLOCK FALSE
INVARIANT TypeOK
INVARIANT ReadyCanFulfil
 
