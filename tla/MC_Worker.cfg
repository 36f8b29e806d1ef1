CONSTANTS
    o1 = o1  o2 = o2
    Orders <- MCOrders
    MaxTxs = 2
    MaxRestarts = 1
    NoTx = NoTx
SPECIFICATION FairSpec
INVARIANT TypeOK
INVARIANT NoConcurrentFulfill
INVARIANT NoRetryAfterConfirmed
PROPERTY LifecycleLive
