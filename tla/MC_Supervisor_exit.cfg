\* max_retries and the delays of watch_anchor_events, the real threshold.
CONSTANTS
    MaxRetries = 3
    BaseDelay = 500
    DelayCap = 5000
    MaxSessions <- MCMaxSessions
    Balances <- MCBalances
    LowFunds = 10000
    None = none
SPECIFICATION Spec
\* Once the process has exited no step of it is left.
CHECK_DEADLOCK FALSE
INVARIANT FatalExitFails
