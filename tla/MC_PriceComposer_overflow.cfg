\* MaxDelay = AccTTL = 2: a frame may wait until the accumulator of its
\* second has expired, and then starts a new one.
CONSTANTS
    Prices <- MCPrices
    PythPrices <- MCPythPrices
    Width = 3
    Invalid = inv
    None = none
    MaxTime = 2
    MaxTicks = 3
    AccTTL = 2
    CommittedTTL = 3
    MaxDelay = 2
SPECIFICATION Spec
\* A panic (the checked_add unwrap, or the accumulator's `+` in a debug
\* build) ends the worker: no step is left.
CHECK_DEADLOCK FALSE
INVARIANT ComposeErrorsAreLocal
