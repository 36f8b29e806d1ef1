CONSTANTS
    btc = btc
    eth = eth
    None = none
    Panic = panic
    Markets <- MCMarkets
    Timestamps <- MCTimestamps
    Prices <- MCPrices
    Expos <- MCExpos
SPECIFICATION Spec
\* A panic of the worker task ends the process: no step follows it.
CHECK_DEADLOCK FALSE
INVARIANT PythErrorsAreLocal
