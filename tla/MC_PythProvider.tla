-------------------------- MODULE MC_PythProvider --------------------------
(* Instance of PythProvider for TLC: two markets, two publish times, and    *)
(* mantissas small enough that every fixed-point value fits TLC's integers. *)
EXTENDS PythProvider

CONSTANTS btc, eth

MCMarkets == {btc, eth}
MCTimestamps == {1, 2}
MCPrices == {1, 2}
\* The exponents of the crypto feeds (-8) and the end of the range where the
\* formula is exact.
MCExpos == {-9, -8}
\* An exponent of 0, which the formula divides by.
MCExposZero == {-9, 0}
====
