------------------------- MODULE MC_TimestampCache -------------------------
(* TLC instance of TimestampCache: three concurrent getters, two          *)
(* timestamps, two candidate prices, one set call from the Pyth poller.   *)
EXTENDS TimestampCache, TLC

CONSTANTS k1, k2, k3, t1, t2, v1, v2

MCCallers    == {k1, k2, k3}
MCTimestamps == {t1, t2}
MCValues     == {v1, v2}

\* Callers, timestamps and prices are only compared for equality.
MCSymmetry == Permutations(MCCallers) \cup Permutations(MCValues)

=============================================================================
