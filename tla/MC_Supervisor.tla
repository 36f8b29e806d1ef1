--------------------------- MODULE MC_Supervisor ---------------------------
(* The payer's balance is just above, at, or well above the threshold.    *)
EXTENDS Supervisor

MCMaxSessions == 4
MCBalances == {10000, 10001, 20000}
=============================================================================
