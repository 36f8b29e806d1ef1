------------------------- MODULE MC_PriceComposer -------------------------
(* get_price over one market at width 3 (u64 max 7): Coinbase ticks of     *)
(* 1, 2 or 4 and Pyth prices of 1 or 4, so that 4 + 4 overflows.          *)
EXTENDS PriceComposer

MCPrices == {1, 2, 4}
MCPythPrices == {1, 4}
=============================================================================
