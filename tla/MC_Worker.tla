----------------------------- MODULE MC_Worker -----------------------------
(* TLC instance of Worker: two orders, two transaction slots, one restart. *)
EXTENDS Worker, TLC

CONSTANTS o1, o2

MCOrders == {o1, o2}

\* Orders are only compared for equality (safety runs only).
MCSymmetry == Permutations(MCOrders)
=============================================================================
