---------------------------- MODULE MCOrderBook ----------------------------
(* OrderBook for TLC.  Nothing tells two symbols apart but their identity.  *)
EXTENDS OrderBook, TLC

SymbolSymmetry == Permutations(Symbols)

(* With UNIT = 2 and two ticks: a negative price that truncates to tick 0   *)
(* and two prices of tick 1, one of them between ticks.                     *)
MixedPrices == {-2, 1, 2}

(* What a FIX line can hold: a missing tag 38 is 0, a signed one negative.  *)
ParsedQuantities == {-1, 0, 1, 2}
============================================================================
