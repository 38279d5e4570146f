--------------------------- MODULE MCRiskEngine ---------------------------
(* RiskEngine for TLC, with a surface of two strikes whose 30-day           *)
(* volatility falls with the strike, as in config/vol_surface.csv.          *)
EXTENDS RiskEngine, TLC

SymbolSymmetry == Permutations(Symbols)

Smile == 2 :> (30 :> 28 @@ 60 :> 26) @@ 4 :> (30 :> 22 @@ 60 :> 20)
============================================================================
