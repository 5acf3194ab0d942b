---------------------------- MODULE MCMarketData ----------------------------
(* MarketData on small instances. *)
EXTENDS MarketData, TLC

AllCandles == [dataset |-> "candles", start |-> 0, end |-> 2]
AllFunding == [dataset |-> "funding", start |-> 0, end |-> 2]
EitherDataset == {AllCandles, AllFunding}
Candles == {AllCandles}
Symmetry == Permutations(Calls)
=============================================================================
