---------------------------- MODULE MCTradeScripts ----------------------------
(* SOL longs of Crypto.1 with a swap of collateral, against limit orders   *)
(* and one transaction that lands late.                                    *)
EXTENDS TradeScripts, Crypto1

MCGoals == {[target |-> "SOL", side |-> "long", swap |-> TRUE]}

\* Limit orders in the market the runner trades.
MCSameMarket == {[target |-> "SOL", lock |-> "JitoSOL", side |-> "long"]}
=============================================================================

