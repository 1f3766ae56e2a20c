-------------------------------- MODULE Crypto1 --------------------------------
(* The pool Crypto.1 of PoolConfig.json; "sol" stands for the ways to write *)
(* a symbol that are not the configuration's.                              *)

Custodies1 == {"USDC", "SOL", "BTC", "ETH", "JitoSOL", "ZEC", "BNB"}
Symbols1 == Custodies1 \cup {"WSOL", "sol"}
CustodyOf1 == [s \in Symbols1 |-> IF s \in {"WSOL", "sol"} THEN "SOL" ELSE s]
SymbolOf1 == [c \in Custodies1 |-> c]

Long(t, c) == [target |-> t, collateral |-> c, side |-> "long"]
Short(t) == [target |-> t, collateral |-> "USDC", side |-> "short"]

MarketList1 ==
    <<Long("SOL", "SOL"), Short("SOL"), Long("BTC", "BTC"), Short("BTC"),
      Long("ETH", "ETH"), Short("ETH"), Long("SOL", "JitoSOL"),
      Long("ZEC", "ZEC"), Short("ZEC"), Long("BNB", "BTC"), Short("BNB")>>
Deprecated1 == {}

Overridden1 == {"SOL", "WSOL"}
OverrideOf1 == [s \in Overridden1 |-> "JitoSOL"]
=============================================================================
