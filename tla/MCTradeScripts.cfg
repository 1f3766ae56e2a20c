SPECIFICATION TradeFairSpec
CONSTANTS
    Timeout = 3
    Interval = 1
    Latency = 1
    MaxTime = 6
    MaxLate = 1
    Goals <- MCGoals
    Orders <- MCSameMarket
    Symbols <- Symbols1
    Custodies <- Custodies1
    CustodyOf <- CustodyOf1
    SymbolOf <- SymbolOf1
    MarketList <- MarketList1
    Deprecated <- Deprecated1
    Overridden <- Overridden1
    OverrideOf <- OverrideOf1
    DefaultCollateral = "USDC"
INVARIANTS
    TradeTypeOK
    PassMeansDone
    OneMarket
    MissedOnlyAtTheEnd
    EndsInTime
PROPERTIES
    Rerunnable
