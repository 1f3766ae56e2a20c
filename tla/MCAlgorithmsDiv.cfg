SPECIFICATION MCSpec
CONSTANTS
    i1 = i1
    i2 = i2
    i3 = i3
    a1 = a1
    Instrs <- MCInstrs
    Refs <- MCRefs
    MaxIndex = 3
    MaxKeys = 1
    UsdDecimals = 1
    BpsDecimals = 2
    RateDecimals = 1
    Radix = 4
    Pubkeys <- MCPubkeys
    Coefficients <- MCCoefficients
    Exponents <- MCExponents
    DivExponents <- MCExponents
    Prices <- MCPrices
    PriceExponents <- MCPriceExponents
    Rates <- MCRates
    TokenDecimals <- MCDecimals
    Bps <- MCBps
    Lengths <- MCLengths
    Messages <- MCMessages
    Symbols <- Symbols1
    Custodies <- Custodies1
    CustodyOf <- CustodyOf1
    SymbolOf <- SymbolOf1
    MarketList <- MarketList1
    Deprecated <- Deprecated1
    Overridden <- Overridden1
    OverrideOf <- OverrideOf1
    DefaultCollateral = "USDC"
INVARIANTS
    QuotientsAreExact
CHECK_DEADLOCK FALSE
