SPECIFICATION FairSpec
CONSTANTS
    r1 = r1
    d1 = d1
    d2 = d2
    Receipts <- MCReceipts
    MaxGen = 3
    Drivers <- MCOneDriver
    WaitsFor = "confirmed"
    RpcMiss = FALSE
    Dust <- MCDust
INVARIANTS
    TypeOK
    TokenSettled
    ClosedAnswer
    PayerEmptied
    ErIsDue
PROPERTIES
    ResumeDecides
