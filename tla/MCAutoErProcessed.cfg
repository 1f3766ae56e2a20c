SPECIFICATION Spec
CONSTANTS
    r1 = r1
    d1 = d1
    d2 = d2
    Receipts <- MCReceipts
    MaxGen = 3
    Drivers <- MCOneDriver
    WaitsFor = "processed"
    RpcMiss = FALSE
    Dust <- MCNoDust
INVARIANTS
    TokenSettled
