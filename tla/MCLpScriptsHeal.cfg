SPECIFICATION FairSpec
CONSTANTS
    r1 = r1
    d1 = d1
    d2 = d2
    Receipts <- MCReceipts
    MaxGen <- MCMaxGen
    Drivers <- MCOneDriver
    Scripts <- MCResume
    RpcMiss = FALSE
    Dust <- MCDust
PROPERTIES
    SelfHealing
