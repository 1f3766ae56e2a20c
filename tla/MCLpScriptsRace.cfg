SPECIFICATION Spec
CONSTANTS
    r1 = r1
    d1 = d1
    d2 = d2
    Receipts <- MCReceipts
    MaxGen = 1
    Drivers <- MCDrivers
    Scripts <- MCAllScripts
    RpcMiss = FALSE
    Dust <- MCNoDust
SYMMETRY Symmetry
INVARIANTS
    ClosedClaim
