SPECIFICATION Spec
CONSTANTS
    r1 = r1
    d1 = d1
    d2 = d2
    Receipts <- MCReceipts
    MaxGen = 2
    Drivers <- MCOneDriver
    Scripts <- MCAllScripts
    RpcMiss = FALSE
    Dust <- MCNoDust
INVARIANTS
    TypeOK
    ClosedClaim
    OutcomeIsVerdict
    DrivenStepIsDue
    NeedsErMeansReused
