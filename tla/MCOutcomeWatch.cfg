SPECIFICATION Spec
CONSTANTS
    r1 = r1
    w1 = w1
    Receipts <- MCReceipts
    Watchers <- MCWatchers
    MaxGen = 3
INVARIANTS
    TypeOK
    Conservation
    CopiesAgree
    TerminalMeansClosed
    ReportHappened
PROPERTIES
    PromiseKept
