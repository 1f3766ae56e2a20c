SPECIFICATION Spec
CONSTANTS
    r1 = r1
    w1 = w1
    Receipts <- MCReceipts
    Watchers <- MCWatchers
    MaxGen = 1
INVARIANTS
    ProcessedThenGoneIsTerminal
