SPECIFICATION Spec
CONSTANTS
    a1 = a1
    c1 = c1
    c2 = c2
    c3 = c3
    Accounts <- MCAccounts
    Calls <- MCTwoCalls
    Window = 1
    MaxHeight = 3
    ConfirmLevel = "processed"
    Forks = FALSE
INVARIANT
    CreateIsNoop
CHECK_DEADLOCK FALSE
