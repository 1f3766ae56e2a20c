SPECIFICATION FairSpec
CONSTANTS
    a1 = a1
    c1 = c1
    c2 = c2
    c3 = c3
    Accounts <- MCAccounts
    Calls <- MCTwoCalls
    Window = 2
    MaxHeight = 4
    ConfirmLevel = "confirmed"
    Forks = TRUE
INVARIANTS
    TypeOK
    ExpiredIsDead
    AnswerStays
    CreateIsNoop
    DepositFindsAccounts
PROPERTY
    WaitsEnd
CHECK_DEADLOCK FALSE
