SPECIFICATION FairSpec
CONSTANTS
    Settings <- TestSettings
    MaxSkips = 2
    MaxCopies = 1
INVARIANTS
    SendsConnected
    RxAfterTx
    TxTable
    Lockstep
    TargetReached
PROPERTIES
    Ends
    WaitLimited
CHECK_DEADLOCK FALSE
