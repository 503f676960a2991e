\* A live request outlives the stuck threshold while recovery runs; an admin closes the drained source.
CONSTANTS
    w1 = w1
    w2 = w2
    s1 = s1
    s2 = s2
    Wallets <- MCWallets
    Transfer <- MCTransfer
    InitBalance <- MCInitBalance
    Sagas <- MCOneSaga
    Recoverers = {r1}
    CrashPoints <- NoCrashes
    FaultPoints <- NoFaults
    MaxFaults = 0
    LegsOutliveThreshold = TRUE
    MaxAdmin = 1
    MaxCrashes = 2
SPECIFICATION Spec
PROPERTY SagaMovesAlongEdges
