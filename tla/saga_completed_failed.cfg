\* The TRANSFER_COMPLETED publish throws once; no crashes, no admin.
CONSTANTS
    w1 = w1
    w2 = w2
    s1 = s1
    s2 = s2
    Wallets <- MCWallets
    Transfer <- MCTransfer
    InitBalance <- MCInitBalance
    Sagas <- MCOneSaga
    Recoverers = {r1}
    CrashPoints <- NoCrashes
    FaultPoints <- PublishCompletedFault
    MaxFaults = 1
    LegsOutliveThreshold = FALSE
    MaxAdmin = 0
    MaxCrashes = 0
SPECIFICATION Spec
PROPERTY SagaMovesAlongEdges
