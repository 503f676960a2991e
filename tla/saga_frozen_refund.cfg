\* Admins may freeze, unfreeze or close the wallets twice; no crashes, no faults.
CONSTANTS
    w1 = w1
    w2 = w2
    s1 = s1
    s2 = s2
    Wallets <- MCWallets
    Transfer <- MCTransfer
    InitBalance <- MCInitBalance
    Sagas <- MCOneSaga
    Recoverers = {r1}
    CrashPoints <- NoCrashes
    FaultPoints <- NoFaults
    MaxFaults = 0
    LegsOutliveThreshold = FALSE
    MaxAdmin = 2
    MaxCrashes = 0
SPECIFICATION Spec
PROPERTY SagaTerminates
