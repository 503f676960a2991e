\* Two service replicas run the recovery cron; one request crashes before its credit.
CONSTANTS
    w1 = w1
    w2 = w2
    s1 = s1
    s2 = s2
    Wallets <- MCWallets
    Transfer <- MCTransfer
    InitBalance <- MCInitBalance
    Sagas <- MCOneSaga
    Recoverers = {r1, r2}
    CrashPoints <- RecoverableCrashes
    FaultPoints <- NoFaults
    MaxFaults = 0
    LegsOutliveThreshold = FALSE
    MaxAdmin = 0
    MaxCrashes = 2
SPECIFICATION Spec
INVARIANT EachTransferAppliedOnce
